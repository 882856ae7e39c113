----------------------------- MODULE HubScopes -----------------------------
(***************************************************************************)
(* Repository scopes (internal/hubstore/scope.go): enrolling a repository  *)
(* by a marker file in its Git common directory and by the directory's     *)
(* file identity.  The marker is shared by the hubs of all homes; a hub's  *)
(* writer slot orders only its own processes.  Meanwhile people create,    *)
(* copy, rename and remove repositories.                                   *)
(*                                                                         *)
(* A lookup changes nothing, so it is a state function (Answers).          *)
(***************************************************************************)
EXTENDS HubFile, Sequences

CONSTANTS
  Paths,   \* Git common directories' paths
  Inos,    \* file identities; one is free again once its directory is gone
  MaxDirs  \* bound: directories ever made

ASSUME ScopesAssumption == Inos \subseteq Nat \ {0} /\ MaxDirs \in Nat

VARIABLES
  dirs,      \* every directory there has been, in the order they were made
  at,        \* the directory at each path, or 0
  bindings,  \* scope_bindings with their repo_scopes row, by home
  global,    \* the global scope of each home: the release that wrote it, or 0
  call       \* EnrollRepo in progress

diskVars == <<dirs, at>>
scopeVars == <<bindings, global, call>>
vars == <<fileVars, diskVars, scopeVars>>

NoMarker == 0
Unfilled == -1   \* the marker file is there and has nothing in it yet

NoCall == [step |-> "none", path |-> "", ino |-> 0, marker |-> NoMarker,
           file |-> 0,  \* the directory whose marker file it has open
           dir |-> 0]   \* history: the directory it is about, 0 if that was replaced

Calls == {"none", "marker", "begin", "create", "fill", "reread", "evidence",
          "identity", "bind"}

(* Each part of the state has its shape, and who is in a transaction has    *)
(* the writer slot of the hub it has open.                                  *)
TypeOK ==
  /\ FileTypeOK
  /\ Len(dirs) <= MaxDirs
  /\ \A d \in DOMAIN dirs : dirs[d] \in [ino : Inos, repo : Nat, marker : Nat \cup {Unfilled}]
  /\ at \in [Paths -> 0 .. Len(dirs)]
  /\ \A h \in Homes : bindings[h] \subseteq
       [path : Paths, marker : Nat \ {0}, ino : Inos, release : Releases,
        dir : 0 .. Len(dirs)]
  /\ global \in [Homes -> Releases \cup {0}]
  /\ \A p \in Processes : call[p].step \in Calls
  /\ \A h \in Homes, p \in Processes :
       writer[h] = p <=> Home(p) = h /\ call[p].step \notin {"none", "marker", "begin"}

Init ==
  /\ FileInit
  /\ dirs = <<>>
  /\ at = [q \in Paths |-> 0]
  /\ bindings = [h \in Homes |-> {}]
  /\ global = [h \in Homes |-> 0]
  /\ call = [p \in Processes |-> NoCall]

-----------------------------------------------------------------------------
(* Repositories, in other hands. *)

Standing == {at[q] : q \in Paths} \ {0}
MarkerAt(q) == IF at[q] = 0 THEN NoMarker ELSE dirs[at[q]].marker

(* Calls about a path where something changes are no longer about one directory. *)
Disturbed(Q) ==
  call' = [p \in Processes |->
             IF call[p].path \in Q THEN [call[p] EXCEPT !.dir = 0] ELSE call[p]]

MakeDir(q, repo, marker) ==
  /\ at[q] = 0 /\ Len(dirs) < MaxDirs
  /\ \E i \in Inos \ {dirs[d].ino : d \in Standing} :
       dirs' = Append(dirs, [ino |-> i, repo |-> repo, marker |-> marker])
  /\ at' = [at EXCEPT ![q] = Len(dirs) + 1]
  /\ Disturbed({q})

(* git init or git clone: no marker comes with it. *)
NewRepo(q) == MakeDir(q, Len(dirs) + 1, NoMarker)

(* cp -r: the marker comes with it. *)
CopyRepo(from, q) ==
  at[from] # 0 /\ MakeDir(q, dirs[at[from]].repo, dirs[at[from]].marker)

RenameRepo(from, q) ==
  /\ at[from] # 0 /\ at[q] = 0
  /\ at' = [at EXCEPT ![q] = at[from], ![from] = 0]
  /\ Disturbed({from, q})
  /\ UNCHANGED dirs

RemoveRepo(q) ==
  /\ at[q] # 0
  /\ at' = [at EXCEPT ![q] = 0]
  /\ Disturbed({q})
  /\ UNCHANGED dirs

UserStep ==
  /\ \E q \in Paths :
       \/ NewRepo(q)
       \/ RemoveRepo(q)
       \/ \E from \in Paths : CopyRepo(from, q) \/ RenameRepo(from, q)
  /\ UNCHANGED <<fileVars, bindings, global>>

-----------------------------------------------------------------------------
(* Enrolling. *)

In(p, step) == call[p].step = step
GoesTo(p, step) == call' = [call EXCEPT ![p].step = step]
Path(p) == call[p].path
Bindings(p) == bindings[Home(p)]

(* Fault: the transaction is left open. *)
Refused_KeepsSlot(p) ==
  /\ call' = [call EXCEPT ![p] = NoCall]
  /\ UNCHANGED <<fileVars, diskVars, bindings, global>>

(* The call returns, and its transaction, if it has one, is rolled back. *)
Refused(p) ==
  /\ call' = [call EXCEPT ![p] = NoCall]
  /\ writer' = [h \in Homes |-> IF writer[h] = p THEN Nobody ELSE writer[h]]
  /\ UNCHANGED <<hub, actors, handle, drawn, diskVars, bindings, global>>

InCall == UNCHANGED <<fileVars, diskVars, bindings, global>>

(* resolveGit takes the directory's identity ... *)
Resolve(p, q) ==
  /\ At(p, "open") /\ ~handle[p].readOnly /\ In(p, "none")
  /\ at[q] # 0
  /\ call' = [call EXCEPT ![p] =
                [NoCall EXCEPT !.step = "marker", !.path = q,
                               !.ino = dirs[at[q]].ino, !.dir = at[q]]]
  /\ InCall

(* ... and then its marker, which may be missing but not malformed. *)
ReadMarker(p) ==
  /\ In(p, "marker")
  /\ IF MarkerAt(Path(p)) = Unfilled THEN Refused(p)
     ELSE /\ call' = [call EXCEPT ![p] = [@ EXCEPT !.step = "begin",
                                                     !.marker = MarkerAt(Path(p))]]
          /\ InCall

(* The transaction begins.  A path that is bound is answered or refused as  *)
(* by a lookup; a first enrolment that lost a race is refused, because it   *)
(* came with no marker.                                                     *)
Begin(p) ==
  /\ In(p, "begin")
  /\ writer[Home(p)] = Nobody
  /\ IF Admitted(p) /\ \A b \in Bindings(p) : b.path # Path(p)
     THEN /\ writer' = [writer EXCEPT ![Home(p)] = p]
          /\ GoesTo(p, IF call[p].marker = NoMarker THEN "create" ELSE "evidence")
          /\ UNCHANGED <<hub, actors, handle, drawn, diskVars, bindings, global>>
     ELSE Refused(p)

(* Fault: a marker that is there is made anew. *)
CreateMarker_Overwrites(p) ==
  /\ In(p, "create")
  /\ IF at[Path(p)] = 0 THEN Refused(p)
     ELSE /\ dirs' = [dirs EXCEPT ![at[Path(p)]].marker = Unfilled]
          /\ call' = [call EXCEPT ![p] = [@ EXCEPT !.step = "fill", !.file = at[Path(p)]]]
          /\ UNCHANGED <<fileVars, at, bindings, global>>

(* createRepoMarker: O_EXCL, because another home may be ahead ... *)
CreateMarker(p) ==
  /\ In(p, "create")
  /\ IF at[Path(p)] = 0 THEN Refused(p)
     ELSE IF MarkerAt(Path(p)) # NoMarker THEN GoesTo(p, "reread") /\ InCall
     ELSE /\ dirs' = [dirs EXCEPT ![at[Path(p)]].marker = Unfilled]
          /\ call' = [call EXCEPT ![p] = [@ EXCEPT !.step = "fill", !.file = at[Path(p)]]]
          /\ UNCHANGED <<fileVars, at, bindings, global>>

(* ... and filled once it is there, wherever it has been moved to. *)
FillMarker(p) ==
  /\ In(p, "fill")
  /\ \E id \in 1 .. MaxIds :
       /\ Draws(id)
       /\ dirs' = [dirs EXCEPT ![call[p].file].marker = id]
  /\ GoesTo(p, "reread")
  /\ UNCHANGED <<hub, writer, actors, handle, at, bindings, global>>

(* readRepoMarker: what counts is what the file says. *)
RereadMarker(p) ==
  /\ In(p, "reread")
  /\ IF MarkerAt(Path(p)) \in {NoMarker, Unfilled} THEN Refused(p)
     ELSE /\ call' = [call EXCEPT ![p] = [@ EXCEPT !.step = "evidence",
                                                     !.marker = MarkerAt(Path(p))]]
          /\ InCall

(* checkEvidence looks at the marker and then at the identity again. *)
CheckMarker(p) ==
  /\ In(p, "evidence")
  /\ IF MarkerAt(Path(p)) = call[p].marker THEN GoesTo(p, "identity") /\ InCall
     ELSE Refused(p)

CheckIdentity(p) ==
  /\ In(p, "identity")
  /\ IF at[Path(p)] # 0 /\ dirs[at[Path(p)]].ino = call[p].ino
     THEN GoesTo(p, "bind") /\ InCall
     ELSE Refused(p)

(* Fault: the same evidence at another path is not looked for. *)
Moved_NotLookedFor(p) == FALSE

(* The repository is bound at another path of this home. *)
Moved(p) ==
  \E b \in Bindings(p) : b.marker = call[p].marker /\ b.ino = call[p].ino

Bind(p) ==
  /\ In(p, "bind")
  /\ IF Moved(p) THEN Refused(p)
     ELSE /\ bindings' = [bindings EXCEPT ![Home(p)] = @ \cup
                {[path |-> Path(p), marker |-> call[p].marker, ino |-> call[p].ino,
                  release |-> handle[p].release, dir |-> call[p].dir]}]
          /\ writer' = [writer EXCEPT ![Home(p)] = Nobody]
          /\ call' = [call EXCEPT ![p] = NoCall]
          /\ UNCHANGED <<hub, actors, handle, drawn, diskVars, global>>

(* EnrollRepo of "global:", one transaction. *)
EnrollGlobal(p) ==
  /\ In(p, "none") /\ Admitted(p) /\ writer[Home(p)] = Nobody
  /\ global[Home(p)] = 0
  /\ global' = [global EXCEPT ![Home(p)] = handle[p].release]
  /\ UNCHANGED <<fileVars, diskVars, bindings, call>>

(* A command fails or dies anywhere in a call, too. *)
Ends(p) ==
  /\ CloseHub(p)
  /\ call' = [call EXCEPT ![p] = NoCall]
  /\ UNCHANGED <<diskVars, bindings, global>>

FileStep(p) ==
  /\ \/ Opening(p)
     \/ In(p, "none") /\ \E a \in ActorIds : EnrollActor(p, a)
  /\ UNCHANGED <<diskVars, scopeVars>>

Enrolling(p) ==
  \/ \E q \in Paths : Resolve(p, q)
  \/ ReadMarker(p)
  \/ Begin(p)
  \/ CreateMarker(p)
  \/ FillMarker(p)
  \/ RereadMarker(p)
  \/ CheckMarker(p)
  \/ CheckIdentity(p)
  \/ Bind(p)
  \/ EnrollGlobal(p)

Next == UserStep \/ \E p \in Processes : FileStep(p) \/ Enrolling(p) \/ Ends(p)

Spec == Init /\ [][Next]_vars

-----------------------------------------------------------------------------
(* Properties. *)

(* LookupRepo: the scope of the repository at a path, if that is what was    *)
(* enrolled.                                                                 *)
Answers(h, q) ==
  {b \in bindings[h] : at[q] # 0 /\ b.path = q
                       /\ b.ino = dirs[at[q]].ino /\ b.marker = dirs[at[q]].marker}

(* An enrolled repository that is where it was enrolled is found, whatever   *)
(* commands of other homes do to its marker; and what is found is it, or a   *)
(* copy that has taken its place and identity, never another repository.     *)
(* (A call during which the directory was exchanged can bind what no         *)
(* directory has; nothing is said of its binding.)                           *)
LookupsStand ==
  \A h \in Homes : \A b \in bindings[h] : b.dir # 0 =>
     /\ at[b.path] = b.dir => b \in Answers(h, b.path)
     /\ b \in Answers(h, b.path) => dirs[at[b.path]].repo = dirs[b.dir].repo

(* "An unchanged file identity at a different, now missing path signals a    *)
(* move" (scope.go:230): a repository never gets a second scope in one home, *)
(* so its topics are not split by renaming it.                               *)
OneScopePerRepository ==
  \A h \in Homes : \A b, c \in bindings[h] : b.dir # 0 /\ b.dir = c.dir => b = c

(* Whatever other releases migrate meanwhile, each row is written by a       *)
(* program whose release is the file's version at that moment.               *)
RowsFitFormat ==
  [][\A h \in Homes :
       LET Fits(release) == release = hub[h].version
       IN  /\ \A a \in ActorIds : actors'[h][a] # actors[h][a] => Fits(actors'[h][a])
           /\ \A b \in bindings'[h] \ bindings[h] : Fits(b.release)
           /\ global'[h] # global[h] => Fits(global'[h])]_vars
=============================================================================
