--------------------------- MODULE HubScopesProofs ---------------------------
(***************************************************************************)
(* Proofs about the hub file and the scopes enrolled in it, for any number *)
(* of processes, homes, releases, paths and directories.                   *)
(***************************************************************************)
EXTENDS HubScopes, TLAPS

-----------------------------------------------------------------------------
(* The inductive invariant. *)

Transaction == Calls \ {"none", "marker", "begin"}

Dir == [ino : Inos, repo : Nat, marker : Nat \cup {Unfilled}]
Binding == [path : Paths, marker : Nat \ {0}, ino : Inos, release : Releases,
            dir : 0 .. Len(dirs)]
Call == [step : Calls, path : Paths \cup {""}, ino : Inos \cup {0},
         marker : Nat \cup {Unfilled}, file : 0 .. Len(dirs), dir : 0 .. Len(dirs)]

DiskTyped ==
  /\ dirs \in Seq(Dir) /\ Len(dirs) <= MaxDirs
  /\ at \in [Paths -> 0 .. Len(dirs)]

ScopesTyped ==
  /\ bindings \in [Homes -> SUBSET Binding]
  /\ global \in [Homes -> Releases \cup {0}]
  /\ call \in [Processes -> Call]

(* A file has an authority exactly from its first transaction on. *)
FilesMade ==
  \A h \in Homes : /\ hub[h].id # 0 => hub[h].version # 0
                   /\ hub[h].version # 0 => hub[h].there

(* A slot that runs a command has opened a home, where it finds or makes a  *)
(* file, and only an open one calls.                                       *)
HandlesOpen ==
  \A p \in Processes :
    /\ ~At(p, "closed") => Home(p) \in Homes /\ handle[p].release \in Releases
    /\ ~At(p, "closed") /\ ~At(p, "create") => hub[Home(p)].there
    /\ ~In(p, "none") => At(p, "open") /\ Path(p) \in Paths /\ call[p].ino \in Inos

(* Who has the writer slot has checked the file's version, and the slot     *)
(* keeps the version from changing.                                         *)
SlotsHeld ==
  \A h \in Homes, p \in Processes :
    /\ writer[h] = p <=> Home(p) = h /\ call[p].step \in Transaction
    /\ writer[h] = p => hub[h].version = handle[p].release

(* A marker that is being filled is one nobody else fills. *)
FillersApart ==
  \A p \in Processes : In(p, "fill") =>
    /\ call[p].file # 0 /\ dirs[call[p].file].marker = Unfilled
    /\ \A o \in Processes : In(o, "fill") /\ call[o].file = call[p].file => o = p

(* What a call knows of the directory it is about. *)
KnowsRight(c) ==
  /\ c.step = "begin" => c.marker # Unfilled
  /\ c.step \in {"evidence", "identity", "bind"} => c.marker \in Nat \ {0}
  /\ c.dir # 0 => c.path \in Paths /\ at[c.path] = c.dir /\ dirs[c.dir].ino = c.ino
  /\ c.dir # 0 /\ c.step \in {"identity", "bind"} => dirs[c.dir].marker = c.marker

EvidenceHolds == \A p \in Processes : KnowsRight(call[p])

(* A filled marker was drawn once; who has the same is a copy. *)
MarkersIdentify ==
  /\ \A d \in DOMAIN dirs : dirs[d].marker <= drawn
  /\ \A d, e \in DOMAIN dirs :
       dirs[d].marker = dirs[e].marker /\ dirs[d].marker > 0 => dirs[d].repo = dirs[e].repo

(* The evidence of a binding stays the evidence of its directory. *)
BindingsHold ==
  \A h \in Homes : \A b \in bindings[h] : b.dir # 0 =>
    dirs[b.dir].ino = b.ino /\ dirs[b.dir].marker = b.marker

IInv ==
  /\ FileTypeOK /\ DiskTyped /\ ScopesTyped
  /\ FilesMade /\ HandlesOpen /\ SlotsHeld
  /\ FillersApart /\ EvidenceHolds /\ MarkersIdentify /\ BindingsHold
  /\ OneScopePerRepository

-----------------------------------------------------------------------------
(* Initial states, and steps of the file. *)

LEMMA InitInv == Init => IInv
<1> SUFFICES ASSUME Init  PROVE IInv
  OBVIOUS
<1> USE DEF Init, FileInit
<1>1. FileTypeOK
  BY FileAssumption DEF FileTypeOK, NoFile, Closed
<1>2. DiskTyped
  BY ScopesAssumption DEF DiskTyped
<1>3. ScopesTyped
  <2>1. NoCall \in Call
    <3>1. 0 \in 0 .. Len(dirs)
      OBVIOUS
    <3>2. QED
      BY ONLY <3>1 DEF Call, NoCall, NoMarker, Calls
  <2>2. QED
    BY <2>1 DEF ScopesTyped
<1>4. FilesMade
  BY DEF FilesMade, NoFile
<1>5. HandlesOpen
  BY DEF HandlesOpen, At, In, Closed, NoCall
<1>6. SlotsHeld
  BY FileAssumption DEF SlotsHeld, NoCall, Transaction
<1>7. FillersApart /\ EvidenceHolds
  BY DEF FillersApart, EvidenceHolds, KnowsRight, In, NoCall
<1>8. MarkersIdentify /\ BindingsHold /\ OneScopePerRepository
  BY DEF MarkersIdentify, BindingsHold, OneScopePerRepository
<1>9. QED
  BY <1>1, <1>2, <1>3, <1>4, <1>5, <1>6, <1>7, <1>8 DEF IInv

Steps == {"closed", "create", "initialize", "wait", "migrate", "probe", "open"}
Handle == [step : Steps, home : Homes \cup {Nowhere}, release : Releases \cup {0},
           readOnly : BOOLEAN, id : Nat]

LEMMA HandleMoves ==
  ASSUME FileTypeOK, HandlesOpen,
         NEW p \in Processes, NEW s \in Steps \ {"closed"}, NEW i \in Nat,
         ~At(p, "closed"), In(p, "none"), UNCHANGED call,
         handle' = [handle EXCEPT ![p] = [@ EXCEPT !.step = s, !.id = i]],
         hub'[Home(p)].there,
         \A h \in Homes : hub[h].there => hub'[h].there
  PROVE  /\ handle' \in [Processes -> Handle]
         /\ HandlesOpen'
         /\ \A o \in Processes : Home(o)' = Home(o) /\ handle'[o].release = handle[o].release
<1>1. handle \in [Processes -> Handle]
  BY DEF FileTypeOK, Handle, Steps
<1> DEFINE moved == [handle[p] EXCEPT !.step = s, !.id = i]
<1>2. moved \in Handle /\ moved.home = handle[p].home /\ moved.release = handle[p].release
  BY <1>1 DEF Handle
<1>3. handle' = [handle EXCEPT ![p] = moved]
  OBVIOUS
<1> HIDE DEF moved
<1>4. handle' \in [Processes -> Handle]
  BY <1>1, <1>2, <1>3
<1>5. \A o \in Processes : /\ Home(o)' = Home(o)
                           /\ handle'[o].release = handle[o].release
                           /\ o # p => handle'[o] = handle[o]
  BY <1>1, <1>2, <1>3 DEF Home
<1>6. HandlesOpen'
  <2> SUFFICES ASSUME NEW o \in Processes
               PROVE  /\ ~At(o, "closed")' => Home(o)' \in Homes /\ handle'[o].release \in Releases
                      /\ ~At(o, "closed")' /\ ~At(o, "create")' => hub'[Home(o)'].there
                      /\ ~In(o, "none")' => /\ At(o, "open")'
                                            /\ Path(o)' \in Paths /\ call'[o].ino \in Inos
    BY DEF HandlesOpen
  <2>1. CASE o = p
    BY <2>1, <1>5 DEF HandlesOpen, In
  <2>2. CASE o # p
    BY <2>2, <1>5 DEF HandlesOpen, In, At, Path, Home
  <2>3. QED
    BY <2>1, <2>2
<1>7. QED
  BY <1>4, <1>5, <1>6

LEMMA GoesMoves ==
  ASSUME FileTypeOK, NEW p \in Processes, NEW s, Goes(p, s)
  PROVE  /\ handle[p].id \in Nat
         /\ handle' = [handle EXCEPT ![p] = [@ EXCEPT !.step = s, !.id = handle[p].id]]
<1>1. handle \in [Processes -> Handle]
  BY DEF FileTypeOK, Handle, Steps
<1>2. [handle[p] EXCEPT !.step = s] = [handle[p] EXCEPT !.step = s, !.id = handle[p].id]
  BY <1>1 DEF Handle
<1>3. QED
  BY <1>1, <1>2 DEF Goes, Handle

(* What is said of directories and scopes survives where they stand still, *)
(* even when an id is drawn.                                               *)
LEMMA ScopesStill ==
  ASSUME IInv, UNCHANGED <<diskVars, scopeVars>>, drawn' \in Nat, drawn <= drawn'
  PROVE  /\ DiskTyped' /\ ScopesTyped' /\ FillersApart' /\ EvidenceHolds'
         /\ MarkersIdentify' /\ BindingsHold' /\ OneScopePerRepository'
<1> USE DEF diskVars, scopeVars
<1>1. DiskTyped' /\ ScopesTyped'
  BY DEF IInv, DiskTyped, ScopesTyped, Call, Binding
<1>2. FillersApart' /\ EvidenceHolds'
  BY DEF IInv, FillersApart, EvidenceHolds, KnowsRight, In, Path
<1>3. MarkersIdentify'
  <2>1. \A d \in DOMAIN dirs : dirs[d].marker \in Int
    <3>1. \A d \in DOMAIN dirs : dirs[d] \in Dir
      BY DEF IInv, DiskTyped
    <3>2. QED
      BY <3>1 DEF Dir, Unfilled
  <2>2. drawn \in Int
    BY FileAssumption DEF IInv, FileTypeOK
  <2>3. QED
    BY <2>1, <2>2 DEF IInv, MarkersIdentify
<1>4. BindingsHold' /\ OneScopePerRepository'
  BY DEF IInv, BindingsHold, OneScopePerRepository
<1>5. QED
  BY <1>1, <1>2, <1>3, <1>4

(* A step of opening that leaves alone what the owner of a slot has checked. *)
LEMMA FileMoves ==
  ASSUME IInv, NEW p \in Processes, NEW s \in Steps \ {"closed"}, NEW i \in Nat,
         ~At(p, "closed"), In(p, "none"),
         handle' = [handle EXCEPT ![p] = [@ EXCEPT !.step = s, !.id = i]],
         UNCHANGED <<writer, actors, diskVars, scopeVars>>,
         drawn' \in 0 .. MaxIds, drawn <= drawn',
         hub' \in [Homes -> [there : BOOLEAN, version : Nat, id : Nat]],
         FilesMade',
         hub'[Home(p)].there,
         \A h \in Homes : hub[h].there => hub'[h].there,
         \A h \in Homes : writer[h] # Nobody => hub'[h].version = hub[h].version
  PROVE  IInv'
<1>1. /\ handle' \in [Processes -> Handle]
      /\ HandlesOpen'
      /\ \A o \in Processes : Home(o)' = Home(o) /\ handle'[o].release = handle[o].release
  BY HandleMoves DEF IInv, scopeVars
<1>2. FileTypeOK'
  BY <1>1 DEF FileTypeOK, Handle, Steps, IInv
<1>3. SlotsHeld'
  BY <1>1, FileAssumption DEF SlotsHeld, IInv, scopeVars
<1>4. drawn' \in Nat
  BY FileAssumption
<1>5. QED
  BY <1>1, <1>2, <1>3, <1>4, ScopesStill DEF IInv

LEMMA OpenInv ==
  ASSUME IInv, NEW p \in Processes, NEW h \in Homes, NEW r \in Releases,
         NEW ro \in BOOLEAN, OpenHub(p, h, r, ro), UNCHANGED <<diskVars, scopeVars>>
  PROVE  IInv'
<1> USE DEF OpenHub, At, diskVars, scopeVars, IInv
<1>1. FileTypeOK' /\ drawn' \in Nat /\ drawn <= drawn'
  BY FileAssumption DEF FileTypeOK
<1>2. FilesMade'
  BY DEF FilesMade
<1>3. HandlesOpen'
  BY DEF HandlesOpen, In, Path, Home, FileTypeOK
<1>4. SlotsHeld'
  BY DEF SlotsHeld, Home, FileTypeOK, HandlesOpen, In, Transaction
<1>5. QED
  BY <1>1, <1>2, <1>3, <1>4, ScopesStill

LEMMA CreateFileInv ==
  ASSUME IInv, NEW p \in Processes, CreateFile(p), UNCHANGED <<diskVars, scopeVars>>
  PROVE  IInv'
<1>1. ~At(p, "closed") /\ In(p, "none") /\ Home(p) \in Homes
  BY DEF IInv, HandlesOpen, CreateFile, At
<1>2. CASE File(p).there
  <2>1. Goes(p, "wait") /\ UNCHANGED hub
    BY <1>2 DEF CreateFile
  <2>2. handle[p].id \in Nat /\ handle' = [handle EXCEPT ![p] = [@ EXCEPT !.step = "wait", !.id = handle[p].id]]
    BY <2>1, GoesMoves DEF IInv
  <2>3. drawn' = drawn /\ UNCHANGED <<writer, actors, diskVars, scopeVars>>
    BY DEF CreateFile
  <2>4. drawn' \in 0 .. MaxIds /\ drawn <= drawn'
    BY <2>3, FileAssumption DEF IInv, FileTypeOK
  <2>5. FilesMade' /\ hub' \in [Homes -> [there : BOOLEAN, version : Nat, id : Nat]]
    BY <2>1 DEF IInv, FileTypeOK, FilesMade
  <2>0. hub'[Home(p)].there /\ \A h \in Homes : hub[h].there => hub'[h].there
    BY <2>1, <1>2 DEF File
  <2>6. "wait" \in Steps \ {"closed"}
    BY DEF Steps
  <2>7. QED
    BY <1>1, <2>1, <2>2, <2>3, <2>4, <2>5, <2>6, <2>0, FileMoves
<1>3. CASE ~File(p).there
  <2>1. Goes(p, "initialize") /\ hub' = [hub EXCEPT ![Home(p)] = EmptyFile]
    BY <1>3 DEF CreateFile
  <2>2. /\ EmptyFile \in [there : BOOLEAN, version : Nat, id : Nat]
        /\ EmptyFile.there /\ EmptyFile.id = 0 /\ EmptyFile.version = 0
    BY DEF EmptyFile, NoFile
  <2>3. hub' \in [Homes -> [there : BOOLEAN, version : Nat, id : Nat]]
    BY <2>1, <2>2 DEF IInv, FileTypeOK
  <2>4. FilesMade'
    BY <2>1, <2>2 DEF IInv, FilesMade, FileTypeOK
  <2>5. hub'[Home(p)].version = hub[Home(p)].version
    BY <1>1, <1>3, <2>1, <2>2 DEF IInv, FilesMade, FileTypeOK, File
  <2>6. \A h \in Homes : hub'[h].version = hub[h].version
    BY <2>1, <2>5 DEF IInv, FileTypeOK
  <2>7. handle[p].id \in Nat
        /\ handle' = [handle EXCEPT ![p] =
                         [@ EXCEPT !.step = "initialize", !.id = handle[p].id]]
    BY <2>1, GoesMoves DEF IInv
  <2>8. drawn' = drawn /\ UNCHANGED <<writer, actors, diskVars, scopeVars>>
    BY DEF CreateFile
  <2>9. drawn' \in 0 .. MaxIds /\ drawn <= drawn'
    BY <2>8, FileAssumption DEF IInv, FileTypeOK
  <2>10. "initialize" \in Steps \ {"closed"}
    BY DEF Steps
  <2>11. hub'[Home(p)].there /\ \A h \in Homes : hub[h].there => hub'[h].there
    BY <1>1, <2>1, <2>2 DEF IInv, FileTypeOK
  <2>12. QED
    BY <1>1, <2>3, <2>4, <2>6, <2>7, <2>8, <2>9, <2>10, <2>11, FileMoves
<1>4. QED
  BY <1>2, <1>3

LEMMA InitializeInv ==
  ASSUME IInv, NEW p \in Processes, Initialize(p), UNCHANGED <<diskVars, scopeVars>>
  PROVE  IInv'
<1>1. ~At(p, "closed") /\ In(p, "none") /\ Home(p) \in Homes /\ hub[Home(p)].there
  BY DEF IInv, HandlesOpen, Initialize, At
<1>2. PICK id \in 1 .. MaxIds :
        /\ Draws(id)
        /\ hub' = [hub EXCEPT ![Home(p)] = [@ EXCEPT !.version = 1, !.id = id]]
        /\ handle' = [handle EXCEPT ![p] = [@ EXCEPT !.step = "migrate", !.id = id]]
  BY DEF Initialize
<1>3. id \in Nat /\ drawn' \in 0 .. MaxIds /\ drawn <= drawn'
  BY <1>2, FileAssumption DEF Draws, IInv, FileTypeOK
<1> DEFINE made == [hub[Home(p)] EXCEPT !.version = 1, !.id = id]
<1>4. /\ hub \in [Homes -> [there : BOOLEAN, version : Nat, id : Nat]]
      /\ made \in [there : BOOLEAN, version : Nat, id : Nat]
      /\ made.there /\ made.version = 1
  BY <1>1, <1>3 DEF IInv, FileTypeOK
<1>5. hub' = [hub EXCEPT ![Home(p)] = made]
  BY <1>2
<1> HIDE DEF made
<1>6. /\ hub' \in [Homes -> [there : BOOLEAN, version : Nat, id : Nat]]
      /\ \A h \in Homes : hub[h].there => hub'[h].there
  BY <1>1, <1>4, <1>5
<1>7. FilesMade'
  BY <1>4, <1>5 DEF IInv, FilesMade
<1>8. \A h \in Homes : writer[h] # Nobody => hub'[h].version = hub[h].version
  BY <1>4, <1>5 DEF Initialize
<1>9. UNCHANGED <<writer, actors, diskVars, scopeVars>> /\ "migrate" \in Steps \ {"closed"}
  BY DEF Initialize, Steps
<1>10. QED
  BY <1>1, <1>2, <1>3, <1>6, <1>7, <1>8, <1>9, FileMoves

(* A step of opening that only looks at the file. *)
LEMMA LookMoves ==
  ASSUME IInv, NEW p \in Processes, NEW s \in Steps \ {"closed"}, NEW i \in Nat,
         ~At(p, "closed"), ~At(p, "create"), In(p, "none"),
         handle' = [handle EXCEPT ![p] = [@ EXCEPT !.step = s, !.id = i]],
         UNCHANGED <<hub, writer, actors, drawn, diskVars, scopeVars>>
  PROVE  IInv'
<1>1. drawn' \in 0 .. MaxIds /\ drawn <= drawn'
  BY FileAssumption DEF IInv, FileTypeOK
<1>2. /\ hub' \in [Homes -> [there : BOOLEAN, version : Nat, id : Nat]]
      /\ FilesMade' /\ hub'[Home(p)].there
      /\ \A h \in Homes : hub[h].there => hub'[h].there
      /\ \A h \in Homes : hub'[h].version = hub[h].version
  BY DEF IInv, FileTypeOK, FilesMade, HandlesOpen
<1>3. QED
  BY <1>1, <1>2, FileMoves

LEMMA ProbeReadyInv ==
  ASSUME IInv, NEW p \in Processes, ProbeReady(p), UNCHANGED <<diskVars, scopeVars>>
  PROVE  IInv'
<1>1. ~At(p, "closed") /\ ~At(p, "create") /\ In(p, "none") /\ Home(p) \in Homes
  BY DEF IInv, HandlesOpen, ProbeReady, At
<1>2. PICK s \in {"probe", "migrate"} :
        handle' = [handle EXCEPT ![p] = [@ EXCEPT !.id = File(p).id, !.step = s]]
  BY DEF ProbeReady
<1>3. handle \in [Processes -> Handle] /\ File(p).id \in Nat
  BY <1>1 DEF IInv, FileTypeOK, Handle, Steps, File
<1>4. [handle[p] EXCEPT !.id = File(p).id, !.step = s]
        = [handle[p] EXCEPT !.step = s, !.id = File(p).id]
  BY <1>3 DEF Handle
<1>5. handle' = [handle EXCEPT ![p] = [@ EXCEPT !.step = s, !.id = File(p).id]]
  BY <1>2, <1>4
<1>6. s \in Steps \ {"closed"}
  BY DEF Steps
<1>7. UNCHANGED <<hub, writer, actors, drawn, diskVars, scopeVars>>
  BY DEF ProbeReady
<1>8. QED
  BY <1>1, <1>3, <1>5, <1>6, <1>7, LookMoves

LEMMA MigrateInv ==
  ASSUME IInv, NEW p \in Processes, Migrate(p), UNCHANGED <<diskVars, scopeVars>>
  PROVE  IInv'
<1>1. /\ ~At(p, "closed") /\ ~At(p, "create") /\ In(p, "none") /\ Home(p) \in Homes
      /\ handle[p].release \in Nat
  BY FileAssumption DEF IInv, HandlesOpen, Migrate, At
<1>2. handle[p].id \in Nat
      /\ handle' = [handle EXCEPT ![p] = [@ EXCEPT !.step = "probe", !.id = handle[p].id]]
  BY GoesMoves DEF Migrate, IInv
<1>3. "probe" \in Steps \ {"closed"}
  BY DEF Steps
<1>4. UNCHANGED <<writer, actors, drawn, diskVars, scopeVars>>
  BY DEF Migrate
<1>5. CASE UNCHANGED hub
  BY <1>1, <1>2, <1>3, <1>4, <1>5, LookMoves
<1>6. CASE /\ File(p).version < handle[p].release
           /\ writer[Home(p)] = Nobody
           /\ hub' = [hub EXCEPT ![Home(p)].version = handle[p].release]
  <2>1. hub \in [Homes -> [there : BOOLEAN, version : Nat, id : Nat]]
    BY DEF IInv, FileTypeOK
  <2>2. hub[Home(p)].version \in Nat /\ hub[Home(p)].version < handle[p].release
    BY <1>1, <1>6, <2>1 DEF File
  <2>3. /\ hub' \in [Homes -> [there : BOOLEAN, version : Nat, id : Nat]]
        /\ \A h \in Homes : hub[h].there <=> hub'[h].there
        /\ \A h \in Homes : h # Home(p) => hub'[h] = hub[h]
    BY <1>1, <1>6, <2>1
  <2>4. hub'[Home(p)].there
    BY <1>1, <2>3 DEF IInv, HandlesOpen
  <2>5. FilesMade'
    <3>1. hub'[Home(p)].version # 0
      BY <1>1, <1>6, <2>1, <2>2
    <3>2. QED
      BY <2>3, <2>4, <3>1 DEF IInv, FilesMade
  <2>6. drawn' \in 0 .. MaxIds /\ drawn <= drawn'
    BY <1>4, FileAssumption DEF IInv, FileTypeOK
  <2>7. \A h \in Homes : writer[h] # Nobody => hub'[h].version = hub[h].version
    BY <1>6, <2>3
  <2>8. QED
    BY <1>1, <1>2, <1>3, <1>4, <2>3, <2>4, <2>5, <2>6, <2>7, FileMoves
<1>7. QED
  BY <1>5, <1>6 DEF Migrate

LEMMA ProbeInv ==
  ASSUME IInv, NEW p \in Processes, Probe(p), UNCHANGED <<diskVars, scopeVars>>
  PROVE  IInv'
<1>1. ~At(p, "closed") /\ ~At(p, "create") /\ In(p, "none") /\ Home(p) \in Homes
  BY DEF IInv, HandlesOpen, Probe, At
<1>2. handle' = [handle EXCEPT ![p] = [@ EXCEPT !.step = "open", !.id = File(p).id]]
  BY DEF Probe
<1>3. File(p).id \in Nat
  BY <1>1 DEF IInv, FileTypeOK, File
<1>4. "open" \in Steps \ {"closed"}
  BY DEF Steps
<1>5. UNCHANGED <<hub, writer, actors, drawn, diskVars, scopeVars>>
  BY DEF Probe
<1>6. QED
  BY <1>1, <1>2, <1>3, <1>4, <1>5, LookMoves

LEMMA EnrollActorInv ==
  ASSUME IInv, NEW p \in Processes, NEW a \in ActorIds, EnrollActor(p, a),
         UNCHANGED <<diskVars, scopeVars>>
  PROVE  IInv'
<1>1. ~At(p, "closed")
  BY DEF EnrollActor, Admitted, At
<1>2. Home(p) \in Homes /\ handle[p].release \in Releases
  BY <1>1 DEF IInv, HandlesOpen
<1>3. FileTypeOK' /\ drawn' \in Nat /\ drawn <= drawn'
  BY <1>2, FileAssumption DEF EnrollActor, IInv, FileTypeOK
<1>4. FilesMade'
  BY DEF EnrollActor, IInv, FilesMade
<1>5. HandlesOpen'
  BY DEF EnrollActor, IInv, HandlesOpen, At, In, Home, Path, scopeVars
<1>6. SlotsHeld'
  BY DEF EnrollActor, IInv, SlotsHeld, Home, scopeVars
<1>7. QED
  BY <1>3, <1>4, <1>5, <1>6, ScopesStill DEF IInv

LEMMA FileStepInv ==
  ASSUME IInv, NEW p \in Processes, FileStep(p)
  PROVE  IInv'
BY OpenInv, CreateFileInv, InitializeInv, ProbeReadyInv, MigrateInv, ProbeInv,
   EnrollActorInv DEF FileStep, Opening

-----------------------------------------------------------------------------
(* Steps of people. *)

LEMMA DirsTyped ==
  ASSUME DiskTyped
  PROVE  /\ Len(dirs) \in Nat /\ DOMAIN dirs = 1 .. Len(dirs)
         /\ \A d \in 1 .. Len(dirs) : /\ dirs[d] \in Dir
                                      /\ dirs[d].ino \in Inos /\ dirs[d].repo \in Nat
                                      /\ dirs[d].marker \in Int
<1>1. Len(dirs) \in Nat /\ DOMAIN dirs = 1 .. Len(dirs)
      /\ \A d \in 1 .. Len(dirs) : dirs[d] \in Dir
  BY DEF DiskTyped
<1>2. QED
  BY <1>1 DEF Dir, Unfilled

LEMMA CallFields ==
  ASSUME ScopesTyped, DiskTyped, NEW p \in Processes
  PROVE  /\ call[p] \in Call
         /\ call[p].file \in Nat /\ call[p].file <= Len(dirs)
         /\ call[p].dir \in Nat /\ call[p].dir <= Len(dirs)
<1>1. call[p] \in Call
  BY DEF ScopesTyped
<1>2. call[p].file \in 0 .. Len(dirs) /\ call[p].dir \in 0 .. Len(dirs)
  BY <1>1 DEF Call
<1>3. QED
  BY <1>1, <1>2, DirsTyped

(* More directories make no call or binding ill-typed. *)
LEMMA TypesGrow ==
  ASSUME DiskTyped, DiskTyped', Len(dirs) <= Len(dirs)'
  PROVE  Call \subseteq Call' /\ Binding \subseteq Binding'
<1>1. 0 .. Len(dirs) \subseteq 0 .. Len(dirs)'
  <2>1. Len(dirs) \in Nat /\ Len(dirs)' \in Nat
    BY DEF DiskTyped
  <2>2. QED
    BY <2>1
<1> DEFINE n == 0 .. Len(dirs)
           m == 0 .. Len(dirs)'
<1>2. n \subseteq m
  BY <1>1
<1> HIDE DEF n, m
<1>3. [step : Calls, path : Paths \cup {""}, ino : Inos \cup {0},
        marker : Nat \cup {Unfilled}, file : n, dir : n]
      \subseteq [step : Calls, path : Paths \cup {""}, ino : Inos \cup {0},
                marker : Nat \cup {Unfilled}, file : m, dir : m]
  BY <1>2
<1>4. [path : Paths, marker : Nat \ {0}, ino : Inos, release : Releases, dir : n]
      \subseteq [path : Paths, marker : Nat \ {0}, ino : Inos, release : Releases, dir : m]
  BY <1>2
<1>5. QED
  BY <1>3, <1>4 DEF Call, Binding, n, m

(* What every step of people has in common: directories are added, none is  *)
(* changed, and calls about a path where something happens lose theirs.     *)
LEMMA PathsMove ==
  ASSUME IInv, UNCHANGED <<fileVars, bindings, global>>, NEW Q \in SUBSET Paths, Disturbed(Q),
         DiskTyped', MarkersIdentify', Len(dirs) <= Len(dirs)',
         \A d \in 1 .. Len(dirs) : dirs'[d] = dirs[d],
         \A q \in Paths \ Q : at'[q] = at[q]
  PROVE  IInv'
<1> DEFINE lost(p) == [call[p] EXCEPT !.dir = 0]
<1>1. /\ Len(dirs) \in Nat /\ Len(dirs)' \in Nat
      /\ call \in [Processes -> Call]
      /\ Call \subseteq Call' /\ Binding \subseteq Binding'
  BY DirsTyped, TypesGrow DEF IInv, ScopesTyped, DiskTyped
<1>2. \A p \in Processes : call'[p] = IF Path(p) \in Q THEN lost(p) ELSE call[p]
  BY DEF Disturbed, Path
<1>3. \A p \in Processes :
        /\ lost(p).step = call[p].step /\ lost(p).path = call[p].path
        /\ lost(p).ino = call[p].ino /\ lost(p).marker = call[p].marker
        /\ lost(p).file = call[p].file /\ lost(p).dir = 0
  BY <1>1 DEF Call
<1> HIDE DEF lost
<1>4. \A p \in Processes :
        /\ call'[p].step = call[p].step /\ call'[p].path = call[p].path
        /\ call'[p].ino = call[p].ino /\ call'[p].marker = call[p].marker
        /\ call'[p].file = call[p].file
        /\ call'[p].dir = IF Path(p) \in Q THEN 0 ELSE call[p].dir
  BY <1>2, <1>3
<1>5. FileTypeOK' /\ FilesMade'
  BY DEF IInv, fileVars, FileTypeOK, FilesMade
<1>6. HandlesOpen'
  BY <1>4 DEF IInv, fileVars, HandlesOpen, At, In, Home, Path
<1>7. SlotsHeld'
  BY <1>4 DEF IInv, fileVars, SlotsHeld, Home
<1>8. ScopesTyped'
  <2>1. call' \in [Processes -> Call']
    <3>1. 0 \in 0 .. Len(dirs)
      BY <1>1
    <3>2. \A p \in Processes : lost(p) \in Call
      <4> DEFINE n == 0 .. Len(dirs)
      <4>1. 0 \in n
        BY <3>1
      <4> HIDE DEF n
      <4>2. \A p \in Processes :
              call[p] \in [step : Calls, path : Paths \cup {""}, ino : Inos \cup {0},
                          marker : Nat \cup {Unfilled}, file : n, dir : n]
        BY <1>1 DEF Call, n
      <4>3. QED
        BY <4>1, <4>2 DEF Call, lost, n
    <3>3. QED
      BY <1>1, <1>2, <3>2 DEF Disturbed
  <2>2. bindings' \in [Homes -> SUBSET (Binding')]
    BY <1>1 DEF IInv, ScopesTyped
  <2>3. QED
    BY <2>1, <2>2 DEF IInv, ScopesTyped
<1>9. FillersApart'
  <2>1. \A p \in Processes : In(p, "fill") => call[p].file \in 1 .. Len(dirs)
    BY <1>1, CallFields DEF IInv, FillersApart
  <2>2. QED
    BY <1>4, <2>1 DEF IInv, FillersApart, In
<1>10. EvidenceHolds'
  <2>1. \A p \in Processes : call[p].dir # 0 => call[p].dir \in 1 .. Len(dirs)
    BY <1>1, CallFields DEF IInv
  <2> SUFFICES ASSUME NEW p \in Processes
               PROVE  KnowsRight(call[p])'
    BY DEF EvidenceHolds
  <2>2. CASE Path(p) \in Q
    BY <1>4, <2>2 DEF IInv, EvidenceHolds, KnowsRight
  <2>3. CASE Path(p) \notin Q
    BY <1>4, <2>1, <2>3 DEF IInv, EvidenceHolds, KnowsRight, Path
  <2>4. QED
    BY <2>2, <2>3
<1>11. BindingsHold'
  <2>1. \A h \in Homes : \A b \in bindings[h] : b.dir # 0 => b.dir \in 1 .. Len(dirs)
    BY <1>1 DEF IInv, ScopesTyped, Binding
  <2>2. QED
    BY <2>1 DEF IInv, BindingsHold
<1>12. OneScopePerRepository'
  BY DEF IInv, OneScopePerRepository
<1>13. QED
  BY <1>5, <1>6, <1>7, <1>8, <1>9, <1>10, <1>11, <1>12 DEF IInv

(* A new directory has no marker, or somebody else's with its history. *)
LEMMA MakeDirInv ==
  ASSUME IInv, NEW q \in Paths, NEW repo \in Nat, NEW marker \in Nat \cup {Unfilled},
         MakeDir(q, repo, marker), UNCHANGED <<fileVars, bindings, global>>,
         marker <= drawn,
         marker > 0 => \A d \in DOMAIN dirs : dirs[d].marker = marker => dirs[d].repo = repo
  PROVE  IInv'
<1>1. PICK i \in Inos : dirs' = Append(dirs, [ino |-> i, repo |-> repo, marker |-> marker])
  BY DEF MakeDir
<1> DEFINE new == [ino |-> i, repo |-> repo, marker |-> marker]
<1>2. new \in Dir /\ new.repo = repo /\ new.marker = marker
  BY DEF Dir
<1>3. dirs' = Append(dirs, new)
  BY <1>1
<1> HIDE DEF new
<1>4. /\ dirs \in Seq(Dir) /\ Len(dirs) \in Nat /\ DOMAIN dirs = 1 .. Len(dirs)
      /\ \A d \in DOMAIN dirs : dirs[d].marker \in Int
  BY DirsTyped DEF IInv, DiskTyped
<1>5. /\ dirs' \in Seq(Dir) /\ Len(dirs)' = Len(dirs) + 1
      /\ DOMAIN dirs' = 1 .. Len(dirs) + 1
      /\ \A d \in 1 .. Len(dirs) : dirs'[d] = dirs[d]
      /\ dirs'[Len(dirs) + 1] = new
  BY <1>2, <1>3, <1>4
<1>6. DiskTyped'
  BY <1>4, <1>5, ScopesAssumption DEF MakeDir, IInv, DiskTyped
<1>7. MarkersIdentify'
  <2>1. drawn' = drawn /\ marker \in Int
    BY DEF fileVars, Unfilled
  <2>2. \A d \in DOMAIN dirs' : d \in DOMAIN dirs \/ d = Len(dirs) + 1
    BY <1>4, <1>5
  <2>3. \A d \in DOMAIN dirs' : dirs'[d].marker <= drawn'
    BY <1>2, <1>4, <1>5, <2>1, <2>2 DEF IInv, MarkersIdentify
  <2>4. ASSUME NEW d \in DOMAIN dirs', NEW e \in DOMAIN dirs',
               dirs'[d].marker = dirs'[e].marker, dirs'[d].marker > 0
        PROVE  dirs'[d].repo = dirs'[e].repo
    <3>1. CASE d \in DOMAIN dirs /\ e \in DOMAIN dirs
      BY <1>4, <1>5, <2>4, <3>1 DEF IInv, MarkersIdentify
    <3>2. CASE d \in DOMAIN dirs /\ e = Len(dirs) + 1
      BY <1>2, <1>4, <1>5, <2>4, <3>2
    <3>3. CASE d = Len(dirs) + 1 /\ e \in DOMAIN dirs
      BY <1>2, <1>4, <1>5, <2>4, <3>3
    <3>4. CASE d = Len(dirs) + 1 /\ e = Len(dirs) + 1
      BY <3>4
    <3>5. QED
      BY <2>2, <3>1, <3>2, <3>3, <3>4
  <2>5. QED
    BY <2>3, <2>4 DEF MarkersIdentify
<1>8. Disturbed({q}) /\ {q} \in SUBSET Paths /\ \A r \in Paths \ {q} : at'[r] = at[r]
  BY DEF MakeDir, IInv, DiskTyped
<1>9. Len(dirs) <= Len(dirs)'
  BY <1>4, <1>5
<1>10. QED
  BY <1>5, <1>6, <1>7, <1>8, <1>9, PathsMove

LEMMA UserStepInv ==
  ASSUME IInv, UserStep
  PROVE  IInv'
<1>1. UNCHANGED <<fileVars, bindings, global>>
  BY DEF UserStep
<1>2. PICK q \in Paths :
        \/ NewRepo(q)
        \/ RemoveRepo(q)
        \/ \E from \in Paths : CopyRepo(from, q) \/ RenameRepo(from, q)
  BY DEF UserStep
<1>3. /\ Len(dirs) \in Nat /\ DOMAIN dirs = 1 .. Len(dirs) /\ drawn \in Nat
      /\ \A d \in 1 .. Len(dirs) : dirs[d] \in Dir
      /\ at \in [Paths -> 0 .. Len(dirs)]
  BY DirsTyped, FileAssumption DEF IInv, DiskTyped, FileTypeOK
<1>4. CASE NewRepo(q)
  BY <1>1, <1>3, <1>4, MakeDirInv DEF NewRepo, NoMarker
<1>5. ASSUME NEW from \in Paths, CopyRepo(from, q)
      PROVE  IInv'
  <2>1. at[from] \in DOMAIN dirs
    BY <1>3, <1>5 DEF CopyRepo
  <2> DEFINE d == dirs[at[from]]
  <2>2. /\ d.repo \in Nat /\ d.marker \in Nat \cup {Unfilled} /\ d.marker <= drawn
        /\ d.marker > 0 => \A e \in DOMAIN dirs : dirs[e].marker = d.marker => dirs[e].repo = d.repo
    BY <1>3, <2>1 DEF IInv, MarkersIdentify, Dir
  <2>3. MakeDir(q, d.repo, d.marker)
    BY <1>5 DEF CopyRepo
  <2> HIDE DEF d
  <2>4. QED
    BY <1>1, <2>2, <2>3, MakeDirInv
<1>6. ASSUME NEW from \in Paths, RenameRepo(from, q)
      PROVE  IInv'
  <2>1. from # q /\ UNCHANGED dirs /\ Disturbed({from, q})
    BY <1>6 DEF RenameRepo
  <2>2. at' \in [Paths -> 0 .. Len(dirs)] /\ \A r \in Paths \ {from, q} : at'[r] = at[r]
    BY <1>3, <1>6, <2>1 DEF RenameRepo
  <2>3. DiskTyped' /\ MarkersIdentify'
    BY <1>1, <2>1, <2>2 DEF IInv, DiskTyped, MarkersIdentify, fileVars
  <2>4. QED
    BY <1>1, <1>3, <2>1, <2>2, <2>3, PathsMove
<1>7. CASE RemoveRepo(q)
  <2>1. UNCHANGED dirs /\ Disturbed({q})
    BY <1>7 DEF RemoveRepo
  <2>2. at' \in [Paths -> 0 .. Len(dirs)] /\ \A r \in Paths \ {q} : at'[r] = at[r]
    BY <1>3, <1>7 DEF RemoveRepo
  <2>3. DiskTyped' /\ MarkersIdentify'
    BY <1>1, <2>1, <2>2 DEF IInv, DiskTyped, MarkersIdentify, fileVars
  <2>4. QED
    BY <1>1, <1>3, <2>1, <2>2, <2>3, PathsMove
<1>8. QED
  BY <1>2, <1>4, <1>5, <1>6, <1>7

-----------------------------------------------------------------------------
(* Steps of a call. *)

LEMMA NoCallFits == ASSUME DiskTyped PROVE NoCall \in Call /\ KnowsRight(NoCall)
<1>1. 0 \in 0 .. Len(dirs)
  BY DirsTyped
<1>2. NoCall \in Call
  BY ONLY <1>1 DEF Call, NoCall, NoMarker, Calls
<1>3. KnowsRight(NoCall)
  BY DEF KnowsRight, NoCall
<1>4. QED
  BY <1>2, <1>3

(* One call becomes another that knows no less of where it is. *)
LEMMA CallKnows ==
  ASSUME IInv, NEW p \in Processes, NEW c \in Call, call' = [call EXCEPT ![p] = c],
         c.step # "fill", KnowsRight(c), UNCHANGED <<dirs, at, drawn>>
  PROVE  /\ DiskTyped' /\ FillersApart' /\ EvidenceHolds' /\ MarkersIdentify'
         /\ call' \in [Processes -> Call] /\ Call' = Call /\ Binding' = Binding
         /\ call'[p] = c /\ \A o \in Processes : o # p => call'[o] = call[o]
<1>1. call \in [Processes -> Call] /\ call' \in [Processes -> Call]
  BY DEF IInv, ScopesTyped
<1>2. call'[p] = c /\ \A o \in Processes : o # p => call'[o] = call[o]
  BY <1>1
<1>3. DiskTyped' /\ MarkersIdentify'
  BY DEF IInv, DiskTyped, MarkersIdentify
<1>4. Call' = Call /\ Binding' = Binding
  BY DEF Call, Binding
<1>5. FillersApart'
  BY <1>2 DEF IInv, FillersApart, In
<1>6. EvidenceHolds'
  <2>1. \A d \in Call : KnowsRight(d) => KnowsRight(d)'
    BY DEF KnowsRight
  <2>2. QED
    BY <1>1, <1>2, <2>1 DEF IInv, EvidenceHolds, KnowsRight
<1>7. QED
  BY <1>1, <1>2, <1>3, <1>4, <1>5, <1>6

LEMMA CallParts ==
  ASSUME IInv, NEW p \in Processes, NEW c \in Call, call' = [call EXCEPT ![p] = c],
         c.step # "fill", KnowsRight(c), UNCHANGED <<dirs, at, bindings, global, drawn>>
  PROVE  /\ DiskTyped' /\ ScopesTyped' /\ FillersApart' /\ EvidenceHolds'
         /\ MarkersIdentify' /\ BindingsHold' /\ OneScopePerRepository'
<1>1. /\ DiskTyped' /\ FillersApart' /\ EvidenceHolds' /\ MarkersIdentify'
      /\ call' \in [Processes -> Call] /\ Call' = Call /\ Binding' = Binding
  BY CallKnows
<1>2. ScopesTyped'
  BY <1>1 DEF IInv, ScopesTyped
<1>3. BindingsHold' /\ OneScopePerRepository'
  BY DEF IInv, BindingsHold, OneScopePerRepository
<1>4. QED
  BY <1>1, <1>2, <1>3

LEMMA CallMoves ==
  ASSUME IInv, NEW p \in Processes, NEW c \in Call, call' = [call EXCEPT ![p] = c],
         c.step # "fill", KnowsRight(c),
         c.step # "none" => At(p, "open") /\ c.path \in Paths /\ c.ino \in Inos,
         UNCHANGED <<hub, actors, handle, drawn, diskVars, bindings, global>>,
         writer' \in [Homes -> Processes \cup {Nobody}], SlotsHeld'
  PROVE  IInv'
<1>1. /\ DiskTyped' /\ ScopesTyped' /\ FillersApart' /\ EvidenceHolds'
      /\ MarkersIdentify' /\ BindingsHold' /\ OneScopePerRepository'
  BY CallParts DEF diskVars
<1>2. FileTypeOK' /\ FilesMade'
  BY DEF IInv, FileTypeOK, FilesMade
<1>3. call \in [Processes -> Call]
  BY DEF IInv, ScopesTyped
<1>4. HandlesOpen'
  BY <1>3 DEF IInv, HandlesOpen, At, In, Home, Path
<1>5. QED
  BY <1>1, <1>2, <1>4 DEF IInv

(* ... in the same transaction, or outside one. *)
LEMMA CallGoesOn ==
  ASSUME IInv, NEW p \in Processes, NEW c \in Call, call' = [call EXCEPT ![p] = c],
         c.step # "fill", KnowsRight(c),
         c.step # "none" => At(p, "open") /\ c.path \in Paths /\ c.ino \in Inos,
         c.step \in Transaction <=> call[p].step \in Transaction,
         InCall
  PROVE  IInv'
<1>1. UNCHANGED <<hub, actors, handle, drawn, writer, diskVars, bindings, global>>
  BY DEF InCall, fileVars
<1>2. writer' \in [Homes -> Processes \cup {Nobody}]
  BY <1>1 DEF IInv, FileTypeOK
<1>3. call \in [Processes -> Call]
  BY DEF IInv, ScopesTyped
<1>4. SlotsHeld'
  BY <1>1, <1>3 DEF IInv, SlotsHeld, Home
<1>5. QED
  BY <1>1, <1>2, <1>4, CallMoves

(* A call that ends gives its slot back, whether its command goes on or not. *)
LEMMA SlotFreed ==
  ASSUME IInv, NEW p \in Processes, call' = [call EXCEPT ![p] = NoCall],
         writer' = [h \in Homes |-> IF writer[h] = p THEN Nobody ELSE writer[h]],
         UNCHANGED hub, handle' = handle \/ handle' = [handle EXCEPT ![p] = Closed]
  PROVE  writer' \in [Homes -> Processes \cup {Nobody}] /\ SlotsHeld'
<1>1. writer' \in [Homes -> Processes \cup {Nobody}]
  BY DEF IInv, FileTypeOK
<1>2. call \in [Processes -> Call] /\ handle \in [Processes -> Handle]
  BY DEF IInv, ScopesTyped, FileTypeOK, Handle, Steps
<1>3. call'[p].step = "none" /\ \A o \in Processes : o # p => call'[o] = call[o]
  BY <1>2 DEF NoCall
<1>4. \A o \in Processes : o # p => Home(o)' = Home(o) /\ handle'[o] = handle[o]
  BY <1>2 DEF Home
<1>5. \A h \in Homes : writer'[h] # p /\ \A o \in Processes : o # p => (writer'[h] = o <=> writer[h] = o)
  BY FileAssumption
<1>6. SlotsHeld'
  <2> SUFFICES ASSUME NEW h \in Homes, NEW o \in Processes
               PROVE  /\ writer'[h] = o <=> Home(o)' = h /\ call'[o].step \in Transaction
                      /\ writer'[h] = o => hub'[h].version = handle'[o].release
    BY DEF SlotsHeld
  <2>1. CASE o = p
    BY <1>3, <1>5, <2>1 DEF Transaction
  <2>2. CASE o # p
    BY <1>3, <1>4, <1>5, <2>2 DEF IInv, SlotsHeld
  <2>3. QED
    BY <2>1, <2>2
<1>7. QED
  BY <1>1, <1>6

LEMMA RefusedInv ==
  ASSUME IInv, NEW p \in Processes, Refused(p)
  PROVE  IInv'
<1>1. NoCall \in Call /\ KnowsRight(NoCall)
  BY NoCallFits DEF IInv
<1>2. NoCall.step = "none"
  BY DEF NoCall
<1>3. writer' \in [Homes -> Processes \cup {Nobody}] /\ SlotsHeld'
  BY SlotFreed DEF Refused
<1>4. QED
  BY <1>1, <1>2, <1>3, CallMoves DEF Refused

LEMMA EndsInv ==
  ASSUME IInv, NEW p \in Processes, Ends(p)
  PROVE  IInv'
<1>1. /\ call' = [call EXCEPT ![p] = NoCall]
      /\ handle' = [handle EXCEPT ![p] = Closed]
      /\ writer' = [h \in Homes |-> IF writer[h] = p THEN Nobody ELSE writer[h]]
      /\ UNCHANGED <<hub, actors, drawn, dirs, at, bindings, global>>
  BY DEF Ends, CloseHub, diskVars
<1>2. writer' \in [Homes -> Processes \cup {Nobody}] /\ SlotsHeld'
  BY <1>1, SlotFreed
<1>3. /\ DiskTyped' /\ ScopesTyped' /\ FillersApart' /\ EvidenceHolds'
      /\ MarkersIdentify' /\ BindingsHold' /\ OneScopePerRepository'
  <2>1. NoCall \in Call /\ KnowsRight(NoCall) /\ NoCall.step # "fill"
    BY NoCallFits DEF IInv, NoCall
  <2>2. QED
    BY <1>1, <2>1, CallParts
<1>4. handle \in [Processes -> Handle] /\ Closed \in Handle
  BY DEF IInv, FileTypeOK, Handle, Steps, Closed
<1>5. FileTypeOK' /\ FilesMade'
  <2>1. handle' \in [Processes -> Handle]
    BY <1>1, <1>4
  <2>2. QED
    BY <1>1, <1>2, <2>1 DEF IInv, FileTypeOK, FilesMade, Handle, Steps
<1>6. HandlesOpen'
  <2>1. call \in [Processes -> Call]
    BY DEF IInv, ScopesTyped
  <2>2. QED
    BY <1>1, <1>4, <2>1 DEF IInv, HandlesOpen, At, In, Home, Path, Closed, NoCall
<1>7. QED
  BY <1>2, <1>3, <1>5, <1>6 DEF IInv

(* What is known of a call in progress. *)
LEMMA InProgress ==
  ASSUME IInv, NEW p \in Processes, ~In(p, "none")
  PROVE  /\ call[p] \in Call /\ call \in [Processes -> Call]
         /\ At(p, "open") /\ Path(p) \in Paths /\ call[p].ino \in Inos
         /\ Home(p) \in Homes /\ handle[p].release \in Releases
         /\ hub[Home(p)].there
         /\ KnowsRight(call[p])
         /\ at \in [Paths -> 0 .. Len(dirs)]
         /\ Len(dirs) \in Nat /\ DOMAIN dirs = 1 .. Len(dirs)
         /\ \A d \in 1 .. Len(dirs) : dirs[d] \in Dir
<1>1. At(p, "open") /\ Path(p) \in Paths /\ call[p].ino \in Inos
  BY DEF IInv, HandlesOpen
<1>2. Home(p) \in Homes /\ handle[p].release \in Releases /\ hub[Home(p)].there
  BY <1>1 DEF IInv, HandlesOpen, At
<1>3. call[p] \in Call /\ call \in [Processes -> Call] /\ at \in [Paths -> 0 .. Len(dirs)]
  BY DEF IInv, ScopesTyped, DiskTyped
<1>4. KnowsRight(call[p])
  BY DEF IInv, EvidenceHolds
<1>5. QED
  BY <1>1, <1>2, <1>3, <1>4, DirsTyped DEF IInv

(* The marker at a path is one of its directory, or there is none. *)
LEMMA MarkerRead ==
  ASSUME DiskTyped, NEW q \in Paths
  PROVE  /\ MarkerAt(q) \in Nat \cup {Unfilled}
         /\ at[q] # 0 => at[q] \in 1 .. Len(dirs) /\ MarkerAt(q) = dirs[at[q]].marker
<1>1. at[q] \in 0 .. Len(dirs) /\ Len(dirs) \in Nat
  BY DirsTyped DEF DiskTyped
<1>2. CASE at[q] = 0
  BY <1>2 DEF MarkerAt, NoMarker
<1>3. CASE at[q] # 0
  <2>1. at[q] \in 1 .. Len(dirs)
    BY <1>1, <1>3
  <2>2. dirs[at[q]] \in Dir
    BY <2>1, DirsTyped
  <2>3. QED
    BY <1>3, <2>1, <2>2 DEF MarkerAt, Dir
<1>4. QED
  BY <1>2, <1>3

LEMMA ResolveInv ==
  ASSUME IInv, NEW p \in Processes, NEW q \in Paths, Resolve(p, q)
  PROVE  IInv'
<1> DEFINE c == [NoCall EXCEPT !.step = "marker", !.path = q,
                               !.ino = dirs[at[q]].ino, !.dir = at[q]]
<1>1. /\ call' = [call EXCEPT ![p] = c] /\ InCall
      /\ At(p, "open") /\ In(p, "none") /\ at[q] # 0
  BY DEF Resolve
<1>2. at[q] \in 1 .. Len(dirs) /\ at[q] \in 0 .. Len(dirs) /\ 0 \in 0 .. Len(dirs)
  BY <1>1, DirsTyped DEF IInv, DiskTyped
<1>3. dirs[at[q]].ino \in Inos
  BY <1>2, DirsTyped DEF IInv
<1>4. /\ c.step = "marker" /\ c.path = q /\ c.ino = dirs[at[q]].ino /\ c.dir = at[q]
  BY DEF NoCall
<1>5. c \in Call
  <2> DEFINE Record(n) == [step : Calls, path : Paths \cup {""}, ino : Inos \cup {0},
                           marker : Nat \cup {Unfilled}, file : n, dir : n]
             About(r, i, d) == [r EXCEPT !.step = "marker", !.path = q, !.ino = i, !.dir = d]
  <2>1. ASSUME NEW n, NEW r \in Record(n), NEW i \in Inos, NEW d \in n
        PROVE  About(r, i, d) \in Record(n)
    BY DEF Calls
  <2>2. NoCall \in Record(0 .. Len(dirs))
    BY NoCallFits DEF IInv, Call
  <2>3. c = About(NoCall, dirs[at[q]].ino, at[q]) /\ Call = Record(0 .. Len(dirs))
    BY DEF Call
  <2> HIDE DEF c, Record, About
  <2>4. QED
    BY <1>2, <1>3, <2>1, <2>2, <2>3
<1> HIDE DEF c
<1>6. KnowsRight(c)
  BY <1>4 DEF KnowsRight
<1>7. c.step \notin Transaction /\ call[p].step \notin Transaction
  BY <1>1, <1>4 DEF Transaction, In
<1>8. QED
  BY <1>1, <1>3, <1>4, <1>5, <1>6, <1>7, CallGoesOn

LEMMA ReadMarkerInv ==
  ASSUME IInv, NEW p \in Processes, ReadMarker(p)
  PROVE  IInv'
<1>1. In(p, "marker") /\ ~In(p, "none")
  BY DEF ReadMarker, In
<1>2. CASE Refused(p)
  BY <1>2, RefusedInv
<1>3. CASE /\ MarkerAt(Path(p)) # Unfilled /\ InCall
           /\ call' = [call EXCEPT ![p] = [@ EXCEPT !.step = "begin",
                                                   !.marker = MarkerAt(Path(p))]]
  <2> DEFINE m == MarkerAt(Path(p))
             c == [call[p] EXCEPT !.step = "begin", !.marker = m]
  <2>1. call[p] \in Call /\ m \in Nat \cup {Unfilled} /\ m # Unfilled
    BY <1>1, <1>3, InProgress, MarkerRead DEF IInv
  <2> HIDE DEF m
  <2>2. /\ c \in Call /\ c.step = "begin" /\ c.path = call[p].path /\ c.ino = call[p].ino
        /\ c.dir = call[p].dir /\ c.marker = m
    BY <2>1 DEF Call, Calls
  <2>3. call' = [call EXCEPT ![p] = c]
    BY <1>3 DEF m
  <2> HIDE DEF c
  <2>4. KnowsRight(c)
    BY <1>1, <2>1, <2>2, InProgress DEF KnowsRight
  <2>5. c.step \notin Transaction /\ call[p].step \notin Transaction /\ c.step # "fill"
    BY <1>1, <2>2 DEF Transaction, In
  <2>6. At(p, "open") /\ c.path \in Paths /\ c.ino \in Inos
    BY <1>1, <2>2, InProgress DEF Path
  <2>7. QED
    BY <1>3, <2>2, <2>3, <2>4, <2>5, <2>6, CallGoesOn
<1>4. QED
  BY <1>2, <1>3 DEF ReadMarker

(* A call that goes to its next step with nothing new in hand. *)
LEMMA StepOnly ==
  ASSUME IInv, NEW p \in Processes, ~In(p, "none"), NEW s \in Calls \ {"none", "fill"},
         GoesTo(p, s)
  PROVE  \E c \in Call :
           /\ call' = [call EXCEPT ![p] = c]
           /\ c = [call[p] EXCEPT !.step = s]
           /\ c.step = s /\ c.marker = call[p].marker /\ c.dir = call[p].dir
           /\ c.path = call[p].path /\ c.ino = call[p].ino
           /\ At(p, "open") /\ c.path \in Paths /\ c.ino \in Inos
<1> DEFINE c == [call[p] EXCEPT !.step = s]
<1>1. call[p] \in Call
  BY InProgress
<1>2. /\ c \in Call /\ c.step = s /\ c.marker = call[p].marker /\ c.dir = call[p].dir
      /\ c.path = call[p].path /\ c.ino = call[p].ino
  BY <1>1 DEF Call
<1>3. call' = [call EXCEPT ![p] = c]
  BY DEF GoesTo
<1>4. At(p, "open") /\ c.path \in Paths /\ c.ino \in Inos
  BY <1>2, InProgress DEF Path
<1>5. QED
  BY <1>2, <1>3, <1>4

LEMMA BeginInv ==
  ASSUME IInv, NEW p \in Processes, Begin(p)
  PROVE  IInv'
<1>1. In(p, "begin") /\ ~In(p, "none") /\ writer[Home(p)] = Nobody
  BY DEF Begin, In
<1>2. CASE Refused(p)
  BY <1>2, RefusedInv
<1>3. CASE /\ Admitted(p)
           /\ writer' = [writer EXCEPT ![Home(p)] = p]
           /\ GoesTo(p, IF call[p].marker = NoMarker THEN "create" ELSE "evidence")
           /\ UNCHANGED <<hub, actors, handle, drawn, diskVars, bindings, global>>
  <2>1. PICK s \in {"create", "evidence"} :
          GoesTo(p, s) /\ (s = "evidence" => call[p].marker # NoMarker)
    BY <1>3
  <2>2. s \in Calls \ {"none", "fill"} /\ s \in Transaction
    BY DEF Calls, Transaction
  <2>3. PICK c \in Call :
          /\ call' = [call EXCEPT ![p] = c]
          /\ c.step = s /\ c.marker = call[p].marker /\ c.dir = call[p].dir
          /\ c.path = call[p].path /\ c.ino = call[p].ino
          /\ At(p, "open") /\ c.path \in Paths /\ c.ino \in Inos
    BY <1>1, <2>1, <2>2, StepOnly
  <2>4. KnowsRight(c)
    <3>1. call[p].marker \in Nat \cup {Unfilled} /\ KnowsRight(call[p])
      BY <1>1, InProgress DEF Call
    <3>2. QED
      BY <1>1, <2>1, <2>3, <3>1 DEF KnowsRight, In, NoMarker
  <2>5. Home(p) \in Homes /\ writer \in [Homes -> Processes \cup {Nobody}]
    BY <1>1, InProgress DEF IInv, FileTypeOK
  <2>6. writer' \in [Homes -> Processes \cup {Nobody}]
    BY <1>3, <2>5
  <2>7. SlotsHeld'
    <3>1. call'[p] = c /\ \A o \in Processes : o # p => call'[o] = call[o]
      BY <1>1, <2>3, InProgress
    <3>2. writer'[Home(p)] = p /\ \A h \in Homes : h # Home(p) => writer'[h] = writer[h]
      BY <1>3, <2>5
    <3>3. \A o \in Processes : ~(Home(o) = Home(p) /\ call[o].step \in Transaction)
      BY <1>1, <2>5, FileAssumption DEF IInv, SlotsHeld
    <3>4. hub[Home(p)].version = handle[p].release
      BY <1>3 DEF Admitted, File
    <3>5. call[p].step \notin Transaction
      BY <1>1 DEF In, Transaction
    <3> SUFFICES ASSUME NEW h \in Homes, NEW o \in Processes
                 PROVE  /\ writer'[h] = o <=> Home(o)' = h /\ call'[o].step \in Transaction
                        /\ writer'[h] = o => hub'[h].version = handle'[o].release
      BY DEF SlotsHeld
    <3>6. Home(o)' = Home(o) /\ hub' = hub /\ handle' = handle
      BY <1>3 DEF Home
    <3>7. CASE o = p
      BY <2>2, <2>3, <3>1, <3>2, <3>4, <3>5, <3>6, <3>7 DEF IInv, SlotsHeld
    <3>8. CASE o # p
      BY <3>1, <3>2, <3>3, <3>6, <3>8 DEF IInv, SlotsHeld
    <3>9. QED
      BY <3>7, <3>8
  <2>8. QED
    BY <1>3, <2>2, <2>3, <2>4, <2>6, <2>7, CallMoves
<1>4. QED
  BY <1>2, <1>3 DEF Begin

(* A marker that changes is one no call or binding relies on, because it has *)
(* not been filled; and its filler knows that it is its own.                 *)
LEMMA MarkerMoves ==
  ASSUME IInv, NEW p \in Processes, NEW d \in 1 .. Len(dirs), NEW m \in Nat \cup {Unfilled},
         dirs' = [dirs EXCEPT ![d].marker = m],
         dirs[d].marker \in {NoMarker, Unfilled},
         \A o \in Processes \ {p} : In(o, "fill") => call[o].file # d,
         m = Unfilled \/ m = drawn',
         drawn' \in 0 .. MaxIds, m = Unfilled => drawn' = drawn, m # Unfilled => drawn' = drawn + 1,
         UNCHANGED <<hub, writer, actors, handle, at, bindings, global>>,
         NEW c \in Call, call' = [call EXCEPT ![p] = c],
         ~In(p, "none"), call[p].step \in Transaction, c.step \in Transaction,
         c.path = call[p].path, c.ino = call[p].ino, c.dir = call[p].dir,
         c.step \in {"fill", "reread"},
         c.step = "fill" => c.file = d /\ m = Unfilled
  PROVE  IInv'
<1> DEFINE e == [dirs[d] EXCEPT !.marker = m]
<1>1. /\ Len(dirs) \in Nat /\ DOMAIN dirs = 1 .. Len(dirs) /\ dirs \in Seq(Dir)
      /\ dirs[d] \in Dir
  BY DirsTyped DEF IInv, DiskTyped
<1>2. e \in Dir /\ e.ino = dirs[d].ino /\ e.repo = dirs[d].repo /\ e.marker = m
  BY <1>1 DEF Dir
<1>3. dirs' = [dirs EXCEPT ![d] = e]
  OBVIOUS
<1> HIDE DEF e
<1>4. /\ dirs' \in Seq(Dir) /\ Len(dirs)' = Len(dirs) /\ DOMAIN dirs' = 1 .. Len(dirs)
      /\ dirs'[d] = e
      /\ \A f \in 1 .. Len(dirs) : f # d => dirs'[f] = dirs[f]
  BY <1>1, <1>2, <1>3
<1>5. /\ \A f \in 1 .. Len(dirs) : dirs'[f].ino = dirs[f].ino /\ dirs'[f].repo = dirs[f].repo
      /\ \A f \in 1 .. Len(dirs) : dirs[f].marker \in Nat \ {0} =>
            dirs'[f].marker = dirs[f].marker
  BY <1>2, <1>4 DEF NoMarker, Unfilled
<1>6. /\ call \in [Processes -> Call] /\ call'[p] = c
      /\ \A o \in Processes : o # p => call'[o] = call[o]
  BY DEF IInv, ScopesTyped
<1>7. DiskTyped'
  BY <1>4 DEF IInv, DiskTyped
<1>8. ScopesTyped'
  <2>1. Call' = Call /\ Binding' = Binding
    BY <1>4 DEF Call, Binding
  <2>2. call' \in [Processes -> Call]
    BY <1>6
  <2>3. QED
    BY <2>1, <2>2 DEF IInv, ScopesTyped
<1>9. FileTypeOK' /\ FilesMade'
  BY DEF IInv, FileTypeOK, FilesMade
<1>10. HandlesOpen'
  BY <1>6 DEF IInv, HandlesOpen, At, In, Home, Path
<1>11. SlotsHeld'
  BY <1>6 DEF IInv, SlotsHeld, Home
<1>12. \A o \in Processes : call[o] \in Call /\ call[o].file \in Nat /\ call[o].file <= Len(dirs)
                          /\ call[o].dir \in Nat /\ call[o].dir <= Len(dirs)
  BY CallFields DEF IInv
<1>13. FillersApart'
  <2> SUFFICES ASSUME NEW o \in Processes, In(o, "fill")'
               PROVE  /\ call'[o].file # 0 /\ dirs'[call'[o].file].marker = Unfilled
                      /\ \A r \in Processes : In(r, "fill")' /\ call'[r].file = call'[o].file => r = o
    BY DEF FillersApart
  <2>1. CASE o = p
    <3>1. call'[o].file = d /\ m = Unfilled
      BY <1>6, <2>1 DEF In
    <3>2. QED
      BY <1>2, <1>4, <1>6, <2>1, <3>1 DEF In
  <2>2. CASE o # p
    <3>1. In(o, "fill") /\ call'[o] = call[o]
      BY <1>6, <2>2 DEF In
    <3>2. call[o].file # d /\ call[o].file \in 1 .. Len(dirs)
      BY <1>12, <2>2, <3>1 DEF IInv, FillersApart
    <3>3. \A r \in Processes : In(r, "fill")' => In(r, "fill") \/ r = p
      BY <1>6 DEF In
    <3>4. In(p, "fill")' => call'[p].file = d
      BY <1>6 DEF In
    <3>5. QED
      BY <1>4, <1>6, <2>2, <3>1, <3>2, <3>3, <3>4 DEF IInv, FillersApart
  <2>3. QED
    BY <2>1, <2>2
<1>14. EvidenceHolds'
  <2> SUFFICES ASSUME NEW o \in Processes
               PROVE  KnowsRight(call[o])'
    BY DEF EvidenceHolds
  <2>1. KnowsRight(call[o]) /\ (call[o].dir # 0 => call[o].dir \in 1 .. Len(dirs))
    BY <1>12 DEF IInv, EvidenceHolds
  <2>2. CASE o = p
    BY <1>5, <1>6, <2>1, <2>2 DEF KnowsRight
  <2>3. CASE o # p
    <3>1. call'[o] = call[o]
      BY <1>6, <2>3
    <3>2. call[o].dir # 0 => /\ at'[call[o].path] = call[o].dir
                             /\ dirs'[call[o].dir].ino = call[o].ino
      BY <1>5, <2>1 DEF KnowsRight
    <3>3. call[o].dir # 0 /\ call[o].step \in {"identity", "bind"} =>
            dirs'[call[o].dir].marker = call[o].marker
      BY <1>5, <2>1 DEF KnowsRight
    <3>4. QED
      BY <2>1, <3>1, <3>2, <3>3 DEF KnowsRight
  <2>4. QED
    BY <2>2, <2>3
<1>15. MarkersIdentify'
  <2>1. \A f \in 1 .. Len(dirs) : dirs[f].marker \in Int /\ dirs[f].marker <= drawn
    BY <1>1, DirsTyped DEF IInv, MarkersIdentify
  <2>2. drawn \in Nat /\ drawn' \in Nat /\ drawn <= drawn' /\ m \in Int /\ m <= drawn'
    BY FileAssumption DEF IInv, FileTypeOK, Unfilled
  <2>3. \A f \in 1 .. Len(dirs) : dirs'[f].marker <= drawn'
    BY <1>2, <1>4, <2>1, <2>2
  <2>4. m > 0 => \A f \in 1 .. Len(dirs) : f # d => dirs'[f].marker # m
    BY <1>4, <2>1, <2>2 DEF Unfilled
  <2>5. ASSUME NEW f \in 1 .. Len(dirs), NEW g \in 1 .. Len(dirs),
               dirs'[f].marker = dirs'[g].marker, dirs'[f].marker > 0
        PROVE  dirs'[f].repo = dirs'[g].repo
    <3>1. CASE f # d /\ g # d
      BY <1>1, <1>4, <2>5, <3>1 DEF IInv, MarkersIdentify
    <3>2. CASE f = d \/ g = d
      BY <1>2, <1>4, <2>4, <2>5, <3>2
    <3>3. QED
      BY <3>1, <3>2
  <2>6. QED
    BY <1>4, <2>3, <2>5 DEF MarkersIdentify
<1>16. BindingsHold'
  <2>1. \A h \in Homes : \A b \in bindings[h] :
          b.marker \in Nat \ {0} /\ (b.dir # 0 => b.dir \in 1 .. Len(dirs))
    <3>1. \A h \in Homes : \A b \in bindings[h] : b \in Binding
      BY DEF IInv, ScopesTyped
    <3>2. QED
      BY <1>1, <3>1 DEF Binding
  <2>2. QED
    BY <1>5, <2>1 DEF IInv, BindingsHold
<1>17. OneScopePerRepository'
  BY DEF IInv, OneScopePerRepository
<1>18. QED
  BY <1>7, <1>8, <1>9, <1>10, <1>11, <1>13, <1>14, <1>15, <1>16, <1>17 DEF IInv

LEMMA CreateMarkerInv ==
  ASSUME IInv, NEW p \in Processes, CreateMarker(p)
  PROVE  IInv'
<1>1. In(p, "create") /\ ~In(p, "none") /\ call[p].step \in Transaction
  BY DEF CreateMarker, In, Transaction, Calls
<1>2. CASE Refused(p)
  BY <1>2, RefusedInv
<1>3. CASE GoesTo(p, "reread") /\ InCall
  <2>1. "reread" \in Calls \ {"none", "fill"} /\ "reread" \in Transaction
    BY DEF Calls, Transaction
  <2>2. PICK c \in Call :
          /\ call' = [call EXCEPT ![p] = c]
          /\ c.step = "reread" /\ c.marker = call[p].marker /\ c.dir = call[p].dir
          /\ c.path = call[p].path /\ c.ino = call[p].ino
          /\ At(p, "open") /\ c.path \in Paths /\ c.ino \in Inos
    BY <1>1, <1>3, <2>1, StepOnly
  <2>3. KnowsRight(c)
    BY <1>1, <2>2, InProgress DEF KnowsRight
  <2>4. QED
    BY <1>1, <1>3, <2>1, <2>2, <2>3, CallGoesOn
<1>4. CASE /\ at[Path(p)] # 0 /\ MarkerAt(Path(p)) = NoMarker
           /\ dirs' = [dirs EXCEPT ![at[Path(p)]].marker = Unfilled]
           /\ call' = [call EXCEPT ![p] = [@ EXCEPT !.step = "fill", !.file = at[Path(p)]]]
           /\ UNCHANGED <<fileVars, at, bindings, global>>
  <2> DEFINE d == at[Path(p)]
             c == [call[p] EXCEPT !.step = "fill", !.file = d]
  <2>1. d \in 1 .. Len(dirs) /\ dirs[d].marker = NoMarker
    BY <1>1, <1>4, InProgress, MarkerRead DEF IInv
  <2>2. d \in 0 .. Len(dirs) /\ call[p] \in Call
    BY <1>1, <2>1, InProgress
  <2>3. dirs' = [dirs EXCEPT ![d].marker = Unfilled] /\ call' = [call EXCEPT ![p] = c]
    BY <1>4
  <2> HIDE DEF d
  <2>4. /\ c.step = "fill" /\ c.file = d /\ c.path = call[p].path
        /\ c.ino = call[p].ino /\ c.dir = call[p].dir
    BY <2>2 DEF Call
  <2>5. c \in Call
    <3> DEFINE Record(n) == [step : Calls, path : Paths \cup {""}, ino : Inos \cup {0},
                             marker : Nat \cup {Unfilled}, file : n, dir : n]
               Filling(r, i) == [r EXCEPT !.step = "fill", !.file = i]
    <3>1. ASSUME NEW n, NEW r \in Record(n), NEW i \in n
          PROVE  Filling(r, i) \in Record(n)
      BY DEF Calls
    <3>2. c = Filling(call[p], d) /\ Call = Record(0 .. Len(dirs))
      BY DEF Call
    <3> HIDE DEF c, Record, Filling
    <3>3. QED
      BY <2>2, <3>1, <3>2
  <2> HIDE DEF c
  <2>6. \A o \in Processes \ {p} : In(o, "fill") => call[o].file # d
    BY <2>1 DEF IInv, FillersApart, NoMarker, Unfilled
  <2>7. c.step \in Transaction
    BY <2>4 DEF Transaction, Calls
  <2>8. UNCHANGED <<hub, writer, actors, handle, drawn, at, bindings, global>>
    BY <1>4 DEF fileVars
  <2>9. drawn' \in 0 .. MaxIds
    BY <2>8 DEF IInv, FileTypeOK
  <2>10. QED
    BY <1>1, <2>1, <2>3, <2>4, <2>5, <2>6, <2>7, <2>8, <2>9, MarkerMoves
<1>5. QED
  BY <1>2, <1>3, <1>4 DEF CreateMarker

LEMMA FillMarkerInv ==
  ASSUME IInv, NEW p \in Processes, FillMarker(p)
  PROVE  IInv'
<1>1. In(p, "fill") /\ ~In(p, "none") /\ call[p].step \in Transaction
  BY DEF FillMarker, In, Transaction, Calls
<1> DEFINE d == call[p].file
<1>2. PICK id \in 1 .. MaxIds : Draws(id) /\ dirs' = [dirs EXCEPT ![d].marker = id]
  BY DEF FillMarker
<1>3. d \in 1 .. Len(dirs) /\ dirs[d].marker = Unfilled
  BY <1>1, CallFields, InProgress DEF IInv, FillersApart
<1>4. \A o \in Processes \ {p} : In(o, "fill") => call[o].file # d
  BY <1>1 DEF IInv, FillersApart
<1> HIDE DEF d
<1>5. /\ id \in Nat /\ id # Unfilled /\ id = drawn' /\ drawn' = drawn + 1
      /\ drawn' \in 0 .. MaxIds
  BY <1>2, FileAssumption DEF Draws, Unfilled
<1>6. "reread" \in Calls \ {"none", "fill"} /\ "reread" \in Transaction
  BY DEF Calls, Transaction
<1>7. PICK c \in Call :
        /\ call' = [call EXCEPT ![p] = c]
        /\ c.step = "reread" /\ c.dir = call[p].dir
        /\ c.path = call[p].path /\ c.ino = call[p].ino
  BY <1>1, <1>6, StepOnly DEF FillMarker
<1>8. UNCHANGED <<hub, writer, actors, handle, at, bindings, global>>
  BY DEF FillMarker
<1>9. QED
  BY <1>1, <1>2, <1>3, <1>4, <1>5, <1>6, <1>7, <1>8, MarkerMoves

LEMMA RereadMarkerInv ==
  ASSUME IInv, NEW p \in Processes, RereadMarker(p)
  PROVE  IInv'
<1>1. In(p, "reread") /\ ~In(p, "none") /\ call[p].step \in Transaction
  BY DEF RereadMarker, In, Transaction, Calls
<1>2. CASE Refused(p)
  BY <1>2, RefusedInv
<1>3. CASE /\ MarkerAt(Path(p)) \notin {NoMarker, Unfilled} /\ InCall
           /\ call' = [call EXCEPT ![p] = [@ EXCEPT !.step = "evidence",
                                                   !.marker = MarkerAt(Path(p))]]
  <2> DEFINE m == MarkerAt(Path(p))
             c == [call[p] EXCEPT !.step = "evidence", !.marker = m]
  <2>1. call[p] \in Call /\ m \in Nat \ {0}
    BY <1>1, <1>3, InProgress, MarkerRead DEF IInv, NoMarker
  <2> HIDE DEF m
  <2>2. /\ c \in Call /\ c.step = "evidence" /\ c.path = call[p].path /\ c.ino = call[p].ino
        /\ c.dir = call[p].dir /\ c.marker = m
    BY <2>1 DEF Call, Calls
  <2>3. call' = [call EXCEPT ![p] = c]
    BY <1>3 DEF m
  <2> HIDE DEF c
  <2>4. KnowsRight(c)
    BY <1>1, <2>1, <2>2, InProgress DEF KnowsRight
  <2>5. c.step \in Transaction
    BY <2>2 DEF Transaction, Calls
  <2>6. At(p, "open") /\ c.path \in Paths /\ c.ino \in Inos
    BY <1>1, <2>2, InProgress DEF Path
  <2>7. QED
    BY <1>1, <1>3, <2>2, <2>3, <2>4, <2>5, <2>6, CallGoesOn
<1>4. QED
  BY <1>2, <1>3 DEF RereadMarker

LEMMA CheckMarkerInv ==
  ASSUME IInv, NEW p \in Processes, CheckMarker(p)
  PROVE  IInv'
<1>1. In(p, "evidence") /\ ~In(p, "none") /\ call[p].step \in Transaction
  BY DEF CheckMarker, In, Transaction, Calls
<1>2. CASE Refused(p)
  BY <1>2, RefusedInv
<1>3. CASE MarkerAt(Path(p)) = call[p].marker /\ GoesTo(p, "identity") /\ InCall
  <2>1. "identity" \in Calls \ {"none", "fill"} /\ "identity" \in Transaction
    BY DEF Calls, Transaction
  <2>2. PICK c \in Call :
          /\ call' = [call EXCEPT ![p] = c]
          /\ c.step = "identity" /\ c.marker = call[p].marker /\ c.dir = call[p].dir
          /\ c.path = call[p].path /\ c.ino = call[p].ino
          /\ At(p, "open") /\ c.path \in Paths /\ c.ino \in Inos
    BY <1>1, <1>3, <2>1, StepOnly
  <2>3. c.dir # 0 => dirs[c.dir].marker = c.marker
    BY <1>1, <1>3, <2>2, InProgress DEF KnowsRight, MarkerAt, Path
  <2>4. KnowsRight(c)
    BY <1>1, <2>2, <2>3, InProgress DEF KnowsRight, In
  <2>5. QED
    BY <1>1, <1>3, <2>1, <2>2, <2>4, CallGoesOn
<1>4. QED
  BY <1>2, <1>3 DEF CheckMarker

LEMMA CheckIdentityInv ==
  ASSUME IInv, NEW p \in Processes, CheckIdentity(p)
  PROVE  IInv'
<1>1. In(p, "identity") /\ ~In(p, "none") /\ call[p].step \in Transaction
  BY DEF CheckIdentity, In, Transaction, Calls
<1>2. CASE Refused(p)
  BY <1>2, RefusedInv
<1>3. CASE GoesTo(p, "bind") /\ InCall
  <2>1. "bind" \in Calls \ {"none", "fill"} /\ "bind" \in Transaction
    BY DEF Calls, Transaction
  <2>2. PICK c \in Call :
          /\ call' = [call EXCEPT ![p] = c]
          /\ c.step = "bind" /\ c.marker = call[p].marker /\ c.dir = call[p].dir
          /\ c.path = call[p].path /\ c.ino = call[p].ino
          /\ At(p, "open") /\ c.path \in Paths /\ c.ino \in Inos
    BY <1>1, <1>3, <2>1, StepOnly
  <2>3. KnowsRight(c)
    BY <1>1, <2>2, InProgress DEF KnowsRight, In
  <2>4. QED
    BY <1>1, <1>3, <2>1, <2>2, <2>3, CallGoesOn
<1>4. QED
  BY <1>2, <1>3 DEF CheckIdentity

LEMMA BindInv ==
  ASSUME IInv, NEW p \in Processes, Bind(p)
  PROVE  IInv'
<1>1. In(p, "bind") /\ ~In(p, "none") /\ call[p].step \in Transaction
  BY DEF Bind, In, Transaction, Calls
<1>2. CASE Refused(p)
  BY <1>2, RefusedInv
<1> DEFINE b == [path |-> Path(p), marker |-> call[p].marker, ino |-> call[p].ino,
                 release |-> handle[p].release, dir |-> call[p].dir]
<1>3. CASE /\ ~Moved(p)
           /\ bindings' = [bindings EXCEPT ![Home(p)] = @ \cup {b}]
           /\ writer' = [writer EXCEPT ![Home(p)] = Nobody]
           /\ call' = [call EXCEPT ![p] = NoCall]
           /\ UNCHANGED <<hub, actors, handle, drawn, diskVars, global>>
  <2>1. /\ Home(p) \in Homes /\ handle[p].release \in Releases /\ Path(p) \in Paths
        /\ call[p].ino \in Inos /\ call[p].marker \in Nat \ {0}
        /\ call[p].dir \in 0 .. Len(dirs)
        /\ KnowsRight(call[p])
    BY <1>1, InProgress DEF KnowsRight, In, Call
  <2>2. b \in Binding
    BY <2>1 DEF Binding
  <2>3. b.dir # 0 => dirs[b.dir].ino = b.ino /\ dirs[b.dir].marker = b.marker
    BY <1>1, <2>1 DEF KnowsRight, In
  <2>4. \A c \in bindings[Home(p)] : ~(c.marker = b.marker /\ c.ino = b.ino)
    BY <1>3 DEF Moved, Bindings
  <2>5. bindings \in [Homes -> SUBSET Binding]
    BY DEF IInv, ScopesTyped
  <2>6. bindings' = [bindings EXCEPT ![Home(p)] = @ \cup {b}]
    BY <1>3
  <2> HIDE DEF b
  <2>7. /\ bindings' \in [Homes -> SUBSET Binding]
        /\ \A h \in Homes : \A c \in bindings'[h] : c \in bindings[h] \/ (c = b /\ h = Home(p))
    BY <2>1, <2>2, <2>5, <2>6
  <2>8. NoCall \in Call /\ KnowsRight(NoCall) /\ NoCall.step = "none"
    BY NoCallFits DEF IInv, NoCall
  <2>9. /\ DiskTyped' /\ FillersApart' /\ EvidenceHolds' /\ MarkersIdentify'
        /\ call' \in [Processes -> Call] /\ Call' = Call /\ Binding' = Binding
        /\ call'[p] = NoCall /\ \A o \in Processes : o # p => call'[o] = call[o]
    BY <1>3, <2>8, CallKnows DEF diskVars
  <2>10. ScopesTyped'
    BY <1>3, <2>7, <2>9 DEF IInv, ScopesTyped
  <2>11. BindingsHold'
    BY <1>3, <2>3, <2>7 DEF IInv, BindingsHold, diskVars
  <2>12. OneScopePerRepository'
    <3> SUFFICES ASSUME NEW h \in Homes, NEW c \in bindings'[h], NEW d \in bindings'[h],
                        c.dir # 0, c.dir = d.dir
                 PROVE  c = d
      BY DEF OneScopePerRepository
    <3>1. \A e \in bindings[Home(p)] : e.dir # 0 => e.dir # b.dir
      BY <2>1, <2>3, <2>4 DEF IInv, BindingsHold
    <3>2. QED
      BY <2>7, <3>1 DEF IInv, OneScopePerRepository
  <2>13. writer \in [Homes -> Processes \cup {Nobody}]
    BY DEF IInv, FileTypeOK
  <2>14. \A h \in Homes : writer[h] = p <=> h = Home(p)
    BY <1>1 DEF IInv, SlotsHeld
  <2>15. writer' = [h \in Homes |-> IF writer[h] = p THEN Nobody ELSE writer[h]]
    BY <1>3, <2>13, <2>14
  <2>16. writer' \in [Homes -> Processes \cup {Nobody}] /\ SlotsHeld'
    BY <1>3, <2>15, SlotFreed
  <2>17. FileTypeOK' /\ FilesMade'
    BY <1>3, <2>16 DEF IInv, FileTypeOK, FilesMade
  <2>18. HandlesOpen'
    BY <1>3, <2>8, <2>9 DEF IInv, HandlesOpen, At, In, Home, Path
  <2>19. QED
    BY <2>9, <2>10, <2>11, <2>12, <2>16, <2>17, <2>18 DEF IInv
<1>4. QED
  BY <1>2, <1>3 DEF Bind

LEMMA EnrollGlobalInv ==
  ASSUME IInv, NEW p \in Processes, EnrollGlobal(p)
  PROVE  IInv'
<1>1. Home(p) \in Homes /\ handle[p].release \in Releases
  BY DEF EnrollGlobal, Admitted, At, IInv, HandlesOpen
<1>2. UNCHANGED <<hub, writer, actors, handle, drawn, dirs, at, bindings, call>>
  BY DEF EnrollGlobal, fileVars, diskVars
<1>3. global' \in [Homes -> Releases \cup {0}]
  BY <1>1 DEF EnrollGlobal, IInv, ScopesTyped
<1>4. DiskTyped' /\ ScopesTyped'
  BY <1>2, <1>3 DEF IInv, DiskTyped, ScopesTyped, Call, Binding
<1>5. FileTypeOK' /\ FilesMade' /\ HandlesOpen' /\ SlotsHeld'
  BY <1>2 DEF IInv, FileTypeOK, FilesMade, HandlesOpen, SlotsHeld, At, In, Home, Path
<1>6. FillersApart' /\ EvidenceHolds' /\ MarkersIdentify'
  BY <1>2 DEF IInv, FillersApart, EvidenceHolds, KnowsRight, MarkersIdentify, In
<1>7. BindingsHold' /\ OneScopePerRepository'
  BY <1>2 DEF IInv, BindingsHold, OneScopePerRepository
<1>8. QED
  BY <1>4, <1>5, <1>6, <1>7 DEF IInv

-----------------------------------------------------------------------------
(* The theorems. *)

LEMMA NextInv == IInv /\ [Next]_vars => IInv'
<1> SUFFICES ASSUME IInv, [Next]_vars  PROVE IInv'
  OBVIOUS
<1>1. CASE UNCHANGED vars
  <2>1. UNCHANGED <<hub, writer, actors, handle, drawn, dirs, at, bindings, global, call>>
    BY <1>1 DEF vars, fileVars, diskVars, scopeVars
  <2>2. DiskTyped' /\ ScopesTyped'
    BY <2>1 DEF IInv, DiskTyped, ScopesTyped, Call, Binding
  <2>3. FileTypeOK' /\ FilesMade' /\ HandlesOpen' /\ SlotsHeld'
    BY <2>1 DEF IInv, FileTypeOK, FilesMade, HandlesOpen, SlotsHeld, At, In, Home, Path
  <2>4. FillersApart' /\ EvidenceHolds' /\ MarkersIdentify'
    BY <2>1 DEF IInv, FillersApart, EvidenceHolds, KnowsRight, MarkersIdentify, In
  <2>5. BindingsHold' /\ OneScopePerRepository'
    BY <2>1 DEF IInv, BindingsHold, OneScopePerRepository
  <2>6. QED
    BY <2>2, <2>3, <2>4, <2>5 DEF IInv
<1>2. CASE UserStep
  BY <1>2, UserStepInv
<1>3. ASSUME NEW p \in Processes, FileStep(p)
      PROVE  IInv'
  BY <1>3, FileStepInv
<1>4. ASSUME NEW p \in Processes, Enrolling(p)
      PROVE  IInv'
  BY <1>4, ResolveInv, ReadMarkerInv, BeginInv, CreateMarkerInv, FillMarkerInv,
     RereadMarkerInv, CheckMarkerInv, CheckIdentityInv, BindInv, EnrollGlobalInv
     DEF Enrolling
<1>5. ASSUME NEW p \in Processes, Ends(p)
      PROVE  IInv'
  BY <1>5, EndsInv
<1>6. QED
  BY <1>1, <1>2, <1>3, <1>4, <1>5 DEF Next

(* The invariant holds wherever files, directories and commands are. *)
THEOREM SpecIInv == Spec => []IInv
BY InitInv, NextInv, PTL DEF Spec

(* Every part of the state has its shape, and exactly the call inside a      *)
(* transaction has the writer slot of its hub.                               *)
THEOREM ScopesTypeOK == Spec => []TypeOK
<1>1. IInv => TypeOK
  <2> SUFFICES ASSUME IInv  PROVE TypeOK
    OBVIOUS
  <2>1. \A d \in DOMAIN dirs : dirs[d] \in [ino : Inos, repo : Nat, marker : Nat \cup {Unfilled}]
    BY DirsTyped DEF IInv, Dir
  <2>2. \A h \in Homes : bindings[h] \subseteq Binding
    BY DEF IInv, ScopesTyped
  <2>3. \A p \in Processes : call[p].step \in Calls
    BY CallFields DEF IInv, Call
  <2>4. \A h \in Homes, p \in Processes :
          writer[h] = p <=> Home(p) = h /\ call[p].step \notin {"none", "marker", "begin"}
    BY <2>3 DEF IInv, SlotsHeld, Transaction
  <2>5. QED
    BY <2>1, <2>2, <2>3, <2>4 DEF IInv, TypeOK, DiskTyped, ScopesTyped, Binding
<1>2. QED
  BY <1>1, SpecIInv, PTL

(* LookupRepo answers with the scope of the repository that was enrolled at  *)
(* a path as long as it stands there, and with no other repository's.        *)
THEOREM LookupsFind == Spec => []LookupsStand
<1>1. IInv => LookupsStand
  <2> SUFFICES ASSUME IInv, NEW h \in Homes, NEW b \in bindings[h], b.dir # 0
               PROVE  /\ at[b.path] = b.dir => b \in Answers(h, b.path)
                      /\ b \in Answers(h, b.path) => dirs[at[b.path]].repo = dirs[b.dir].repo
    BY DEF LookupsStand
  <2>1. /\ b.path \in Paths /\ b.marker \in Nat \ {0} /\ b.dir \in 1 .. Len(dirs)
        /\ DOMAIN dirs = 1 .. Len(dirs)
    <3>1. b \in Binding
      BY DEF IInv, ScopesTyped
    <3>2. QED
      BY <3>1, DirsTyped DEF IInv, Binding
  <2>2. dirs[b.dir].ino = b.ino /\ dirs[b.dir].marker = b.marker
    BY DEF IInv, BindingsHold
  <2>3. ASSUME at[b.path] = b.dir  PROVE b \in Answers(h, b.path)
    BY <2>2, <2>3 DEF Answers
  <2>4. ASSUME b \in Answers(h, b.path)  PROVE dirs[at[b.path]].repo = dirs[b.dir].repo
    <3>1. at[b.path] \in DOMAIN dirs /\ dirs[at[b.path]].marker = b.marker
      BY <2>1, <2>4, MarkerRead DEF IInv, Answers
    <3>2. QED
      BY <2>1, <2>2, <3>1 DEF IInv, MarkersIdentify
  <2>5. QED
    BY <2>3, <2>4
<1>2. QED
  BY <1>1, SpecIInv, PTL

(* EnrollRepo never gives a repository a second scope in one home, however   *)
(* its renaming meets the enrolment.                                         *)
THEOREM ScopesStayOne == Spec => []OneScopePerRepository
BY SpecIInv, PTL DEF IInv

(* A hub file keeps its authority and never goes back to an older format,    *)
(* wherever the commands that make and migrate it meet or die.               *)
THEOREM AuthorityKept == Spec => AuthorityStands
<1>1. IInv /\ [Next]_vars =>
        [\A h \in Homes : hub[h].id # 0 =>
            hub'[h].id = hub[h].id /\ hub'[h].version >= hub[h].version]_fileVars
  <2> SUFFICES ASSUME IInv, [Next]_vars, NEW h \in Homes, hub[h].id # 0
               PROVE  hub'[h].id = hub[h].id /\ hub'[h].version >= hub[h].version
    OBVIOUS
  <2>1. /\ hub \in [Homes -> [there : BOOLEAN, version : Nat, id : Nat]]
        /\ hub[h].version \in Nat /\ hub[h].version # 0 /\ hub[h].there
    BY DEF IInv, FileTypeOK, FilesMade
  <2>2. CASE UNCHANGED hub
    BY <2>1, <2>2
  <2>3. ASSUME NEW p \in Processes, CreateFile(p)
        PROVE  hub'[h].id = hub[h].id /\ hub'[h].version >= hub[h].version
    <3>1. Home(p) = h => UNCHANGED hub
      BY <2>1, <2>3 DEF CreateFile, File
    <3>2. Home(p) # h => hub'[h] = hub[h]
      BY <2>1, <2>3 DEF CreateFile
    <3>3. QED
      BY <2>1, <3>1, <3>2
  <2>4. ASSUME NEW p \in Processes, Initialize(p)
        PROVE  hub'[h].id = hub[h].id /\ hub'[h].version >= hub[h].version
    <3>1. Home(p) # h
      BY <2>1, <2>4 DEF Initialize, File
    <3>2. hub'[h] = hub[h]
      BY <2>1, <2>4, <3>1 DEF Initialize
    <3>3. QED
      BY <2>1, <3>2
  <2>5. ASSUME NEW p \in Processes, Migrate(p)
        PROVE  hub'[h].id = hub[h].id /\ hub'[h].version >= hub[h].version
    <3>1. handle[p].release \in Nat
      BY <2>5, FileAssumption DEF IInv, HandlesOpen, Migrate, At
    <3>2. CASE UNCHANGED hub
      BY <2>1, <3>2
    <3>3. CASE /\ File(p).version < handle[p].release
               /\ hub' = [hub EXCEPT ![Home(p)].version = handle[p].release]
      BY <2>1, <3>1, <3>3 DEF File
    <3>4. QED
      BY <2>5, <3>2, <3>3 DEF Migrate
  <2>6. CASE UserStep
    BY <2>2, <2>6 DEF UserStep, fileVars
  <2>7. ASSUME NEW p \in Processes, Enrolling(p) \/ Ends(p)
        PROVE  UNCHANGED hub
    BY <2>7 DEF Enrolling, Resolve, ReadMarker, Begin, CreateMarker, FillMarker, RereadMarker,
       CheckMarker, CheckIdentity, Bind, EnrollGlobal, Refused, InCall, Ends, CloseHub, fileVars
  <2>8. ASSUME NEW p \in Processes, FileStep(p)
        PROVE  UNCHANGED hub \/ CreateFile(p) \/ Initialize(p) \/ Migrate(p)
    BY <2>8 DEF FileStep, Opening, OpenHub, ProbeReady, Probe, EnrollActor
  <2>9. CASE UNCHANGED vars
    BY <2>2, <2>9 DEF vars, fileVars
  <2>10. QED
    BY <2>2, <2>3, <2>4, <2>5, <2>6, <2>7, <2>8, <2>9 DEF Next
<1>2. QED
  BY <1>1, SpecIInv, PTL DEF Spec, AuthorityStands

(* Whatever a program writes into a hub, it writes in the format the file    *)
(* has at that moment, whoever migrates it meanwhile.                        *)
THEOREM RowsFit == Spec => RowsFitFormat
<1> DEFINE Fits(h, release) == release = hub[h].version
           RowsOf(h) ==
             /\ \A a \in ActorIds : actors'[h][a] # actors[h][a] => Fits(h, actors'[h][a])
             /\ \A b \in bindings'[h] \ bindings[h] : Fits(h, b.release)
             /\ global'[h] # global[h] => Fits(h, global'[h])
<1>1. IInv /\ [Next]_vars => [\A h \in Homes : RowsOf(h)]_vars
  <2> SUFFICES ASSUME IInv, Next, NEW h \in Homes
               PROVE  RowsOf(h)
    OBVIOUS
  <2>1. CASE UNCHANGED <<actors, bindings, global>>
    BY <2>1
  <2>2. ASSUME NEW p \in Processes, NEW a \in ActorIds, EnrollActor(p, a),
               UNCHANGED <<bindings, global>>
        PROVE  RowsOf(h)
    <3>1. actors \in [Homes -> [ActorIds -> Releases \cup {0}]]
      BY DEF IInv, FileTypeOK
    <3>2. handle[p].release = hub[Home(p)].version
      BY <2>2 DEF EnrollActor, Admitted, File
    <3>3. actors' = [actors EXCEPT ![Home(p)][a] = handle[p].release]
      BY <2>2 DEF EnrollActor
    <3>4. CASE h = Home(p)
      <4>1. actors'[h] = [actors[h] EXCEPT ![a] = handle[p].release]
        BY <3>1, <3>3, <3>4
      <4>2. \A e \in ActorIds : actors'[h][e] # actors[h][e] => Fits(h, actors'[h][e])
        BY <3>1, <3>2, <3>4, <4>1
      <4>3. QED
        BY <2>2, <4>2
    <3>5. CASE h # Home(p)
      BY <2>2, <3>1, <3>3, <3>5
    <3>6. QED
      BY <3>4, <3>5
  <2>3. ASSUME NEW p \in Processes, EnrollGlobal(p)
        PROVE  RowsOf(h)
    <3>1. handle[p].release = hub[Home(p)].version /\ global \in [Homes -> Releases \cup {0}]
      BY <2>3 DEF EnrollGlobal, Admitted, File, IInv, ScopesTyped
    <3>2. /\ global' = [global EXCEPT ![Home(p)] = handle[p].release]
          /\ UNCHANGED <<actors, bindings>>
      BY <2>3 DEF EnrollGlobal, fileVars
    <3>3. QED
      BY <3>1, <3>2
  <2>4. ASSUME NEW p \in Processes, Bind(p)
        PROVE  RowsOf(h)
    <3> DEFINE b == [path |-> Path(p), marker |-> call[p].marker, ino |-> call[p].ino,
                     release |-> handle[p].release, dir |-> call[p].dir]
    <3>1. CASE Refused(p)
      BY <2>1, <3>1 DEF Refused
    <3>2. CASE /\ bindings' = [bindings EXCEPT ![Home(p)] = @ \cup {b}]
               /\ UNCHANGED <<actors, global>>
      <4>1. Home(p) \in Homes /\ handle[p].release = hub[Home(p)].version
        <5>1. call[p].step \in Transaction /\ ~In(p, "none")
          BY <2>4 DEF Bind, In, Transaction, Calls
        <5>2. Home(p) \in Homes
          BY <5>1, InProgress
        <5>3. QED
          BY <5>1, <5>2 DEF IInv, SlotsHeld
      <4>2. bindings \in [Homes -> SUBSET Binding]
        BY DEF IInv, ScopesTyped
      <4>3. b.release = handle[p].release
        OBVIOUS
      <4> HIDE DEF b
      <4>4. \A c \in bindings'[h] \ bindings[h] : c = b /\ h = Home(p)
        BY <3>2, <4>1, <4>2
      <4>5. QED
        BY <3>2, <4>1, <4>3, <4>4
    <3>3. QED
      BY <2>4, <3>1, <3>2 DEF Bind
  <2>5. CASE UserStep
    BY <2>1, <2>5 DEF UserStep, fileVars
  <2>6. ASSUME NEW p \in Processes, FileStep(p)
        PROVE  \/ UNCHANGED <<actors, bindings, global>>
               \/ \E a \in ActorIds : EnrollActor(p, a) /\ UNCHANGED <<bindings, global>>
    BY <2>6 DEF FileStep, Opening, OpenHub, CreateFile, Initialize, ProbeReady, Migrate, Probe,
       scopeVars
  <2>7. ASSUME NEW p \in Processes, Enrolling(p) \/ Ends(p)
        PROVE  UNCHANGED <<actors, bindings, global>> \/ EnrollGlobal(p) \/ Bind(p)
    BY <2>7 DEF Enrolling, Resolve, ReadMarker, Begin, CreateMarker, FillMarker, RereadMarker,
       CheckMarker, CheckIdentity, Refused, InCall, Ends, CloseHub, fileVars
  <2>8. QED
    BY <2>1, <2>2, <2>3, <2>4, <2>5, <2>6, <2>7 DEF Next
<1>2. QED
  BY <1>1, SpecIInv, PTL DEF Spec, RowsFitFormat
=============================================================================
