------------------------------ MODULE HubFile ------------------------------
(***************************************************************************)
(* The hub file (internal/hubstore/store.go): creating, initialising,      *)
(* probing and migrating it, and the check every write transaction begins  *)
(* with.  The file is created empty, initialised by one transaction and    *)
(* migrated by a second one, by programs of several releases, each of      *)
(* which may fail or be killed between two steps.  A migration is one      *)
(* transaction whatever versions it passes.                                *)
(***************************************************************************)
EXTENDS Integers

CONSTANTS
  Processes,  \* slots for commands of ds
  Nobody,     \* the free writer slot
  Homes,      \* DevSpecs homes, a hub file each
  Nowhere,    \* the home of a slot that runs no command
  Releases,   \* schemaVersion of the programs about
  ActorIds,   \* actors to enrol
  MaxIds      \* bound: random ids drawn

ASSUME FileAssumption ==
  /\ Nobody \notin Processes
  /\ Nowhere \notin Homes
  /\ Releases \subseteq Nat \ {0}
  /\ MaxIds \in Nat

VARIABLES
  hub,     \* the hub file of each home
  writer,  \* who has SQLite's writer slot of each home
  actors,  \* each actor's enrolment in each home: the release that wrote it, or 0
  handle,  \* what each process has opened, or how far it is with that
  drawn    \* random ids drawn so far

fileVars == <<hub, writer, actors, handle, drawn>>

(* version 0: a file in which no transaction has committed. *)
NoFile == [there |-> FALSE, version |-> 0, id |-> 0]
EmptyFile == [NoFile EXCEPT !.there = TRUE]
Closed == [step |-> "closed", home |-> Nowhere, release |-> 0,
           readOnly |-> FALSE, id |-> 0]

FileTypeOK ==
  /\ hub \in [Homes -> [there : BOOLEAN, version : Nat, id : Nat]]
  /\ writer \in [Homes -> Processes \cup {Nobody}]
  /\ actors \in [Homes -> [ActorIds -> Releases \cup {0}]]
  /\ handle \in [Processes ->
       [step : {"closed", "create", "initialize", "wait", "migrate", "probe", "open"},
        home : Homes \cup {Nowhere}, release : Releases \cup {0},
        readOnly : BOOLEAN, id : Nat]]
  /\ drawn \in 0 .. MaxIds

FileInit ==
  /\ hub = [h \in Homes |-> NoFile]
  /\ writer = [h \in Homes |-> Nobody]
  /\ actors = [h \in Homes |-> [a \in ActorIds |-> 0]]
  /\ handle = [p \in Processes |-> Closed]
  /\ drawn = 0

At(p, step) == handle[p].step = step
Home(p) == handle[p].home
File(p) == hub[Home(p)]
Goes(p, step) == handle' = [handle EXCEPT ![p].step = step]

(* randomID never repeats itself. *)
Draws(id) == id = drawn + 1 /\ id <= MaxIds /\ drawn' = id

-----------------------------------------------------------------------------
(* Opening. *)

(* open, as far as its os.Stat.  A reader finds no hub where there is no file. *)
OpenHub(p, h, release, readOnly) ==
  /\ At(p, "closed")
  /\ readOnly => hub[h].there
  /\ handle' = [handle EXCEPT ![p] =
                  [step |-> IF hub[h].there THEN "wait" ELSE "create",
                   home |-> h, release |-> release, readOnly |-> readOnly, id |-> 0]]
  /\ UNCHANGED <<hub, writer, actors, drawn>>

(* Fault: os.Create, which empties a file that has come into being. *)
CreateFile_Truncates(p) ==
  /\ At(p, "create")
  /\ hub' = [hub EXCEPT ![Home(p)] = EmptyFile]
  /\ Goes(p, "initialize")
  /\ UNCHANGED <<writer, actors, drawn>>

(* O_CREATE|O_EXCL: whoever comes second takes the file for an existing one. *)
CreateFile(p) ==
  /\ At(p, "create")
  /\ IF File(p).there
     THEN Goes(p, "wait") /\ UNCHANGED hub
     ELSE Goes(p, "initialize") /\ hub' = [hub EXCEPT ![Home(p)] = EmptyFile]
  /\ UNCHANGED <<writer, actors, drawn>>

(* initialize, its first transaction: version 1 whatever the release.  Its   *)
(* CREATE TABLEs fail on a file that has them.                               *)
Initialize(p) ==
  /\ At(p, "initialize")
  /\ File(p).version = 0
  /\ writer[Home(p)] = Nobody
  /\ \E id \in 1 .. MaxIds :
       /\ Draws(id)
       /\ hub' = [hub EXCEPT ![Home(p)] = [@ EXCEPT !.version = 1, !.id = id]]
       /\ handle' = [handle EXCEPT ![p] = [@ EXCEPT !.step = "migrate", !.id = id]]
  /\ UNCHANGED <<writer, actors>>

(* probeReady, when it finds an authority this release can open; until then *)
(* it polls, and gives up after two seconds (CloseHub).                     *)
ProbeReady(p) ==
  /\ At(p, "wait")
  /\ File(p).version \in 1 .. handle[p].release
  /\ handle' = [handle EXCEPT ![p] =
       [@ EXCEPT !.id = File(p).id,
                 !.step = IF handle[p].readOnly THEN "probe" ELSE "migrate"]]
  /\ UNCHANGED <<hub, writer, actors, drawn>>

(* migrate: an older file moves up to this release in one transaction. *)
Migrate(p) ==
  /\ At(p, "migrate")
  /\ \/ File(p).version = handle[p].release /\ UNCHANGED hub
     \/ /\ File(p).version < handle[p].release
        /\ writer[Home(p)] = Nobody
        /\ hub' = [hub EXCEPT ![Home(p)].version = handle[p].release]
  /\ Goes(p, "probe")
  /\ UNCHANGED <<writer, actors, drawn>>

(* probe: another process may have moved the file on meanwhile. *)
Probe(p) ==
  /\ At(p, "probe")
  /\ File(p).version = handle[p].release
  /\ handle' = [handle EXCEPT ![p] = [@ EXCEPT !.step = "open", !.id = File(p).id]]
  /\ UNCHANGED <<hub, writer, actors, drawn>>

(* Close, an error on the way (a refusing probe, a busy or full disk, the    *)
(* two seconds of probeReady), or a kill: SQLite rolls back what was open.  *)
CloseHub(p) ==
  /\ ~At(p, "closed")
  /\ handle' = [handle EXCEPT ![p] = Closed]
  /\ writer' = [h \in Homes |-> IF writer[h] = p THEN Nobody ELSE writer[h]]
  /\ UNCHANGED <<hub, actors, drawn>>

-----------------------------------------------------------------------------
(* Writing. *)

(* Fault: the handle's own probe is relied on. *)
Admitted_OnceProbed(p) ==
  /\ At(p, "open") /\ ~handle[p].readOnly
  /\ File(p).id = handle[p].id

(* write: what a transaction checks once it has the writer slot. *)
Admitted(p) ==
  /\ At(p, "open") /\ ~handle[p].readOnly
  /\ File(p).id = handle[p].id
  /\ File(p).version = handle[p].release

EnrollActor(p, a) ==
  /\ Admitted(p)
  /\ writer[Home(p)] = Nobody
  /\ actors[Home(p)][a] = 0
  /\ actors' = [actors EXCEPT ![Home(p)][a] = handle[p].release]
  /\ UNCHANGED <<hub, writer, handle, drawn>>

Opening(p) ==
  \/ \E h \in Homes, r \in Releases, ro \in BOOLEAN : OpenHub(p, h, r, ro)
  \/ CreateFile(p)
  \/ Initialize(p)
  \/ ProbeReady(p)
  \/ Migrate(p)
  \/ Probe(p)

-----------------------------------------------------------------------------
(* Properties. *)

(* One authority for each home, forever: however many commands meet an       *)
(* absent, an empty or a half-made file, and wherever they die, nobody gives *)
(* a hub a second identity or takes it back to an older format.              *)
AuthorityStands ==
  [][\A h \in Homes : hub[h].id # 0 =>
        hub'[h].id = hub[h].id /\ hub'[h].version >= hub[h].version]_fileVars
=============================================================================
