------------------------- MODULE ConfigSource_proof -------------------------
(***************************************************************************)
(* Theorems about ConfigSource, for every catalogue, every set of settings *)
(* and any number of threads: the types, that a process at rest has the    *)
(* settings its file holds unless no event was left to tell, and that      *)
(* saves one after the other leave the rows of the subjects chosen last.   *)
(***************************************************************************)
EXTENDS ConfigSource, TLAPS

\* A record of a process with one field replaced.
LEMMA RecordTypes ==
  ASSUME NEW r \in ProcType
  PROVE  /\ \A x \in {"idle", "save", "armed", "fired", "clear", "read",
                      "parse", "diff"} : [r EXCEPT !.pc = x] \in ProcType
         /\ \A x \in Content : [r EXCEPT !.raw = x] \in ProcType
         /\ \A x \in Config : [r EXCEPT !.old = x] \in ProcType
         /\ \A x \in SUBSET Subject : [r EXCEPT !.add = x] \in ProcType
         /\ \A x \in SUBSET Subject : [r EXCEPT !.del = x] \in ProcType
  BY DEF ProcType

LEMMA DefaultType == Default \in Config /\ Config \subseteq Content
  BY RestAssumption DEF Default, Config, Content

LEMMA IdleType == Idle \in ProcType
  BY DefaultType DEF Idle, ProcType

LEMMA SubjectsType ==
  ASSUME NEW macros \in SUBSET Macro
  PROVE  SubjectsFor(macros) \subseteq Subject
  <1>1. \A m \in macros : SubjectsOf[m] \subseteq Subject
    BY CatalogAssumption
  <1>. QED  BY <1>1 DEF SubjectsFor

LEMMA DiffingType ==
  ASSUME NEW old \in Config, NEW new \in Config
  PROVE  Diffing(old, new) \in ProcType
  <1>1. old.regions \subseteq Macro /\ new.regions \subseteq Macro
    BY DEF Config
  <1>2. Added(old, new) \subseteq Subject
    BY <1>1, SubjectsType DEF Added
  <1>3. Removed(old, new) \subseteq Subject
    BY <1>1, SubjectsType DEF Removed
  <1>. QED  BY <1>2, <1>3, IdleType DEF Diffing, Idle, ProcType

\* What a thread may become: a saver never holds what does not parse.
LEMMA BecomeType ==
  ASSUME TypeOK, NEW p \in Process, NEW r \in ProcType, Become(p, r),
         p \in Saver => r.pc \in {"idle", "save", "diff"} /\ r.raw \in Config,
         p \in Timer => r.pc # "save"
  PROVE  /\ proc' \in [Process -> ProcType]
         /\ \A s \in Saver : /\ proc'[s].pc \in {"idle", "save", "diff"}
                             /\ proc'[s].raw \in Config
         /\ \A t \in Timer : proc'[t].pc # "save"
         /\ proc'[p] = r
         /\ \A q \in Process \ {p} : proc'[q] = proc[q]
  BY ThreadAssumption DEF TypeOK, Become, Process

-----------------------------------------------------------------------------
LEMMA TypeInit == Init => TypeOK
  <1>1. Idle.pc = "idle" /\ Idle.raw = Default
    BY DEF Idle
  <1>2. ASSUME Init
        PROVE  /\ proc \in [Process -> ProcType]
               /\ \A s \in Saver : proc[s].pc = "idle" /\ proc[s].raw \in Config
               /\ \A t \in Timer : proc[t].pc = "idle"
    BY <1>1, <1>2, DefaultType, IdleType DEF Init, Process
  <1>3. Init => changes \in 0..MaxChanges
    BY BoundAssumption DEF Init
  <1>4. Init => /\ event \in BOOLEAN /\ missed \in BOOLEAN
                /\ lapsed \in BOOLEAN /\ failed \in BOOLEAN
    BY Zenon DEF Init
  <1>5. Init => /\ lastHash \in Content \cup {None}
                /\ pending \in Timer \cup {None} /\ reader \in Timer \cup {None}
    BY Zenon DEF Init
  <1>6. Init => /\ file \in Content \cup {None} /\ current \in Config
                /\ rows \subseteq Subject
                /\ phase \in {"down", "loaded", "up", "stopped"}
    BY DefaultType DEF Init
  <1>. QED  BY <1>2, <1>3, <1>4, <1>5, <1>6, Zenon DEF TypeOK

LEMMA TypeStep == TypeOK /\ [Next]_vars => TypeOK'
  <1>. SUFFICES ASSUME TypeOK, [Next]_vars PROVE TypeOK'
    OBVIOUS
  <1>. USE DefaultType, IdleType DEF TypeOK, histories, configVars
  <1>1. ASSUME NEW s \in Saver, Post(s) PROVE TypeOK'
    <2>1. PICK new \in Config :
            Become(s, [Idle EXCEPT !.pc = "save", !.raw = new])
      BY <1>1 DEF Post
    <2> DEFINE r == [Idle EXCEPT !.pc = "save", !.raw = new]
    <2>2. r \in ProcType /\ r.pc = "save" /\ r.raw = new
      BY IdleType DEF Idle, ProcType
    <2>3. s \in Process /\ s \notin Timer
      BY ThreadAssumption DEF Process
    <2>. HIDE DEF r
    <2>4. Become(s, r)
      BY <2>1 DEF r
    <2>. QED  BY <1>1, <2>2, <2>3, <2>4, BecomeType, BoundAssumption
              DEF Post, CanChange
  <1>2. ASSUME NEW s \in Saver, Save(s) PROVE TypeOK'
    <2>1. s \in Process /\ s \notin Timer /\ proc[s].raw \in Config
      BY ThreadAssumption DEF Process
    <2>2. Become(s, Diffing(current, proc[s].raw))
      BY <1>2 DEF Save
    <2>3. Diffing(current, proc[s].raw) \in ProcType
      BY <2>1, DiffingType
    <2>4. /\ Diffing(current, proc[s].raw).pc = "diff"
          /\ Diffing(current, proc[s].raw).raw = Default
      BY DEF Diffing, Idle
    <2>. QED  BY <1>2, <2>1, <2>2, <2>3, <2>4, BecomeType
              DEF Save, Replace
  <1>3. ASSUME NEW s \in Saver, SaveFails(s) PROVE TypeOK'
    <2> DEFINE r == Idle
    <2>1. s \in Process /\ s \notin Timer
      BY ThreadAssumption DEF Process
    <2>2. r \in ProcType /\ r.pc # "save" /\ (s \in Saver => r.pc = "idle" /\ r.raw \in Config)
      BY <2>1 DEF ProcType, Idle
    <2>3. Become(s, r)
      BY <1>3 DEF SaveFails
    <2>. HIDE DEF r
    <2>. QED  BY <1>3, <2>1, <2>2, <2>3, BecomeType DEF SaveFails
  <1>4. ASSUME NEW t \in Timer, Fire(t) PROVE TypeOK'
    <2> DEFINE r == [proc[t] EXCEPT !.pc = "fired"]
    <2>1. t \in Process /\ t \notin Saver
      BY ThreadAssumption DEF Process
    <2>2. r \in ProcType /\ r.pc # "save" /\ (t \in Saver => r.pc = "idle" /\ r.raw \in Config)
      BY <2>1 DEF ProcType, Idle
    <2>3. Become(t, r)
      BY <1>4 DEF Fire
    <2>. HIDE DEF r
    <2>. QED  BY <1>4, <2>1, <2>2, <2>3, BecomeType DEF Fire
  <1>5. ASSUME NEW t \in Timer, ClearPending(t) PROVE TypeOK'
    <2> DEFINE r == [proc[t] EXCEPT !.pc = "clear"]
    <2>1. t \in Process /\ t \notin Saver
      BY ThreadAssumption DEF Process
    <2>2. r \in ProcType /\ r.pc # "save" /\ (t \in Saver => r.pc = "idle" /\ r.raw \in Config)
      BY <2>1 DEF ProcType, Idle
    <2>3. Become(t, r)
      BY <1>5 DEF ClearPending
    <2>. HIDE DEF r
    <2>. QED  BY <1>5, <2>1, <2>2, <2>3, BecomeType DEF ClearPending
  <1>6. ASSUME NEW t \in Timer, ReadFile(t) PROVE TypeOK'
    <2> DEFINE r == [proc[t] EXCEPT !.pc = "read", !.raw = file]
    <2>1. t \in Process /\ t \notin Saver
      BY ThreadAssumption DEF Process
    <2>2. r \in ProcType /\ r.pc # "save" /\ (t \in Saver => r.pc = "idle" /\ r.raw \in Config)
      BY <1>6, <2>1 DEF ReadFile, ProcType
    <2>3. Become(t, r)
      BY <1>6 DEF ReadFile
    <2>. HIDE DEF r
    <2>. QED  BY <1>6, <2>1, <2>2, <2>3, BecomeType DEF ReadFile
  <1>7. ASSUME NEW t \in Timer, ReadFails(t) PROVE TypeOK'
    <2> DEFINE r == Idle
    <2>1. t \in Process /\ t \notin Saver
      BY ThreadAssumption DEF Process
    <2>2. r \in ProcType /\ r.pc # "save" /\ (t \in Saver => r.pc = "idle" /\ r.raw \in Config)
      BY <2>1 DEF ProcType, Idle
    <2>3. Become(t, r)
      BY <1>7 DEF ReadFails
    <2>. HIDE DEF r
    <2>. QED  BY <1>7, <2>1, <2>2, <2>3, BecomeType DEF ReadFails
  <1>8. ASSUME NEW t \in Timer, Dedup(t) PROVE TypeOK'
    <2> DEFINE more == [proc[t] EXCEPT !.pc = "parse", !.old = current]
    <2>1. t \in Process /\ t \notin Saver
      BY ThreadAssumption DEF Process
    <2>2. PICK r \in {Idle, more} : Become(t, r)
      BY <1>8 DEF Dedup
    <2>3. r \in ProcType /\ r.pc # "save"
      BY <2>1 DEF ProcType, Idle
    <2>4. missed' \in BOOLEAN
      BY <1>8, Zenon DEF Dedup
    <2>. HIDE DEF more
    <2>. QED  BY <1>8, <2>1, <2>2, <2>3, <2>4, BecomeType DEF Dedup
  <1>9. ASSUME NEW t \in Timer, ParseFails(t) PROVE TypeOK'
    <2> DEFINE r == Idle
    <2>1. t \in Process /\ t \notin Saver
      BY ThreadAssumption DEF Process
    <2>2. r \in ProcType /\ r.pc # "save" /\ (t \in Saver => r.pc = "idle" /\ r.raw \in Config)
      BY <2>1 DEF ProcType, Idle
    <2>3. Become(t, r)
      BY <1>9 DEF ParseFails
    <2>4. proc[t].raw \in Content
      BY <2>1 DEF ProcType
    <2>. HIDE DEF r
    <2>. QED  BY <1>9, <2>1, <2>2, <2>3, <2>4, BecomeType DEF ParseFails
  <1>10. ASSUME NEW t \in Timer, Swap(t) PROVE TypeOK'
    <2> DEFINE r == IF proc[t].raw = proc[t].old THEN Idle
                    ELSE Diffing(proc[t].old, proc[t].raw)
    <2>1. t \in Process /\ t \notin Saver /\ proc[t].old \in Config
      BY ThreadAssumption DEF Process, ProcType
    <2>2. proc[t].raw \in Config
      BY <1>10 DEF Swap, Parses
    <2>3. r \in ProcType /\ r.pc # "save"
      BY <2>1, <2>2, DiffingType DEF Diffing, Idle
    <2>4. Become(t, r)
      BY <1>10 DEF Swap
    <2>. HIDE DEF r
    <2>. QED  BY <1>10, <2>1, <2>2, <2>3, <2>4, BecomeType DEF Swap
  <1>11. ASSUME NEW p \in Process, InsertRow(p) PROVE TypeOK'
    <2>0. PICK x \in proc[p].add : /\ rows' = rows \cup {x}
                                 /\ Become(p, [proc[p] EXCEPT !.add = @ \ {x}])
      BY <1>11 DEF InsertRow
    <2> DEFINE r == [proc[p] EXCEPT !.add = @ \ {x}]
    <2>1. r \in ProcType
      BY DEF ProcType, Idle
    <2>2. /\ r.pc \in {"idle", "diff"}
          /\ p \in Saver => r.raw \in Config
      BY <1>11 DEF InsertRow, ProcType, Idle
    <2>3. Become(p, r)
      BY <2>0
    <2>4. rows' \subseteq Subject
      BY <1>11, <2>0 DEF InsertRow, ProcType
    <2>. HIDE DEF r
    <2>. QED  BY <1>11, <2>1, <2>2, <2>3, <2>4, BecomeType DEF InsertRow
  <1>12. ASSUME NEW p \in Process, DeleteRow(p) PROVE TypeOK'
    <2>0. PICK x \in proc[p].del : /\ rows' = rows \ {x}
                                 /\ Become(p, [proc[p] EXCEPT !.del = @ \ {x}])
      BY <1>12 DEF DeleteRow
    <2> DEFINE r == [proc[p] EXCEPT !.del = @ \ {x}]
    <2>1. r \in ProcType
      BY DEF ProcType, Idle
    <2>2. /\ r.pc \in {"idle", "diff"}
          /\ p \in Saver => r.raw \in Config
      BY <1>12 DEF DeleteRow, ProcType, Idle
    <2>3. Become(p, r)
      BY <2>0
    <2>4. rows' \subseteq Subject
      BY <1>12, <2>0 DEF DeleteRow, ProcType
    <2>. HIDE DEF r
    <2>. QED  BY <1>12, <2>1, <2>2, <2>3, <2>4, BecomeType DEF DeleteRow
  <1>13. ASSUME NEW p \in Process, EndDiff(p) PROVE TypeOK'
    <2> DEFINE r == Idle
    <2>1. r \in ProcType
      BY DEF ProcType, Idle
    <2>2. /\ r.pc \in {"idle", "diff"}
          /\ p \in Saver => r.raw \in Config
      BY <1>13 DEF EndDiff, ProcType, Idle
    <2>3. Become(p, r)
      BY <1>13 DEF EndDiff
    <2>4. rows' \subseteq Subject
      BY <1>13 DEF EndDiff, ProcType
    <2>. HIDE DEF r
    <2>. QED  BY <1>13, <2>1, <2>2, <2>3, <2>4, BecomeType DEF EndDiff
  <1>14. ASSUME NEW p \in Process, DiffFails(p) PROVE TypeOK'
    <2> DEFINE r == Idle
    <2>1. r \in ProcType
      BY DEF ProcType, Idle
    <2>2. /\ r.pc \in {"idle", "diff"}
          /\ p \in Saver => r.raw \in Config
      BY <1>14 DEF DiffFails, ProcType, Idle
    <2>3. Become(p, r)
      BY <1>14 DEF DiffFails
    <2>4. rows' \subseteq Subject
      BY <1>14 DEF DiffFails, ProcType
    <2>. HIDE DEF r
    <2>. QED  BY <1>14, <2>1, <2>2, <2>3, <2>4, BecomeType DEF DiffFails
  <1>15. ASSUME NEW t \in Timer, OnEvent(t) PROVE TypeOK'
    <2>1. t \in Process /\ t \notin Saver
      BY ThreadAssumption DEF Process
    <2>2. /\ [Idle EXCEPT !.pc = "armed"] \in ProcType
          /\ [Idle EXCEPT !.pc = "armed"].pc = "armed"
          /\ Idle.pc = "idle" /\ Idle.raw = Default
      BY RecordTypes DEF Idle
    <2>. QED  BY <1>15, <2>1, <2>2 DEF OnEvent, Arm, Process
  <1>16. CASE Edit
    BY <1>16, BoundAssumption DEF Edit, CanChange
  <1>17. CASE Load
    <2>1. current' \in Config
      BY <1>17 DEF Load, Parses
    <2>2. SubjectsFor(current'.regions) \subseteq Subject
      BY <2>1, SubjectsType DEF Config
    <2>3. rows' \subseteq Subject
      BY <1>17, <2>2 DEF Load, Bootstrap
    <2>4. missed' \in BOOLEAN /\ lapsed' \in BOOLEAN /\ failed' \in BOOLEAN
      BY <1>17, Zenon DEF Load
    <2>5. lastHash' \in Content \cup {None}
      BY <1>17, Zenon DEF Load
    <2>. QED  BY <1>17, <2>1, <2>3, <2>4, <2>5 DEF Load
  <1>18. CASE StartObserver
    BY <1>18 DEF StartObserver
  <1>19. CASE Stop
    <2>1. Idle.pc = "idle" /\ Idle.raw = Default
      BY DEF Idle
    <2>. QED  BY <1>19, <2>1 DEF Stop, Process
  <1>20. CASE Exit
    <2>1. Idle.pc = "idle" /\ Idle.raw = Default
      BY DEF Idle
    <2>. QED  BY <1>20, <2>1 DEF Exit, Process
  <1>21. CASE UNCHANGED vars
    BY <1>21 DEF vars
  <1>. QED
    BY <1>1, <1>2, <1>3, <1>4, <1>5, <1>6, <1>7, <1>8, <1>9, <1>10, <1>11, <1>12, <1>13, <1>14, <1>15, <1>16, <1>17, <1>18, <1>19, <1>20, <1>21
    DEF Next, SaverStep, TimerStep, DiffStep, Observe

\* Every variable keeps its type, for any number of savers and timers: what a
\* save writes and what the snapshot holds always parses.
THEOREM TypeCorrect == Spec => []TypeOK
  BY TypeInit, TypeStep, PTL DEF Spec

-----------------------------------------------------------------------------
(* The snapshot of a process at rest.                                      *)

\* A reload that has not read the file yet is ahead.
Waits(t) == proc[t].pc \in {"armed", "fired", "clear"}
Waiting == event \/ \E t \in Timer : Waits(t)

\* A hash of settings that parse is the hash of the snapshot.
HashIsCurrent == Parses(lastHash) => current = lastHash

\* What the last reader has in hand is what the file holds, or it will be read
\* again ...
ReloadIsFresh ==
  phase = "up" /\ ~missed /\ InFlight(reader) =>
    proc[reader].raw = file \/ Waiting

\* ... and a snapshot that is behind the file has one of the two ahead of it.
StaleIsKnown ==
  phase = "up" /\ ~missed /\ Parses(file) /\ current # file =>
    InFlight(reader) \/ Waiting

\* Nothing runs before the observer does.
LoadedIsFresh ==
  /\ phase \in {"down", "loaded"} => \A p \in Process : proc[p].pc = "idle"
  /\ phase = "loaded" /\ ~missed /\ Parses(file) => current = file

IInv == TypeOK /\ HashIsCurrent /\ ReloadIsFresh /\ StaleIsKnown /\ LoadedIsFresh

LEMMA IInvInit == Init => IInv
  <1>. SUFFICES ASSUME Init PROVE IInv
    OBVIOUS
  <1>1. TypeOK
    BY TypeInit
  <1>2. ~Parses(None)
    BY DefaultType, AbsentAssumption DEF Parses
  <1>. QED  BY <1>1, <1>2 DEF Init, IInv, HashIsCurrent, ReloadIsFresh,
                              StaleIsKnown, LoadedIsFresh, Idle

\* A step that changes none of file, snapshot, hash and history, after which
\* every reload waits for its read, or is past it with the same content, as
\* before.
LEMMA QuietReload ==
  ASSUME IInv, TypeOK',
         UNCHANGED <<file, event, current, lastHash, phase, reader, missed>>,
         \A t \in Timer : /\ Waits(t) => Waits(t)'
                          /\ InFlight(t) <=> InFlight(t)'
                          /\ InFlight(t) => proc'[t].raw = proc[t].raw,
         phase \in {"down", "loaded"} => UNCHANGED proc
  PROVE  IInv'
  <1>1. Waiting => Waiting'
    BY DEF Waiting
  <1>2. /\ InFlight(reader)' <=> InFlight(reader)
        /\ InFlight(reader) => proc'[reader].raw = proc[reader].raw
    BY DEF InFlight
  <1>3. HashIsCurrent' /\ LoadedIsFresh'
    BY DEF IInv, HashIsCurrent, LoadedIsFresh
  <1>4. ReloadIsFresh'
    BY <1>1, <1>2 DEF IInv, ReloadIsFresh
  <1>5. StaleIsKnown'
    BY <1>1, <1>2 DEF IInv, StaleIsKnown
  <1>. QED  BY <1>3, <1>4, <1>5 DEF IInv

\* A step of one thread that is no step of a reload, or leaves it where it is.
LEMMA QuietThread ==
  ASSUME IInv, TypeOK', NEW p \in Process, NEW r, Become(p, r),
         UNCHANGED <<file, event, current, lastHash, phase, reader, missed>>,
         p \in Timer => /\ Waits(p) => r.pc \in {"armed", "fired", "clear"}
                        /\ ~InFlight(p) /\ r.pc \notin {"read", "parse"},
         phase \notin {"down", "loaded"}
  PROVE  IInv'
  <1>1. proc'[p] = r /\ \A q \in Process \ {p} : proc'[q] = proc[q]
    BY DEF Become, IInv, TypeOK
  <1>2. ASSUME NEW t \in Timer
        PROVE  /\ Waits(t) => Waits(t)'
               /\ InFlight(t) <=> InFlight(t)'
               /\ InFlight(t) => proc'[t].raw = proc[t].raw
    BY <1>1 DEF Process, Waits, InFlight
  <1>. QED  BY <1>2, QuietReload

\* The end of a reload that has read the file.
LEMMA ReloadEnds ==
  ASSUME IInv, TypeOK', NEW t \in Timer, NEW r, Become(t, r),
         r.pc \notin {"read", "parse"}, InFlight(t),
         UNCHANGED <<file, event, phase, reader>>,
         HashIsCurrent', missed => missed',
         phase \notin {"down", "loaded"},
         reader = t /\ Parses(file) /\ proc[t].raw = file /\ ~missed' => current' = file,
         reader # t /\ ~InFlight(reader) /\ ~missed' => current' = current
  PROVE  IInv'
  <1>1. /\ proc'[t] = r /\ \A q \in Process \ {t} : proc'[q] = proc[q]
        /\ t \in Process
    BY DEF Become, IInv, TypeOK, Process
  <1>2. \A q \in Timer : Waits(q) => Waits(q)'
    BY <1>1 DEF Waits, InFlight, Process
  <1>3. Waiting => Waiting'
    BY <1>2 DEF Waiting
  <1>4. ~InFlight(t)' /\ (reader # t => (InFlight(reader)' <=> InFlight(reader)))
    BY <1>1 DEF InFlight, Process
  <1>5. reader # t /\ InFlight(reader) => proc'[reader].raw = proc[reader].raw
    BY <1>1 DEF InFlight, Process
  <1>6. ReloadIsFresh'
    BY <1>3, <1>4, <1>5 DEF IInv, ReloadIsFresh
  <1>7. StaleIsKnown'
    <2>1. CASE reader = t
      BY <1>3, <2>1 DEF IInv, ReloadIsFresh, StaleIsKnown
    <2>2. CASE reader # t
      BY <1>3, <1>4, <2>2 DEF IInv, StaleIsKnown
    <2>. QED  BY <2>1, <2>2
  <1>8. LoadedIsFresh'
    BY DEF LoadedIsFresh
  <1>. QED  BY <1>6, <1>7, <1>8 DEF IInv

LEMMA IInvStep == IInv /\ [Next]_vars => IInv'
  <1>. SUFFICES ASSUME IInv, [Next]_vars PROVE IInv'
    OBVIOUS
  <1>0. /\ TypeOK /\ TypeOK' /\ Idle.pc = "idle"
        /\ \A p \in Process : proc[p].pc # "idle" => phase \notin {"down", "loaded"}
    BY TypeStep DEF IInv, LoadedIsFresh, Idle
  <1>. USE DEF histories, configVars
  <1>1. ASSUME NEW s \in Saver, Post(s) PROVE IInv'
    <2>1. PICK new \in Config : Become(s, [Idle EXCEPT !.pc = "save", !.raw = new])
      BY <1>1 DEF Post
    <2>2. s \in Process /\ s \notin Timer
      BY ThreadAssumption DEF Process
    <2>. QED  BY <1>0, <1>1, <2>1, <2>2, QuietThread DEF Post
  <1>2. ASSUME NEW s \in Saver, Save(s) PROVE IInv'
    <2>1. s \in Process /\ s \notin Timer
      BY ThreadAssumption DEF Process
    <2>2. phase \notin {"down", "loaded"}
      BY <1>0, <1>2, <2>1 DEF Save
    <2>3. /\ file' = proc[s].raw /\ current' = proc[s].raw
          /\ lastHash' = proc[s].raw /\ phase' = phase
          /\ phase = "up" => event'
      BY <1>2 DEF Save, Replace
    <2>4. phase' = "up" => Waiting'
      BY <2>3 DEF Waiting
    <2>. QED  BY <1>0, <2>2, <2>3, <2>4 DEF IInv, HashIsCurrent, ReloadIsFresh,
                                            StaleIsKnown, LoadedIsFresh
  <1>3. ASSUME NEW s \in Saver, SaveFails(s) PROVE IInv'
    <2>1. s \in Process /\ s \notin Timer
      BY ThreadAssumption DEF Process
    <2>. QED  BY <1>0, <1>3, <2>1, QuietThread DEF SaveFails
  <1>4. ASSUME NEW t \in Timer, Fire(t) PROVE IInv'
    <2>1. t \in Process /\ [proc[t] EXCEPT !.pc = "fired"].pc = "fired"
      BY <1>0 DEF Process, TypeOK, ProcType
    <2>. QED  BY <1>0, <1>4, <2>1, QuietThread DEF Fire, InFlight
  <1>5. ASSUME NEW t \in Timer, ClearPending(t) PROVE IInv'
    <2>1. t \in Process /\ [proc[t] EXCEPT !.pc = "clear"].pc = "clear"
      BY <1>0 DEF Process, TypeOK, ProcType
    <2>. QED  BY <1>0, <1>5, <2>1, QuietThread DEF ClearPending, InFlight
  <1>6. ASSUME NEW t \in Timer, ReadFile(t) PROVE IInv'
    <2>1. /\ t \in Process
          /\ proc'[t].pc = "read" /\ proc'[t].raw = file
      BY <1>0, <1>6 DEF ReadFile, TypeOK, ProcType, Become, Process
    <2>2. phase \notin {"down", "loaded"}
      BY <1>0, <1>6, <2>1 DEF ReadFile
    <2>3. InFlight(reader)' /\ proc'[reader'].raw = file'
      BY <1>6, <2>1 DEF ReadFile, InFlight
    <2>. QED  BY <1>0, <1>6, <2>2, <2>3 DEF ReadFile, IInv, HashIsCurrent, ReloadIsFresh,
                                            StaleIsKnown, LoadedIsFresh
  <1>7. ASSUME NEW t \in Timer, ReadFails(t) PROVE IInv'
    <2>1. t \in Process /\ phase \notin {"down", "loaded"}
      BY <1>0, <1>7 DEF ReadFails, Process
    <2>2. missed' = TRUE /\ UNCHANGED <<current, lastHash, phase>>
      BY <1>7 DEF ReadFails
    <2>. QED  BY <1>0, <2>1, <2>2 DEF IInv, HashIsCurrent, ReloadIsFresh,
                                      StaleIsKnown, LoadedIsFresh
  <1>8. ASSUME NEW t \in Timer, Dedup(t) PROVE IInv'
    <2> DEFINE more == [proc[t] EXCEPT !.pc = "parse", !.old = current]
    <2>1. t \in Process /\ InFlight(t) /\ phase \notin {"down", "loaded"}
      BY <1>0, <1>8 DEF Dedup, Process, InFlight
    <2>2. CASE /\ SameSample(proc[t].raw, lastHash) /\ Become(t, Idle)
               /\ missed' = (missed \/ (reader = t /\ proc[t].raw # lastHash))
      <3>1. HashIsCurrent'
        BY <1>8 DEF Dedup, IInv, HashIsCurrent
      <3>2. reader = t /\ Parses(file) /\ proc[t].raw = file /\ ~missed' => current' = file
        BY <1>8, <2>2 DEF Dedup, IInv, HashIsCurrent
      <3>3. missed => missed'
        BY <2>2
      <3>. QED  BY <1>0, <1>8, <2>1, <2>2, <3>1, <3>2, <3>3, ReloadEnds DEF Dedup
    <2>3. CASE Become(t, more) /\ missed' = missed
      <3>1. /\ more.pc = "parse" /\ more.raw = proc[t].raw
            /\ proc'[t] = more /\ \A q \in Process \ {t} : proc'[q] = proc[q]
        BY <1>0, <2>1, <2>3 DEF TypeOK, ProcType, Become
      <3>. HIDE DEF more
      <3>2. ASSUME NEW q \in Timer
            PROVE  /\ Waits(q) => Waits(q)'
                   /\ InFlight(q) <=> InFlight(q)'
                   /\ InFlight(q) => proc'[q].raw = proc[q].raw
        BY <2>1, <3>1 DEF Waits, InFlight, Process
      <3>. QED  BY <1>0, <1>8, <2>1, <2>3, <3>2, QuietReload DEF Dedup
    <2>. QED  BY <1>8, <2>2, <2>3, Zenon DEF Dedup
  <1>9. ASSUME NEW t \in Timer, ParseFails(t) PROVE IInv'
    <2>1. t \in Process /\ InFlight(t) /\ phase \notin {"down", "loaded"}
      BY <1>0, <1>9 DEF ParseFails, Process, InFlight
    <2>2. HashIsCurrent'
      BY <1>9 DEF ParseFails, HashIsCurrent, Parses
    <2>3. ~(Parses(file) /\ proc[t].raw = file)
      BY <1>9 DEF ParseFails
    <2>. QED  BY <1>0, <1>9, <2>1, <2>2, <2>3, ReloadEnds DEF ParseFails
  <1>10. ASSUME NEW t \in Timer, Swap(t) PROVE IInv'
    <2> DEFINE r == IF proc[t].raw = proc[t].old THEN Idle
                    ELSE Diffing(proc[t].old, proc[t].raw)
    <2>1. t \in Process /\ InFlight(t) /\ phase \notin {"down", "loaded"}
      BY <1>0, <1>10 DEF Swap, Process, InFlight
    <2>2. /\ current' = proc[t].raw /\ lastHash' = proc[t].raw
          /\ missed' = (missed \/ Overtaken(t))
      BY <1>10 DEF Swap
    <2>3. HashIsCurrent'
      BY <2>2 DEF HashIsCurrent
    <2>4. Become(t, r) /\ r.pc \notin {"read", "parse"}
      BY <1>0, <1>10 DEF Swap, Diffing, Idle
    <2>. HIDE DEF r
    <2>5. /\ missed => missed'
          /\ reader # t /\ ~InFlight(reader) => missed'
      BY <2>2 DEF Overtaken
    <2>6. UNCHANGED <<file, event, phase, reader>>
      BY <1>10 DEF Swap
    <2>. QED  BY <1>0, <2>1, <2>2, <2>3, <2>4, <2>5, <2>6, ReloadEnds
  <1>11. ASSUME NEW p \in Process, InsertRow(p) PROVE IInv'
    <2>1. PICK x \in proc[p].add : Become(p, [proc[p] EXCEPT !.add = @ \ {x}])
      BY <1>11 DEF InsertRow
    <2>2. /\ [proc[p] EXCEPT !.add = @ \ {x}].pc = "diff" /\ proc[p].pc = "diff"
          /\ phase \notin {"down", "loaded"}
      BY <1>0, <1>11 DEF InsertRow, TypeOK, ProcType
    <2>. QED  BY <1>0, <1>11, <2>1, <2>2, QuietThread DEF InsertRow, Waits, InFlight
  <1>12. ASSUME NEW p \in Process, DeleteRow(p) PROVE IInv'
    <2>1. PICK x \in proc[p].del : Become(p, [proc[p] EXCEPT !.del = @ \ {x}])
      BY <1>12 DEF DeleteRow
    <2>2. /\ [proc[p] EXCEPT !.del = @ \ {x}].pc = "diff" /\ proc[p].pc = "diff"
          /\ phase \notin {"down", "loaded"}
      BY <1>0, <1>12 DEF DeleteRow, TypeOK, ProcType
    <2>. QED  BY <1>0, <1>12, <2>1, <2>2, QuietThread DEF DeleteRow, Waits, InFlight
  <1>13. ASSUME NEW p \in Process, EndDiff(p) PROVE IInv'
    BY <1>0, <1>13, QuietThread DEF EndDiff, Waits, InFlight
  <1>14. ASSUME NEW p \in Process, DiffFails(p) PROVE IInv'
    BY <1>0, <1>14, QuietThread DEF DiffFails, Waits, InFlight
  <1>15. ASSUME NEW t \in Timer, OnEvent(t) PROVE IInv'
    <2>1. t \in Process
      BY DEF Process
    <2>2. Waiting'
      BY <1>0, <1>15, <2>1 DEF OnEvent, Arm, Waiting, Waits, Idle
    <2>. QED  BY <1>0, <1>15, <2>2 DEF OnEvent, IInv, HashIsCurrent, ReloadIsFresh,
                                       StaleIsKnown, LoadedIsFresh
  <1>16. CASE Edit
    <2>1. phase' = "up" => Waiting'
      BY <1>16 DEF Edit, Waiting
    <2>. QED  BY <1>0, <1>16, <2>1 DEF Edit, IInv, HashIsCurrent, ReloadIsFresh,
                                       StaleIsKnown, LoadedIsFresh
  <1>17. CASE Load
    <2>1. ~Parses(None)
      BY AbsentAssumption, DefaultType DEF Parses
    <2>. QED  BY <1>0, <1>17, <2>1 DEF Load, IInv, HashIsCurrent, ReloadIsFresh,
                                       StaleIsKnown, LoadedIsFresh
  <1>18. CASE StartObserver
    <2>1. ~InFlight(reader)
      BY <1>18 DEF StartObserver, IInv, LoadedIsFresh, Process, InFlight
    <2>2. ~InFlight(reader)'
      BY <1>18, <2>1 DEF StartObserver, InFlight
    <2>. QED  BY <1>0, <1>18, <2>2 DEF StartObserver, IInv, HashIsCurrent, ReloadIsFresh,
                                       StaleIsKnown, LoadedIsFresh
  <1>19. CASE Stop
    BY <1>0, <1>19 DEF Stop, IInv, HashIsCurrent, ReloadIsFresh, StaleIsKnown,
                       LoadedIsFresh
  <1>20. CASE Exit
    <2>1. \A p \in Process : proc'[p].pc = "idle"
      BY <1>0, <1>20 DEF Exit
    <2>. QED  BY <1>0, <1>20, <2>1 DEF Exit, IInv, HashIsCurrent, ReloadIsFresh,
                                       StaleIsKnown, LoadedIsFresh
  <1>21. CASE UNCHANGED vars
    BY <1>0, <1>21, QuietReload DEF vars, Waits, InFlight
  <1>. QED
    BY <1>1, <1>2, <1>3, <1>4, <1>5, <1>6, <1>7, <1>8, <1>9, <1>10, <1>11, <1>12, <1>13, <1>14, <1>15, <1>16, <1>17, <1>18, <1>19, <1>20, <1>21
    DEF Next, SaverStep, TimerStep, DiffStep, Observe

LEMMA IInvSettles == IInv => SettledIsCurrent
  <1>. SUFFICES ASSUME IInv, Settled, ~missed, Parses(file) PROVE current = file
    BY DEF SettledIsCurrent
  <1>1. ~Waiting /\ ~InFlight(reader)
    BY DEF Settled, Waiting, Waits, InFlight, Process
  <1>. QED  BY <1>1 DEF Settled, IInv, StaleIsKnown

\* However saves, edits, crashes and any number of reloads interleave, and
\* whatever lies behind the sample that is hashed, a process with nothing under
\* way has in memory what its file says - or no event was left to tell it: the
\* file could not be read or was edited before the observer started, the edit
\* lies behind the sample, or an older reload swapped last.
THEOREM SettledSnapshot == Spec => []SettledIsCurrent
  BY IInvInit, IInvStep, IInvSettles, PTL DEF Spec

-----------------------------------------------------------------------------
(* The rows of the subscribed subjects.                                    *)

\* Nothing runs before the observer does.
DownIsIdle ==
  phase \in {"down", "loaded"} => \A p \in Process : proc[p].pc = "idle"

Diffs(p) == proc[p].pc = "diff"

\* Changes of the snapshot that do not overlap leave one diff at most ...
OneDiff == \A p, q \in Process : Diffs(p) /\ Diffs(q) => p = q

\* ... a subject of the snapshot has its row or the diff will insert it ...
RowOrAdd ==
  \A x \in SubjectsFor(current.regions) :
    x \in rows \/ \E p \in Process : Diffs(p) /\ x \in proc[p].add

\* ... and the diff deletes no row of the snapshot.
DeletesSpare ==
  \A p \in Process : Diffs(p) => proc[p].del \cap SubjectsFor(current.regions) = {}

Serial == phase # "down" /\ ~lapsed /\ ~failed

RowsInv == DownIsIdle /\ (Serial => OneDiff /\ RowOrAdd /\ DeletesSpare)

\* Between two settings the diff inserts what is new and spares what stays.
LEMMA DiffCovers ==
  ASSUME NEW old, NEW new
  PROVE  /\ \A x \in SubjectsFor(new.regions) :
              x \in SubjectsFor(old.regions) \/ x \in Diffing(old, new).add
         /\ Diffing(old, new).del \cap SubjectsFor(new.regions) = {}
         /\ Diffing(old, new).pc = "diff"
  <1>1. /\ Diffing(old, new).add = Added(old, new)
        /\ Diffing(old, new).del = Removed(old, new)
        /\ Diffing(old, new).pc = "diff"
    BY DEF Diffing, Idle
  <1>2. ASSUME NEW x \in SubjectsFor(new.regions), x \notin SubjectsFor(old.regions)
        PROVE  x \in Added(old, new)
    <2>1. PICK m \in new.regions : x \in SubjectsOf[m]
      BY DEF SubjectsFor
    <2>2. m \notin old.regions
      BY <1>2, <2>1 DEF SubjectsFor
    <2>. QED  BY <2>1, <2>2 DEF Added, SubjectsFor
  <1>. QED  BY <1>1, <1>2 DEF Removed

\* A step that leaves the diffs, the snapshot and the rows alone.
LEMMA QuietRows ==
  ASSUME RowsInv,
         \A p \in Process : (Diffs(p) \/ proc'[p].pc = "diff") => proc'[p] = proc[p],
         current' = current, rows' = rows, lapsed' = lapsed, failed' = failed,
         phase' # "down" => phase # "down", DownIsIdle'
  PROVE  RowsInv'
  <1>. SUFFICES ASSUME Serial' PROVE (OneDiff /\ RowOrAdd /\ DeletesSpare)'
    BY DEF RowsInv
  <1>1. OneDiff /\ RowOrAdd /\ DeletesSpare
    BY Zenon DEF RowsInv, Serial
  <1>2. \A p \in Process : Diffs(p)' <=> Diffs(p)
    BY DEF Diffs
  <1>3. OneDiff'
    BY <1>1, <1>2 DEF OneDiff
  <1>4. RowOrAdd'
    BY <1>1, <1>2 DEF RowOrAdd
  <1>5. DeletesSpare'
    BY <1>1, <1>2 DEF DeletesSpare
  <1>. QED  BY <1>3, <1>4, <1>5

\* One process becomes something else, and neither was nor is in a diff.
LEMMA QuietBecome ==
  ASSUME RowsInv, TypeOK, NEW p \in Process, NEW r, Become(p, r),
         ~Diffs(p), r.pc # "diff",
         current' = current, rows' = rows, lapsed' = lapsed, failed' = failed,
         phase' = phase, proc[p].pc # "idle" \/ phase = "up"
  PROVE  RowsInv'
  <1>1. proc'[p] = r /\ \A q \in Process \ {p} : proc'[q] = proc[q]
    BY DEF Become, TypeOK
  <1>2. DownIsIdle'
    BY DEF RowsInv, DownIsIdle
  <1>. QED  BY <1>1, <1>2, QuietRows DEF Diffs

\* The snapshot is replaced while no diff runs, with the diff from the old one.
LEMMA SwapRows ==
  ASSUME RowsInv, TypeOK, NEW p \in Process, NEW new,
         Become(p, Diffing(current, new)), current' = new, rows' = rows,
         phase' = phase, phase \notin {"down", "loaded"}, failed' = failed,
         ~lapsed' => ~lapsed /\ ~DiffRuns
  PROVE  RowsInv'
  <1>1. proc'[p] = Diffing(current, new) /\ \A q \in Process \ {p} : proc'[q] = proc[q]
    BY DEF Become, TypeOK
  <1>2. DownIsIdle'
    BY DEF DownIsIdle
  <1>. SUFFICES ASSUME Serial' PROVE (OneDiff /\ RowOrAdd /\ DeletesSpare)'
    BY <1>2 DEF RowsInv
  <1>3. RowOrAdd /\ \A q \in Process : ~Diffs(q)
    BY Zenon DEF RowsInv, Serial, DiffRuns, Diffs
  <1>4. SubjectsFor(current.regions) \subseteq rows
    BY <1>3 DEF RowOrAdd
  <1>5. \A q \in Process : Diffs(q)' => q = p
    BY <1>1, <1>3 DEF Diffs
  <1>6. Diffs(p)'
    BY <1>1, DiffCovers DEF Diffs
  <1>7. RowOrAdd'
    BY <1>1, <1>4, <1>6, DiffCovers DEF RowOrAdd
  <1>8. DeletesSpare'
    BY <1>1, <1>5, DiffCovers DEF DeletesSpare
  <1>. QED  BY <1>5, <1>7, <1>8 DEF OneDiff

LEMMA RowsInit == Init => RowsInv
  BY DEF Init, RowsInv, DownIsIdle, Serial, Idle

LEMMA RowsStep == TypeOK /\ RowsInv /\ [Next]_vars => RowsInv'
  <1>. SUFFICES ASSUME TypeOK, RowsInv, [Next]_vars PROVE RowsInv'
    OBVIOUS
  <1>. USE DEF histories, configVars
  <1>0. /\ Idle.pc = "idle"
        /\ \A p \in Process : proc[p].pc # "idle" => phase \notin {"down", "loaded"}
    BY DEF Idle, RowsInv, DownIsIdle
  <1>1. ASSUME NEW s \in Saver, Post(s) PROVE RowsInv'
    <2>1. PICK new \in Config :
            Become(s, [Idle EXCEPT !.pc = "save", !.raw = new])
      BY <1>1 DEF Post
    <2>2. [Idle EXCEPT !.pc = "save", !.raw = new].pc = "save"
      BY DEF Idle
    <2>. QED  BY <1>1, <2>1, <2>2, QuietBecome DEF Post, Diffs, Process
  <1>2. ASSUME NEW s \in Saver, Save(s) PROVE RowsInv'
    <2>1. s \in Process
      BY DEF Process
    <2>2. ~lapsed' => ~lapsed /\ ~DiffRuns
      BY <1>2, Zenon DEF Save
    <2>. QED  BY <1>0, <1>2, <2>1, <2>2, SwapRows DEF Save, Replace
  <1>3. ASSUME NEW s \in Saver, SaveFails(s) PROVE RowsInv'
    BY <1>0, <1>3, QuietBecome DEF SaveFails, Diffs, Process
  <1>4. ASSUME NEW t \in Timer, Fire(t) PROVE RowsInv'
    <2>1. t \in Process /\ [proc[t] EXCEPT !.pc = "fired"].pc = "fired"
      BY DEF Process, TypeOK, ProcType
    <2>. QED  BY <1>4, <2>1, QuietBecome DEF Fire, Diffs
  <1>5. ASSUME NEW t \in Timer, ClearPending(t) PROVE RowsInv'
    <2>1. t \in Process /\ [proc[t] EXCEPT !.pc = "clear"].pc = "clear"
      BY DEF Process, TypeOK, ProcType
    <2>. QED  BY <1>5, <2>1, QuietBecome DEF ClearPending, Diffs
  <1>6. ASSUME NEW t \in Timer, ReadFile(t) PROVE RowsInv'
    <2>1. t \in Process /\ [proc[t] EXCEPT !.pc = "read", !.raw = file].pc = "read"
      BY DEF Process, TypeOK, ProcType
    <2>. QED  BY <1>6, <2>1, QuietBecome DEF ReadFile, Diffs
  <1>7. ASSUME NEW t \in Timer, ReadFails(t) PROVE RowsInv'
    BY <1>0, <1>7, QuietBecome DEF ReadFails, Diffs, Process
  <1>8. ASSUME NEW t \in Timer, Dedup(t) PROVE RowsInv'
    <2> DEFINE more == [proc[t] EXCEPT !.pc = "parse", !.old = current]
    <2>1. t \in Process /\ more.pc = "parse"
      BY DEF Process, TypeOK, ProcType
    <2>. HIDE DEF more
    <2>2. Become(t, Idle) \/ Become(t, more)
      BY <1>8 DEF Dedup, more
    <2>. QED  BY <1>0, <1>8, <2>1, <2>2, QuietBecome DEF Dedup, Diffs
  <1>9. ASSUME NEW t \in Timer, ParseFails(t) PROVE RowsInv'
    BY <1>0, <1>9, QuietBecome DEF ParseFails, Diffs, Process
  <1>10. ASSUME NEW t \in Timer, Swap(t) PROVE RowsInv'
    <2>1. t \in Process /\ phase \notin {"down", "loaded"}
      BY <1>0, <1>10 DEF Swap, Process
    <2>2. ~lapsed' => ~lapsed /\ ~DiffRuns /\ proc[t].old = current
      BY <1>10, Zenon DEF Swap
    <2>3. CASE lapsed'
      <3>1. DownIsIdle' /\ ~Serial'
        BY <1>10, <2>1, <2>3 DEF Swap, DownIsIdle, Serial
      <3>. QED  BY <3>1 DEF RowsInv
    <2>4. CASE ~lapsed' /\ proc[t].raw = current
      <3>1. Become(t, Idle) /\ current' = current /\ lapsed' = lapsed
        <4>1. lapsed = FALSE
          BY <2>2, <2>4, Zenon DEF TypeOK
        <4>2. lapsed' = FALSE
          BY <1>10, <2>4, Zenon DEF Swap
        <4>. QED  BY <1>10, <2>2, <2>4, <4>1, <4>2 DEF Swap
      <3>. QED  BY <1>0, <1>10, <2>1, <3>1, QuietBecome DEF Swap, Diffs
    <2>5. CASE ~lapsed' /\ proc[t].raw # current
      <3>1. Become(t, Diffing(current, proc[t].raw))
        BY <1>10, <2>2, <2>5 DEF Swap
      <3>. QED  BY <1>10, <2>1, <2>2, <3>1, SwapRows DEF Swap
    <2>. QED  BY <2>3, <2>4, <2>5
  <1>11. ASSUME NEW p \in Process, InsertRow(p) PROVE RowsInv'
    <2>1. PICK x \in proc[p].add : /\ rows' = rows \cup {x}
                                   /\ Become(p, [proc[p] EXCEPT !.add = @ \ {x}])
      BY <1>11 DEF InsertRow
    <2>2. /\ proc'[p].pc = "diff" /\ proc'[p].add = proc[p].add \ {x}
          /\ proc'[p].del = proc[p].del
          /\ \A q \in Process \ {p} : proc'[q] = proc[q]
      BY <1>11, <2>1 DEF InsertRow, TypeOK, ProcType, Become
    <2>3. phase' = phase /\ DownIsIdle'
      BY <1>0, <1>11 DEF InsertRow, DownIsIdle
    <2>4. \A q \in Process : Diffs(q)' <=> Diffs(q)
      BY <1>11, <2>2 DEF InsertRow, Diffs
    <2>5. Serial' => Serial
      BY <1>11 DEF InsertRow, Serial
    <2>6. OneDiff => OneDiff'
      BY <2>4 DEF OneDiff
    <2>7. RowOrAdd => RowOrAdd'
      BY <1>11, <2>1, <2>2, <2>4 DEF RowOrAdd, InsertRow
    <2>8. DeletesSpare => DeletesSpare'
      BY <1>11, <2>2, <2>4 DEF DeletesSpare, InsertRow
    <2>. QED  BY <2>3, <2>5, <2>6, <2>7, <2>8 DEF RowsInv
  <1>12. ASSUME NEW p \in Process, DeleteRow(p) PROVE RowsInv'
    <2>1. PICK x \in proc[p].del : /\ rows' = rows \ {x}
                                   /\ Become(p, [proc[p] EXCEPT !.del = @ \ {x}])
      BY <1>12 DEF DeleteRow
    <2>2. /\ proc'[p].pc = "diff" /\ proc'[p].add = proc[p].add
          /\ proc'[p].del = proc[p].del \ {x}
          /\ \A q \in Process \ {p} : proc'[q] = proc[q]
      BY <1>12, <2>1 DEF DeleteRow, TypeOK, ProcType, Become
    <2>3. phase' = phase /\ DownIsIdle'
      BY <1>0, <1>12 DEF DeleteRow, DownIsIdle
    <2>4. \A q \in Process : Diffs(q)' <=> Diffs(q)
      BY <1>12, <2>2 DEF DeleteRow, Diffs
    <2>5. Serial' => Serial
      BY <1>12 DEF DeleteRow, Serial
    <2>6. OneDiff => OneDiff'
      BY <2>4 DEF OneDiff
    <2>7. DeletesSpare => x \notin SubjectsFor(current.regions)
      BY <1>12, <2>1 DEF DeletesSpare, DeleteRow, Diffs
    <2>8. DeletesSpare /\ RowOrAdd => RowOrAdd'
      BY <1>12, <2>1, <2>2, <2>4, <2>7 DEF RowOrAdd, DeleteRow
    <2>9. DeletesSpare => DeletesSpare'
      BY <1>12, <2>2, <2>4 DEF DeletesSpare, DeleteRow
    <2>. QED  BY <2>3, <2>5, <2>6, <2>8, <2>9 DEF RowsInv
  <1>13. ASSUME NEW p \in Process, EndDiff(p) PROVE RowsInv'
    <2>1. /\ proc'[p].pc = "idle" /\ proc[p].add = {}
          /\ \A q \in Process \ {p} : proc'[q] = proc[q]
      BY <1>0, <1>13 DEF EndDiff, TypeOK, Become
    <2>2. phase' = phase /\ DownIsIdle'
      BY <1>0, <1>13 DEF EndDiff, DownIsIdle
    <2>3. \A q \in Process : Diffs(q)' <=> Diffs(q) /\ q # p
      BY <2>1 DEF Diffs
    <2>4. Serial' => Serial
      BY <1>13 DEF EndDiff, Serial
    <2>5. OneDiff => OneDiff'
      BY <2>3 DEF OneDiff
    <2>6. RowOrAdd => RowOrAdd'
      BY <1>13, <2>1, <2>3 DEF RowOrAdd, EndDiff
    <2>7. DeletesSpare => DeletesSpare'
      BY <1>13, <2>1, <2>3 DEF DeletesSpare, EndDiff
    <2>. QED  BY <2>2, <2>4, <2>5, <2>6, <2>7 DEF RowsInv
  <1>14. ASSUME NEW p \in Process, DiffFails(p) PROVE RowsInv'
    <2>1. phase' = phase /\ DownIsIdle'
      BY <1>0, <1>14 DEF DiffFails, DownIsIdle
    <2>2. ~Serial'
      BY <1>14, Zenon DEF DiffFails, Serial
    <2>. QED  BY <2>1, <2>2 DEF RowsInv
  <1>15. ASSUME NEW t \in Timer, OnEvent(t) PROVE RowsInv'
    <2>1. t \in Process /\ [Idle EXCEPT !.pc = "armed"].pc = "armed"
      BY DEF Process, Idle
    <2>2. \A q \in Process :
            (Diffs(q) \/ proc'[q].pc = "diff") => proc'[q] = proc[q]
      BY <1>0, <1>15, <2>1 DEF OnEvent, Arm, Diffs
    <2>3. DownIsIdle'
      BY <1>15 DEF OnEvent, DownIsIdle
    <2>. QED  BY <1>15, <2>2, <2>3, QuietRows DEF OnEvent
  <1>16. CASE Edit
    <2>1. DownIsIdle'
      BY <1>16 DEF Edit, RowsInv, DownIsIdle
    <2>. QED  BY <1>16, <2>1, QuietRows DEF Edit
  <1>17. CASE Load
    <2>1. DownIsIdle' /\ \A q \in Process : proc'[q].pc = "idle"
      BY <1>17 DEF Load, RowsInv, DownIsIdle
    <2>2. SubjectsFor(current.regions)' \subseteq rows'
      BY <1>17 DEF Load, Bootstrap
    <2>3. OneDiff' /\ DeletesSpare'
      BY <2>1 DEF OneDiff, DeletesSpare, Diffs
    <2>4. RowOrAdd'
      BY <2>2 DEF RowOrAdd
    <2>. QED  BY <2>1, <2>3, <2>4 DEF RowsInv
  <1>18. CASE StartObserver
    <2>1. DownIsIdle'
      BY <1>18 DEF StartObserver, DownIsIdle
    <2>. QED  BY <1>18, <2>1, QuietRows DEF StartObserver
  <1>19. CASE Stop
    <2>1. DownIsIdle'
      BY <1>19 DEF Stop, DownIsIdle
    <2>2. \A q \in Process :
            (Diffs(q) \/ proc'[q].pc = "diff") => proc'[q] = proc[q]
      BY <1>0, <1>19 DEF Stop, Diffs
    <2>. QED  BY <1>19, <2>1, <2>2, QuietRows DEF Stop
  <1>20. CASE Exit
    <2>1. DownIsIdle' /\ ~Serial'
      BY <1>0, <1>20 DEF Exit, DownIsIdle, Serial
    <2>. QED  BY <2>1 DEF RowsInv
  <1>21. CASE UNCHANGED vars
    <2>1. DownIsIdle'
      BY <1>21 DEF vars, RowsInv, DownIsIdle
    <2>. QED  BY <1>21, <2>1, QuietRows DEF vars
  <1>. QED
    BY <1>1, <1>2, <1>3, <1>4, <1>5, <1>6, <1>7, <1>8, <1>9, <1>10, <1>11, <1>12,
       <1>13, <1>14, <1>15, <1>16, <1>17, <1>18, <1>19, <1>20, <1>21
    DEF Next, SaverStep, TimerStep, DiffStep, Observe

\* However posts, edits, reloads, crashes and restarts interleave, when nothing
\* is under way and no two diffs overlapped and none failed since the start,
\* every subject of a subscribed region has its row: for any number of timers,
\* and whatever the hash is taken of.
THEOREM RowsAreKept == Spec => []SerialDiffsKeepRows
  <1>1. Init => TypeOK /\ RowsInv
    BY TypeInit, RowsInit
  <1>2. TypeOK /\ RowsInv /\ [Next]_vars => (TypeOK /\ RowsInv)'
    BY TypeStep, RowsStep
  <1>3. RowsInv => SerialDiffsKeepRows
    <2>. SUFFICES ASSUME RowsInv, Settled, ~lapsed, ~failed
                  PROVE  SubjectsFor(current.regions) \subseteq rows
      BY DEF SerialDiffsKeepRows
    <2>1. Serial /\ \A p \in Process : ~Diffs(p)
      BY DEF Settled, Serial, Diffs
    <2>. QED  BY <2>1 DEF RowsInv, RowOrAdd
  <1>. QED  BY <1>1, <1>2, <1>3, PTL DEF Spec
=============================================================================
