------------------------- MODULE PaperLedgerProofs -------------------------
(***************************************************************************)
(* Proofs about PaperLedger when every process runs under the lock of the  *)
(* daily cycle, for any number of processes, keys and payloads.  The       *)
(* invariant says how far the append in progress, or a dead one, has       *)
(* brought the files ahead of the manifest.                                *)
(***************************************************************************)
EXTENDS PaperLedger, TLAPS

Listed == Len(files) = Len(manifest.events)

\* What an append u may rely on.
PhaseInv(u) ==
    /\ u.phase \in {"asked", "numbered", "checked"} =>
          /\ Listed
          /\ \A i \in DOMAIN files : files[i].key # u.event.key
    /\ u.phase # "asked" => u.sequence = Len(manifest.events) + 1
    /\ u.phase \in {"installed", "listed"} =>
          /\ Len(files) = u.sequence
          /\ files[u.sequence] = u.event
    /\ u.phase = "listed" => u.old = manifest.events

OneProcess == \A p, q \in Processes : process[p] # None /\ process[q] # None => p = q

ProcessInv == \A p \in Processes : process[p] # None => PhaseInv(process[p])

ReturnedInv == \A e \in returned : \E i \in DOMAIN manifest.events : manifest.events[i].event = e

IInv ==
    /\ TypeOK
    /\ OneProcess
    /\ ProcessInv
    /\ Counted
    /\ ListedEventsAreThere
    /\ EffectsHappenOnce
    /\ ReturnedInv

-----------------------------------------------------------------------------

LEMMA InitEstablishes == Init => IInv
<1> SUFFICES ASSUME Init PROVE IInv
    OBVIOUS
<1>1. <<>> \in Seq(Event) /\ <<>> \in Seq(Entry) /\ Len(<<>>) = 0 /\ DOMAIN <<>> = {}
    OBVIOUS
<1>2. TypeOK
    BY <1>1 DEF Init, TypeOK, Manifest
<1>3. OneProcess /\ ProcessInv /\ ReturnedInv
    BY DEF Init, OneProcess, ProcessInv, ReturnedInv
<1>4. Counted /\ ListedEventsAreThere /\ EffectsHappenOnce
    BY <1>1 DEF Init, Counted, ListedEventsAreThere, EffectsHappenOnce
<1> QED  BY <1>2, <1>3, <1>4 DEF IInv

(***************************************************************************)
(* Under the lock the append that advances is the only one, so it is       *)
(* enough to look at its own phase.                                        *)
(***************************************************************************)
LEMMA AdvanceKeeps ==
    ASSUME IInv, NEW p \in Processes, NEW STATE u, u \in Process,
           \A q \in Processes \ {p} : process[q] = None,
           process' = [process EXCEPT ![p] = u],
           UNCHANGED <<files, manifest, returned>>, PhaseInv(u)
    PROVE  IInv'
<1>1. process'[p] = u /\ \A q \in Processes \ {p} : process'[q] = None
    BY DEF IInv, TypeOK
<1>2. TypeOK'
    BY DEF IInv, TypeOK
<1>3. OneProcess' /\ ProcessInv'
    BY <1>1 DEF OneProcess, ProcessInv, PhaseInv, Listed
<1>4. (Counted /\ ListedEventsAreThere /\ EffectsHappenOnce /\ ReturnedInv)'
    BY DEF IInv, Counted, ListedEventsAreThere, EffectsHappenOnce, ReturnedInv
<1> QED  BY <1>2, <1>3, <1>4 DEF IInv

LEMMA OthersAreIdle ==
    ASSUME IInv, NEW p \in Processes, process[p] # None
    PROVE  \A q \in Processes \ {p} : process[q] = None
BY DEF IInv, OneProcess

LEMMA AskForEventKeeps ==
    ASSUME Locked, IInv, NEW p \in Processes, NEW e \in Event, AskForEvent(p, e)
    PROVE  IInv'
<1> DEFINE u == [event |-> e, phase |-> "asked", sequence |-> 0, old |-> <<>>]
<1>1. \A q \in Processes : process[q] = None
    BY DEF AskForEvent, Idle
<1>2. CASE \A i \in DOMAIN files : files[i].key # e.key
    <2>1. u \in Process
        BY DEF Process
    <2>2. process' = [process EXCEPT ![p] = u] /\ UNCHANGED <<files, manifest, returned>>
        BY <1>2 DEF AskForEvent
    <2>3. PhaseInv(u)
        BY <1>2 DEF PhaseInv, AskForEvent, Readable, Counted, Listed
    <2> HIDE DEF u
    <2> QED  BY <1>1, <2>1, <2>2, <2>3, AdvanceKeeps
<1>3. CASE ~ \A i \in DOMAIN files : files[i].key # e.key
    <2>1. /\ UNCHANGED <<files, manifest, process>>
          /\ returned' = returned \cup {e}
          /\ \E i \in DOMAIN files : files[i] = e
        BY <1>3 DEF AskForEvent
    <2>2. \E i \in DOMAIN manifest.events : manifest.events[i].event = e
        <3>1. PICK i \in DOMAIN files : files[i] = e
            BY <2>1
        <3>2. i \in DOMAIN manifest.events
            BY <3>1 DEF AskForEvent, Readable, Counted, IInv, TypeOK, Manifest
        <3>3. manifest.events[i] = [sequence |-> i, event |-> e]
            BY <3>1 DEF AskForEvent, Readable
        <3> QED  BY <3>2, <3>3
    <2>3. TypeOK' /\ ReturnedInv'
        BY <2>1, <2>2 DEF IInv, TypeOK, ReturnedInv
    <2>4. (OneProcess /\ ProcessInv /\ Counted /\ ListedEventsAreThere /\ EffectsHappenOnce)'
        BY <2>1 DEF IInv, OneProcess, ProcessInv, PhaseInv, Listed, Counted,
                    ListedEventsAreThere, EffectsHappenOnce
    <2> QED  BY <2>3, <2>4 DEF IInv
<1> QED  BY <1>2, <1>3

LEMMA NumberEventKeeps ==
    ASSUME IInv, NEW p \in Processes, NumberEvent(p)
    PROVE  IInv'
<1> DEFINE u == [process[p] EXCEPT !.phase = "numbered", !.sequence = Len(files) + 1]
<1>1. process[p] # None /\ process[p].phase = "asked"
    BY DEF NumberEvent, At
<1>2. process[p] \in Process /\ PhaseInv(process[p])
    BY <1>1 DEF IInv, TypeOK, ProcessInv
<1>3. u \in Process /\ u.phase = "numbered" /\ u.sequence = Len(files) + 1 /\ u.event = process[p].event
    <2>1. Len(files) + 1 \in Nat
        BY DEF IInv, TypeOK
    <2> QED  BY <1>2, <2>1 DEF Process
<1>4. process' = [process EXCEPT ![p] = u] /\ UNCHANGED <<files, manifest, returned>>
    BY DEF NumberEvent
<1> HIDE DEF u
<1>5. PhaseInv(u)
    BY <1>1, <1>2, <1>3 DEF PhaseInv, Listed
<1> QED  BY <1>1, <1>3, <1>4, <1>5, AdvanceKeeps, OthersAreIdle

LEMMA CheckPathKeeps ==
    ASSUME IInv, NEW p \in Processes, CheckPath(p)
    PROVE  IInv'
<1> DEFINE u == [process[p] EXCEPT !.phase = "checked"]
<1>1. process[p] # None /\ process[p].phase = "numbered"
    BY DEF CheckPath, At
<1>2. process[p] \in Process /\ PhaseInv(process[p])
    BY <1>1 DEF IInv, TypeOK, ProcessInv
<1>3. process[p].sequence \notin DOMAIN files
    BY <1>1, <1>2 DEF PhaseInv, Listed, IInv, TypeOK, Manifest
<1>4. /\ u \in Process /\ u.phase = "checked"
      /\ u.sequence = process[p].sequence /\ u.event = process[p].event
    BY <1>2 DEF Process
<1>5. process' = [process EXCEPT ![p] = u] /\ UNCHANGED <<files, manifest, returned>>
    BY <1>3 DEF CheckPath
<1> HIDE DEF u
<1>6. PhaseInv(u)
    BY <1>1, <1>2, <1>4 DEF PhaseInv, Listed
<1> QED  BY <1>1, <1>4, <1>5, <1>6, AdvanceKeeps, OthersAreIdle

LEMMA InstallEventKeeps ==
    ASSUME IInv, NEW p \in Processes, InstallEvent(p)
    PROVE  IInv'
<1> DEFINE e == process[p].event
           n == process[p].sequence
           u == [process[p] EXCEPT !.phase = "installed"]
<1>1. process[p] # None /\ process[p].phase = "checked"
    BY DEF InstallEvent, At
<1>2. process[p] \in Process /\ PhaseInv(process[p])
    BY <1>1 DEF IInv, TypeOK, ProcessInv
<1>3. /\ files \in Seq(Event) /\ manifest \in Manifest /\ e \in Event
      /\ Len(files) = Len(manifest.events) /\ n = Len(files) + 1
      /\ \A i \in DOMAIN files : files[i].key # e.key
    BY <1>1, <1>2 DEF PhaseInv, Listed, IInv, TypeOK, Process
<1>4. /\ u \in Process /\ u.phase = "installed" /\ u.sequence = n /\ u.event = e
    BY <1>2 DEF Process
<1>5. files' = Append(files, e)
    BY <1>3 DEF InstallEvent
<1>6. process' = [process EXCEPT ![p] = u] /\ UNCHANGED <<manifest, returned>>
    BY DEF InstallEvent
<1>7. /\ files' \in Seq(Event) /\ Len(files') = Len(files) + 1
      /\ DOMAIN files' = DOMAIN files \cup {Len(files) + 1}
      /\ \A i \in DOMAIN files : files'[i] = files[i]
      /\ files'[Len(files) + 1] = e
    BY <1>3, <1>5
<1> HIDE DEF u
<1>8. process'[p] = u /\ \A q \in Processes \ {p} : process'[q] = None
    BY <1>1, <1>6, OthersAreIdle DEF IInv, TypeOK
<1>9. TypeOK'
    BY <1>4, <1>6, <1>7 DEF IInv, TypeOK
<1>10. /\ process'[p].phase = "installed" /\ process'[p].event = e
       /\ process'[p].sequence = Len(manifest'.events) + 1
       /\ Len(files') = process'[p].sequence /\ files'[process'[p].sequence] = e
    BY <1>3, <1>4, <1>6, <1>7, <1>8
<1>11. OneProcess' /\ ProcessInv'
    BY <1>8, <1>10 DEF OneProcess, ProcessInv, PhaseInv, Listed
<1>12. EffectsHappenOnce'
    BY <1>3, <1>7 DEF EffectsHappenOnce, IInv
<1>13. ListedEventsAreThere'
    <2>1. DOMAIN manifest.events = DOMAIN files
        BY <1>3 DEF Manifest
    <2> QED  BY <1>3, <1>6, <1>7, <2>1 DEF ListedEventsAreThere, IInv, Manifest
<1>14. Counted' /\ ReturnedInv'
    BY <1>6 DEF Counted, ReturnedInv, IInv
<1> QED  BY <1>9, <1>11, <1>12, <1>13, <1>14 DEF IInv

LEMMA ReadManifestKeeps ==
    ASSUME IInv, NEW p \in Processes, ReadManifest(p)
    PROVE  IInv'
<1> DEFINE u == [process[p] EXCEPT !.phase = "listed", !.old = manifest.events]
<1>1. process[p] # None /\ process[p].phase = "installed"
    BY DEF ReadManifest, At
<1>2. process[p] \in Process /\ PhaseInv(process[p])
    BY <1>1 DEF IInv, TypeOK, ProcessInv
<1>3. /\ u \in Process /\ u.phase = "listed" /\ u.old = manifest.events
      /\ u.sequence = process[p].sequence /\ u.event = process[p].event
    <2>1. manifest.events \in Seq(Entry)
        BY DEF IInv, TypeOK, Manifest
    <2> QED  BY <1>2, <2>1 DEF Process
<1>4. process' = [process EXCEPT ![p] = u] /\ UNCHANGED <<files, manifest, returned>>
    BY DEF ReadManifest
<1> HIDE DEF u
<1>5. PhaseInv(u)
    BY <1>1, <1>2, <1>3 DEF PhaseInv
<1> QED  BY <1>1, <1>3, <1>4, <1>5, AdvanceKeeps, OthersAreIdle

(***************************************************************************)
(* What listing an event does, in terms of the listed and the present      *)
(* events; used for the invariant and for the refinement.                  *)
(***************************************************************************)
LEMMA ListEventExtends ==
    ASSUME IInv, NEW p \in Processes, ListEvent(p),
           NEW e, e = process[p].event, NEW n, n = process[p].sequence
    PROVE  /\ e \in Event /\ n \in Nat /\ n = Len(manifest.events) + 1
           /\ Len(files) = n /\ files[n] = e
           /\ manifest.events \in Seq(Entry)
           /\ manifest' = [event_count |-> n,
                           events |-> Append(manifest.events, [sequence |-> n, event |-> e])]
           /\ returned' = returned \cup {e} /\ UNCHANGED files
           /\ process' = [process EXCEPT ![p] = None]
<1>1. process[p] # None /\ process[p].phase = "listed"
    BY DEF ListEvent, At
<1>2. process[p] \in Process /\ PhaseInv(process[p])
    BY <1>1 DEF IInv, TypeOK, ProcessInv
<1>3. process[p].old = manifest.events /\ n = Len(manifest.events) + 1
      /\ Len(files) = n /\ files[n] = e
    BY <1>1, <1>2 DEF PhaseInv
<1>4. e \in Event /\ n \in Nat
    BY <1>2 DEF Process
<1>5. manifest.events \in Seq(Entry)
    BY DEF IInv, TypeOK, Manifest
<1> QED  BY <1>3, <1>4, <1>5 DEF ListEvent

LEMMA ListEventKeeps ==
    ASSUME IInv, NEW p \in Processes, ListEvent(p)
    PROVE  IInv'
<1> DEFINE e == process[p].event
           n == process[p].sequence
           entry == [sequence |-> n, event |-> e]
<1>1. /\ e \in Event /\ n \in Nat /\ n = Len(manifest.events) + 1
      /\ Len(files) = n /\ files[n] = e
      /\ manifest.events \in Seq(Entry)
      /\ manifest' = [event_count |-> n, events |-> Append(manifest.events, entry)]
      /\ returned' = returned \cup {e} /\ UNCHANGED files
      /\ process' = [process EXCEPT ![p] = None]
    BY ListEventExtends
<1>2. process[p] # None
    BY DEF ListEvent, At
<1>3. entry \in Entry /\ entry.event = e /\ entry.sequence = n
    BY <1>1 DEF Entry
<1> HIDE DEF e, n
<1>4. /\ manifest'.event_count = n /\ manifest'.events = Append(manifest.events, entry)
      /\ manifest'.events \in Seq(Entry) /\ manifest' \in Manifest
      /\ Len(manifest'.events) = n
      /\ DOMAIN manifest'.events = DOMAIN manifest.events \cup {n}
      /\ \A i \in DOMAIN manifest.events : manifest'.events[i] = manifest.events[i]
      /\ manifest'.events[n] = entry
    <2> HIDE DEF entry
    <2> QED  BY <1>1, <1>3 DEF Manifest
<1>5. \A q \in Processes : process'[q] = None
    BY <1>1, <1>2, OthersAreIdle DEF IInv, TypeOK
<1>6. TypeOK'
    BY <1>1, <1>4 DEF IInv, TypeOK
<1>7. OneProcess' /\ ProcessInv'
    BY <1>5 DEF OneProcess, ProcessInv
<1>8. Counted'
    BY <1>4 DEF Counted
<1>9. ListedEventsAreThere'
    <2>1. \A i \in DOMAIN manifest'.events : manifest'.events[i] = [sequence |-> i, event |-> files[i]]
        BY <1>1, <1>4 DEF IInv, ListedEventsAreThere
    <2> QED  BY <1>1, <1>4, <2>1 DEF ListedEventsAreThere
<1>10. EffectsHappenOnce'
    BY <1>1 DEF EffectsHappenOnce, IInv
<1>11. ReturnedInv'
    <2> SUFFICES ASSUME NEW f \in returned'
                 PROVE  \E i \in DOMAIN manifest'.events : manifest'.events[i].event = f
        BY DEF ReturnedInv
    <2>1. CASE f = e
        BY <2>1, <1>3, <1>4
    <2>2. CASE f \in returned
        BY <2>2, <1>4 DEF IInv, ReturnedInv
    <2> QED  BY <1>1, <2>1, <2>2
<1> QED  BY <1>6, <1>7, <1>8, <1>9, <1>10, <1>11 DEF IInv

LEMMA StopKeeps ==
    ASSUME IInv, NEW p \in Processes, Stop(p)
    PROVE  IInv'
<1>1. process' = [process EXCEPT ![p] = None] /\ UNCHANGED <<files, manifest, returned>>
    BY DEF Stop
<1>2. \A q \in Processes : process'[q] = None
    BY <1>1, OthersAreIdle DEF IInv, TypeOK, Stop
<1>3. TypeOK' /\ OneProcess' /\ ProcessInv'
    BY <1>1, <1>2 DEF IInv, TypeOK, OneProcess, ProcessInv
<1>4. (Counted /\ ListedEventsAreThere /\ EffectsHappenOnce /\ ReturnedInv)'
    BY <1>1 DEF IInv, Counted, ListedEventsAreThere, EffectsHappenOnce, ReturnedInv
<1> QED  BY <1>3, <1>4 DEF IInv

LEMMA StutterKeeps ==
    ASSUME IInv, UNCHANGED vars
    PROVE  IInv'
BY DEF IInv, vars, TypeOK, OneProcess, ProcessInv, PhaseInv, Listed, Counted,
       ListedEventsAreThere, EffectsHappenOnce, ReturnedInv

LEMMA StepKeeps == ASSUME Locked, IInv, [Next]_vars PROVE IInv'
<1>1. CASE UNCHANGED vars
    BY <1>1, StutterKeeps
<1>2. CASE Next
    <2>1. PICK p \in Processes :
             \/ \E e \in Event : AskForEvent(p, e)
             \/ NumberEvent(p) \/ CheckPath(p) \/ InstallEvent(p)
             \/ ReadManifest(p) \/ ListEvent(p) \/ Stop(p)
        BY <1>2 DEF Next
    <2> QED  BY <2>1, AskForEventKeeps, NumberEventKeeps, CheckPathKeeps, InstallEventKeeps,
                ReadManifestKeeps, ListEventKeeps, StopKeeps
<1> QED  BY <1>1, <1>2

(***************************************************************************)
(* Under the lock the invariant holds of every reachable ledger.           *)
(***************************************************************************)
THEOREM LedgerInductive == ASSUME Locked PROVE Spec => []IInv
BY InitEstablishes, StepKeeps, PTL DEF Spec

(***************************************************************************)
(* Under the lock an idempotency key never takes effect twice: two event   *)
(* files never carry the same key (append_event).                          *)
(***************************************************************************)
THEOREM EffectsHappenOnceHolds == ASSUME Locked PROVE Spec => []EffectsHappenOnce
<1>1. IInv => EffectsHappenOnce
    BY DEF IInv
<1> QED  BY <1>1, LedgerInductive, PTL

(***************************************************************************)
(* Under the lock the manifest lists exactly the event files, or all but   *)
(* the last of them (append_event interrupted between its two files).      *)
(***************************************************************************)
THEOREM ListedEventsAreThereHolds == ASSUME Locked PROVE Spec => []ListedEventsAreThere
<1>1. IInv => ListedEventsAreThere
    BY DEF IInv
<1> QED  BY <1>1, LedgerInductive, PTL

-----------------------------------------------------------------------------

\* The log that EventLog sees.
log == [i \in DOMAIN manifest.events |-> manifest.events[i].event]

LEMMA InitRefines == Init => Log!LogInit
<1> SUFFICES ASSUME Init PROVE Log!LogInit
    OBVIOUS
<1>1. manifest.events = <<>> /\ returned = {}
    BY DEF Init
<1>2. log = <<>>
    BY <1>1 DEF log
<1> QED  BY <1>1, <1>2 DEF Log!LogInit, log

LEMMA AppendOfEvents ==
    ASSUME NEW s \in Seq(Entry), NEW entry \in Entry
    PROVE  [i \in DOMAIN Append(s, entry) |-> Append(s, entry)[i].event]
           = Append([i \in DOMAIN s |-> s[i].event], entry.event)
<1> DEFINE t == [i \in DOMAIN s |-> s[i].event]
           a == Append(s, entry)
<1>1. t \in Seq(Event) /\ Len(t) = Len(s) /\ DOMAIN t = DOMAIN s
    <2>1. \A i \in 1..Len(s) : s[i].event \in Event
        <3>1. \A i \in 1..Len(s) : s[i] \in Entry
            OBVIOUS
        <3> QED  BY <3>1 DEF Entry
    <2> QED  BY <2>1
<1>2. /\ a \in Seq(Entry) /\ Len(a) = Len(s) + 1 /\ DOMAIN a = 1..(Len(s) + 1)
      /\ \A i \in 1..Len(s) : a[i] = s[i]
      /\ a[Len(s) + 1] = entry
    OBVIOUS
<1>3. entry.event \in Event
    BY DEF Entry
<1>4. /\ DOMAIN Append(t, entry.event) = 1..(Len(s) + 1)
      /\ \A i \in 1..Len(s) : Append(t, entry.event)[i] = t[i]
      /\ Append(t, entry.event)[Len(s) + 1] = entry.event
      /\ Append(t, entry.event) = [i \in DOMAIN Append(t, entry.event) |-> Append(t, entry.event)[i]]
    <2> HIDE DEF t
    <2> QED  BY <1>1, <1>3
<1>5. \A i \in 1..(Len(s) + 1) : a[i].event = Append(t, entry.event)[i]
    <2>1. Len(s) \in Nat
        OBVIOUS
    <2>2. \A i \in 1..Len(s) : a[i].event = Append(t, entry.event)[i]
        BY <1>2, <1>4
    <2> HIDE DEF t, a
    <2> QED  BY <2>1, <2>2, <1>2, <1>4
<1> HIDE DEF t, a
<1>6. [i \in DOMAIN a |-> a[i].event] = Append(t, entry.event)
    BY <1>2, <1>4, <1>5
<1> QED  BY <1>6 DEF t, a

LEMMA ListEventRefines ==
    ASSUME IInv, NEW p \in Processes, ListEvent(p)
    PROVE  Log!AppendToLog
<1> DEFINE e == process[p].event
           n == process[p].sequence
           entry == [sequence |-> n, event |-> e]
<1>1. /\ e \in Event /\ n \in Nat /\ n = Len(manifest.events) + 1
      /\ Len(files) = n /\ files[n] = e
      /\ manifest.events \in Seq(Entry)
      /\ manifest'.events = Append(manifest.events, entry)
      /\ returned' = returned \cup {e}
    BY ListEventExtends
<1>2. entry \in Entry /\ entry.event = e
    BY <1>1 DEF Entry
<1>3. log' = Append(log, e)
    <2> HIDE DEF entry
    <2> QED  BY <1>1, <1>2, AppendOfEvents DEF log
<1>4. \A f \in Log!Events(log) : f.key # e.key
    <2> SUFFICES ASSUME NEW i \in DOMAIN manifest.events, manifest.events[i].event.key = e.key
                 PROVE  FALSE
        BY DEF log, Log!Events
    <2>1. manifest.events[i].event = files[i]
        <3>1. manifest.events[i] = [sequence |-> i, event |-> files[i]]
            BY DEF IInv, ListedEventsAreThere
        <3> QED  BY <3>1
    <2> HIDE DEF e, n
    <2>2. i \in DOMAIN files /\ n \in DOMAIN files /\ i # n
        <3>1. files \in Seq(Event)
            BY DEF IInv, TypeOK
        <3> QED  BY <1>1, <3>1
    <2> QED  BY <1>1, <2>1, <2>2 DEF IInv, EffectsHappenOnce
<1> QED  BY <1>1, <1>3, <1>4 DEF Log!AppendToLog, Log!Events, log

LEMMA AskForEventRefines ==
    ASSUME Locked, IInv, NEW p \in Processes, NEW e \in Event, AskForEvent(p, e)
    PROVE  Log!Tell
<1>1. IInv'
    BY AskForEventKeeps
<1>2. UNCHANGED manifest /\ returned \subseteq returned'
    BY DEF AskForEvent
<1>3. returned' \subseteq Log!Events(log)
    BY <1>1, <1>2 DEF IInv, ReturnedInv, log, Log!Events
<1> QED  BY <1>2, <1>3 DEF Log!Tell, Log!Events, log

LEMMA StepRefines ==
    ASSUME Locked, IInv, [Next]_vars
    PROVE  [Log!LogNext]_(Log!logVars)
<1> SUFFICES ASSUME Next PROVE [Log!LogNext]_(Log!logVars)
    BY DEF vars, Log!logVars
<1>1. PICK p \in Processes :
         \/ \E e \in Event : AskForEvent(p, e)
         \/ NumberEvent(p) \/ CheckPath(p) \/ InstallEvent(p)
         \/ ReadManifest(p) \/ ListEvent(p) \/ Stop(p)
    BY DEF Next
<1>2. CASE \E e \in Event : AskForEvent(p, e)
    BY <1>2, AskForEventRefines DEF Log!LogNext
<1>3. CASE ListEvent(p)
    BY <1>3, ListEventRefines DEF Log!LogNext
<1>4. CASE NumberEvent(p) \/ CheckPath(p) \/ InstallEvent(p) \/ ReadManifest(p) \/ Stop(p)
    BY <1>4 DEF NumberEvent, CheckPath, InstallEvent, ReadManifest, Stop, Log!logVars
<1> QED  BY <1>1, <1>2, <1>3, <1>4

(***************************************************************************)
(* Under the lock the event files and the manifest implement a log that    *)
(* only grows, holds each key once and keeps what append_event returned.   *)
(***************************************************************************)
THEOREM LedgerImplementsLog == ASSUME Locked PROVE Spec => ImplementsEventLog
BY InitRefines, StepRefines, LedgerInductive, PTL DEF Spec, ImplementsEventLog, Log!LogSpec

=============================================================================
