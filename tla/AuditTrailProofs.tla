-------------------------- MODULE AuditTrailProofs --------------------------
(***************************************************************************)
(* Theorems about the events of AuditTrail.tla.  A step of AuditTrail is a *)
(* step of AtlasQueue, so the invariants of AtlasQueueProofs.tla hold.     *)
(* What a step does to rows, objects and events is one of five things: a   *)
(* save with its event, a load, the end of a transaction that is rolled    *)
(* back, a commit, or nothing; AuditInv is preserved by each of the five.  *)
(***************************************************************************)
EXTENDS AuditTrail, AtlasQueueProofs

USE DEF At, Goto, Take, Proceed, KeepCounts, Fault

-----------------------------------------------------------------------------
(* Every step is a step of the queue. *)

LEMMA StepIsStep ==
  [AuditNext]_<<vars, auditVars>> => [Next]_vars
  <1> SUFFICES ASSUME AuditNext PROVE Next
    BY DEF auditVars
  <1>1. ASSUME NEW c \in Clients, Submits(c) PROVE Next
    BY <1>1 DEF Submits, Next, Request
  <1>2. ASSUME NEW p \in Sessions, Reads(p) PROVE Next
    BY <1>2 DEF Reads, Next, Request, SlotStep
  <1>3. ASSUME NEW p \in Sessions, Saves(p) PROVE Next
    BY <1>3 DEF Saves, Next, ClientStep, SlotStep
  <1>4. ASSUME NEW p \in Sessions, Ends(p) PROVE Next
    BY <1>4 DEF Ends, Next, ClientStep, SlotStep
  <1>5. ASSUME NEW s \in Schedulers, Ticks(s) PROVE Next
    BY <1>5 DEF Ticks, Next, TickStep
  <1>6. ASSUME Others PROVE Next
    BY <1>6 DEF Others, Next, ClientStep, SlotStep
  <1> QED
    BY <1>1, <1>2, <1>3, <1>4, <1>5, <1>6 DEF AuditNext

-----------------------------------------------------------------------------
(* Times *)

\* A finite set of numbers has a greatest.
LEMMA FiniteMax ==
  ASSUME NEW S \in SUBSET Nat, IsFiniteSet(S), S # {}
  PROVE  \E m \in S : \A x \in S : m >= x
  <1> DEFINE T == {U \in SUBSET S : U # {} /\ ~ \E m \in U : \A x \in U : m >= x}
  <1>1. SUFFICES ASSUME T # {} PROVE FALSE
    OBVIOUS
  <1>2. FiniteSubsetsOf(S) = SUBSET S
    BY FS_FiniteSubsetsOfFinite
  <1>3. T \subseteq FiniteSubsetsOf(S)
    BY <1>2
  <1> HIDE DEF T
  <1>4. PICK U \in T : \A V \in T : ~ (<<V, U>> \in StrictSubsetOrdering(S))
    BY <1>1, <1>3, FS_StrictSubsetOrderingWellFounded, WFMin
  <1>5. U \in SUBSET S /\ U # {} /\ ~ \E m \in U : \A x \in U : m >= x
    BY <1>4 DEF T
  <1>6. PICK y \in U : TRUE
    BY <1>5
  <1>7. U \ {y} \in SUBSET S /\ U \ {y} \subseteq U /\ U \ {y} # U
    BY <1>5, <1>6
  <1>8. <<U \ {y}, U>> \in StrictSubsetOrdering(S)
    BY <1>5, <1>7 DEF StrictSubsetOrdering
  <1>9. U \ {y} \notin T
    BY <1>4, <1>8
  <1>10. CASE U \ {y} = {}
    BY <1>5, <1>6, <1>10
  <1>11. CASE U \ {y} # {}
    <2>1. PICK m \in U \ {y} : \A x \in U \ {y} : m >= x
      BY <1>7, <1>9, <1>11 DEF T
    <2>2. \A x \in U : x \in Nat
      BY <1>5
    <2>3. CASE m >= y
      BY <1>5, <1>6, <2>1, <2>3
    <2>4. CASE ~ (m >= y)
      <3>1. \A x \in U : y >= x
        BY <1>6, <2>1, <2>2, <2>4
      <3> QED
        BY <1>5, <1>6, <3>1
    <2> QED
      BY <2>3, <2>4
  <1> QED
    BY <1>10, <1>11

\* A transaction begins later than those that are open or have left events.
LEMMA NowIsLater ==
  ASSUME AuditTypeOK, Sessions # {}
  PROVE  /\ Now \in Nat
         /\ \A p \in Sessions : began[p] < Now
         /\ \A i \in DOMAIN events : events[i].at < Now
  <1> DEFINE B == {began[p] : p \in Sessions}
             E == {events[i].at : i \in DOMAIN events}
  <1>1. IsFiniteSet(B)
    <2>1. IsFiniteSet(Sessions)
      BY ProcessAssumption, FinitelyMany, FinitelyManyTicks, FS_Union
    <2>2. began \in Surjection(Sessions, B)
      BY DEF AuditTypeOK, Surjection
    <2> QED
      BY <2>1, <2>2, FS_Surjection
  <1>2. IsFiniteSet(E)
    <2>1. DOMAIN events = 1 .. Len(events) /\ Len(events) \in Nat
      BY DEF AuditTypeOK
    <2>2. IsFiniteSet(DOMAIN events)
      BY <2>1, FS_Interval
    <2>3. [i \in DOMAIN events |-> events[i].at] \in Surjection(DOMAIN events, E)
      BY DEF Surjection
    <2> QED
      BY <2>2, <2>3, FS_Surjection
  <1>3. B \cup E \in SUBSET Nat /\ B \cup E # {}
    <2>1. B \subseteq Nat /\ B # {}
      BY DEF AuditTypeOK
    <2>2. \A i \in DOMAIN events : events[i] \in Event
      BY DEF AuditTypeOK
    <2>3. E \subseteq Nat
      BY <2>2 DEF Event
    <2> QED
      BY <2>1, <2>3
  <1>4. IsFiniteSet(B \cup E)
    BY <1>1, <1>2, FS_Union
  <1>5. \A x \in B \cup E : Max(B \cup E) >= x
    <2> HIDE DEF B, E
    <2> QED
      BY <1>3, <1>4, FiniteMax DEF Max
  <1>6. Max(B \cup E) \in Nat
    <2> HIDE DEF B, E
    <2> QED
      BY <1>3, <1>4, FiniteMax DEF Max
  <1>7. Now = 1 + Max(B \cup E)
    BY DEF Now
  <1>8. \A p \in Sessions : began[p] \in B \cup E
    OBVIOUS
  <1>9. \A i \in DOMAIN events : events[i].at \in B \cup E
    OBVIOUS
  <1> HIDE DEF B, E
  <1>10. \A x \in B \cup E : x \in Nat /\ x < Now
    BY <1>3, <1>5, <1>6, <1>7
  <1>11. Now \in Nat
    BY <1>6, <1>7
  <1>12. \A p \in Sessions : began[p] < Now
    BY <1>8, <1>10
  <1>13. \A i \in DOMAIN events : events[i].at < Now
    BY <1>9, <1>10
  <1> QED
    BY <1>11, <1>12, <1>13
-----------------------------------------------------------------------------
(* What a step may do to rows, objects and events *)

LEMMA NotesTyped ==
  ASSUME AuditTypeOK, NEW p \in Sessions
  PROVE  /\ notes[p] \in Seq(Event)
         /\ Len(notes[p]) \in Nat
         /\ DOMAIN notes[p] = 1 .. Len(notes[p])
         /\ \A i \in DOMAIN notes[p] : notes[p][i] \in Event
  BY DEF AuditTypeOK

LEMMA EventsTyped ==
  ASSUME AuditTypeOK
  PROVE  /\ events \in Seq(Event)
         /\ Len(events) \in Nat
         /\ DOMAIN events = 1 .. Len(events)
         /\ \A i \in DOMAIN events : events[i] \in Event
  BY DEF AuditTypeOK

Untouched(p) ==
  \A q \in Sessions \ {p} :
    pc'[q] = pc[q] /\ job'[q] = job[q] /\ mem'[q] = mem[q] /\ began'[q] = began[q]

\* A save with its event.
LEMMA SaveKeeps ==
  ASSUME TypeOK, AuditInv, NEW p \in Clients \cup Slots, NEW t \in Tasks,
         row' = row, events' = events, Untouched(p), began' \in [Sessions -> Nat],
         AppendEvent(p, t), mem'[p] \in Row, job'[p] = t,
         pc'[p] \notin {"idle", "load"},
         \/ notes[p] = <<>> /\ mem[p].status = "none"
         \/ /\ job[p] = t /\ began'[p] = began[p]
            /\ pc[p] \notin Raising \cup {"idle", "load", "lost"}
  PROVE  AuditInv'
  <1> DEFINE e == [task |-> t, from |-> mem[p].status, to |-> mem'[p].status,
                   at |-> began'[p]]
  <1>1. p \in Sessions /\ p \notin Schedulers
    BY ProcessAssumption
  <1>2. e \in Event
    <2>1. mem[p] \in Row
      BY <1>1 DEF TypeOK, SqlTypeOK
    <2> QED
      BY <1>1, <2>1 DEF Event, Row
  <1>3. notes' = [notes EXCEPT ![p] = Append(notes[p], e)]
    BY DEF AppendEvent, Noted
  <1>4. notes[p] \in Seq(Event) /\ Len(notes[p]) \in Nat /\ DOMAIN notes[p] = 1 .. Len(notes[p])
    BY <1>1, NotesTyped DEF AuditInv
  <1> HIDE DEF e
  <1>5. /\ notes'[p] = Append(notes[p], e)
        /\ notes'[p] \in Seq(Event)
        /\ Len(notes'[p]) = Len(notes[p]) + 1
        /\ DOMAIN notes'[p] = 1 .. Len(notes[p]) + 1
        /\ \A i \in 1 .. Len(notes[p]) : notes'[p][i] = notes[p][i]
        /\ notes'[p][Len(notes[p]) + 1] = e
        /\ \A q \in Sessions \ {p} : notes'[q] = notes[q]
    <2>1. notes \in [Sessions -> Seq(Event)]
      BY DEF AuditInv, AuditTypeOK
    <2>2. notes'[p] = Append(notes[p], e) /\ \A q \in Sessions \ {p} : notes'[q] = notes[q]
      BY <1>1, <1>3, <2>1
    <2> QED
      BY <1>2, <1>4, <2>2
  <1>6. AuditTypeOK'
    <2>1. notes' \in [Sessions -> Seq(Event)]
      BY <1>1, <1>3, <1>5 DEF AuditInv, AuditTypeOK
    <2> QED
      BY <2>1 DEF AuditInv, AuditTypeOK
  <1>7. NotesKept'
    <2>1. notes'[p] # <<>>
      BY <1>4, <1>5
    <2>2. \A s \in Schedulers : s \in Sessions \ {p}
      BY <1>1, ProcessAssumption
    <2>3. \A q \in Clients \cup Slots : q = p \/ q \in Sessions \ {p}
      BY ProcessAssumption
    <2> QED
      BY <1>5, <2>1, <2>2, <2>3 DEF AuditInv, NotesKept, Untouched
  <1>8. \A u, s : Told(u, s)' <=> Told(u, s)
    BY DEF Told
  <1>9. NotesChained'
    <2>1. ASSUME NEW q \in Sessions \ {p}, NEW i \in DOMAIN notes'[q]
          PROVE  /\ notes'[q][i].task = job'[q]
                 /\ notes'[q][i].at = began'[q]
                 /\ i = 1 => notes'[q][i].from = "none" \/ Told(job'[q], notes'[q][i].from)
                 /\ i > 1 => notes'[q][i].from = notes'[q][i - 1].to
                 /\ i = Len(notes'[q]) /\ pc'[q] \notin Raising =>
                      notes'[q][i].to = mem'[q].status
      BY <1>5, <2>1 DEF AuditInv, NotesChained, Untouched
    <2>2. ASSUME NEW i \in DOMAIN notes'[p]
          PROVE  /\ notes'[p][i].task = job'[p]
                 /\ notes'[p][i].at = began'[p]
                 /\ i = 1 => notes'[p][i].from = "none" \/ Told(job'[p], notes'[p][i].from)
                 /\ i > 1 => notes'[p][i].from = notes'[p][i - 1].to
                 /\ i = Len(notes'[p]) => notes'[p][i].to = mem'[p].status
      <3>1. CASE i \in 1 .. Len(notes[p])
        <4>1. notes[p] # <<>> /\ i \in DOMAIN notes[p] /\ i # Len(notes'[p])
          BY <1>4, <1>5, <3>1
        <4>2. /\ job[p] = t /\ began'[p] = began[p]
              /\ pc[p] \notin Raising \cup {"idle", "load", "lost"}
          BY <4>1
        <4>3. /\ notes[p][i].task = t
              /\ notes[p][i].at = began[p]
              /\ i = 1 => notes[p][i].from = "none" \/ Told(t, notes[p][i].from)
              /\ i > 1 => notes[p][i].from = notes[p][i - 1].to
          BY <1>1, <4>1, <4>2 DEF AuditInv, NotesChained
        <4>4. notes'[p][i] = notes[p][i] /\ (i > 1 => notes'[p][i - 1] = notes[p][i - 1])
          BY <1>4, <1>5, <3>1
        <4> QED
          BY <4>1, <4>2, <4>3, <4>4
      <3>2. CASE i = Len(notes[p]) + 1
        <4>1. notes'[p][i] = e
          BY <1>5, <3>2
        <4>2. e.task = t /\ e.at = began'[p] /\ e.to = mem'[p].status /\ e.from = mem[p].status
          BY DEF e
        <4>3. i = 1 => e.from = "none" \/ Told(t, e.from)
          <5>1. i = 1 => notes[p] = <<>>
            BY <1>4, <3>2
          <5>2. CASE notes[p] = <<>> /\ mem[p].status = "none"
            BY <4>2, <5>2
          <5>3. CASE job[p] = t /\ pc[p] \notin Raising \cup {"idle", "load", "lost"}
            BY <4>2, <5>1, <5>3 DEF AuditInv, Grounds
          <5> QED
            BY <5>2, <5>3
        <4>4. i > 1 => e.from = notes'[p][i - 1].to
          <5> SUFFICES ASSUME i > 1 PROVE e.from = notes'[p][i - 1].to
            OBVIOUS
          <5>1. Len(notes[p]) \in DOMAIN notes[p] /\ i - 1 = Len(notes[p])
            BY <1>4, <3>2
          <5>2. notes[p][i - 1].to = mem[p].status
            <6>1. pc[p] \notin Raising
              BY <5>1
            <6> QED
              BY <1>1, <5>1, <6>1 DEF AuditInv, NotesChained
          <5>3. notes'[p][i - 1] = notes[p][i - 1]
            BY <1>4, <1>5, <5>1
          <5> QED
            BY <4>2, <5>2, <5>3
        <4> QED
          BY <4>1, <4>2, <4>3, <4>4
      <3> QED
        BY <1>4, <1>5, <3>1, <3>2
    <2> QED
      BY <1>8, <2>1, <2>2 DEF NotesChained
  <1>10. Grounds'
    <2>1. notes'[p] # <<>>
      BY <1>4, <1>5
    <2>2. \A q \in Clients \cup Slots : q = p \/ q \in Sessions \ {p}
      BY ProcessAssumption
    <2>3. \A u \in Tasks : Exists(u)' <=> Exists(u)
      BY DEF Exists
    <2> QED
      BY <1>5, <1>8, <2>1, <2>2, <2>3 DEF AuditInv, Grounds, Untouched
  <1>11. TrailIsGrounded' /\ StartedHasOutcome'
    BY DEF AuditInv, TrailIsGrounded, StartedHasOutcome
  <1> QED
    BY <1>6, <1>7, <1>9, <1>10, <1>11 DEF AuditInv
\* A load, into a session that has no notes.
LEMMA LoadKeeps ==
  ASSUME TypeOK, AuditInv, NEW p \in Clients \cup Slots, NEW t \in Tasks,
         row' = row, events' = events, notes' = notes, notes[p] = <<>>,
         Untouched(p), began' \in [Sessions -> Nat],
         Exists(t), mem'[p] = row[t], job'[p] = t, pc'[p] \notin Writing \cup {"idle", "load"}
  PROVE  AuditInv'
  <1>1. p \in Sessions /\ p \notin Schedulers
    BY ProcessAssumption
  <1>2. \A u, s : Told(u, s)' <=> Told(u, s)
    BY DEF Told
  <1>3. AuditTypeOK'
    BY DEF AuditInv, AuditTypeOK
  <1>4. \A q \in Sessions : q = p \/ q \in Sessions \ {p}
    OBVIOUS
  <1>5. NotesKept'
    BY <1>1, <1>4, ProcessAssumption DEF AuditInv, NotesKept, Untouched
  <1>6. NotesChained'
    <2>1. DOMAIN notes[p] = {}
      OBVIOUS
    <2> QED
      BY <1>2, <1>4, <2>1 DEF AuditInv, NotesChained, Untouched
  <1>7. Grounds'
    <2>1. Told(t, row[t].status)
      BY DEF AuditInv, Grounds
    <2> QED
      BY <1>2, <1>4, <2>1, ProcessAssumption DEF AuditInv, Grounds, Untouched, Exists
  <1>8. TrailIsGrounded' /\ StartedHasOutcome'
    BY DEF AuditInv, TrailIsGrounded, StartedHasOutcome
  <1> QED
    BY <1>3, <1>5, <1>6, <1>7, <1>8 DEF AuditInv

\* A transaction that leaves nothing.
LEMMA DiscardKept ==
  ASSUME TypeOK, AuditInv, NEW p \in Sessions, row' = row, Discard(p), Untouched(p),
         pc'[p] \in {"idle", "lost", "refused"}
  PROVE  AuditInv'
  <1>1. /\ notes' = [notes EXCEPT ![p] = <<>>]
        /\ began' = [began EXCEPT ![p] = 0]
        /\ events' = events
    BY DEF Discard, Forget
  <1>2. /\ notes'[p] = <<>>
        /\ \A q \in Sessions \ {p} : notes'[q] = notes[q]
    BY <1>1 DEF AuditInv, AuditTypeOK
  <1>3. \A u, s : Told(u, s)' <=> Told(u, s)
    BY <1>1 DEF Told
  <1>4. AuditTypeOK'
    <2>1. <<>> \in Seq(Event)
      OBVIOUS
    <2> QED
      BY <1>1, <2>1 DEF AuditInv, AuditTypeOK
  <1>5. \A q \in Sessions : q = p \/ q \in Sessions \ {p}
    OBVIOUS
  <1>6. NotesKept'
    BY <1>2, <1>5, ProcessAssumption DEF AuditInv, NotesKept, Untouched, Writing
  <1>7. NotesChained'
    <2>1. DOMAIN notes'[p] = {}
      BY <1>2
    <2> QED
      BY <1>2, <1>3, <1>5, <2>1 DEF AuditInv, NotesChained, Untouched
  <1>8. Grounds'
    BY <1>2, <1>3, <1>5, ProcessAssumption DEF AuditInv, Grounds, Untouched, Exists, Raising
  <1>9. TrailIsGrounded' /\ StartedHasOutcome'
    BY <1>1 DEF AuditInv, TrailIsGrounded, StartedHasOutcome
  <1> QED
    BY <1>4, <1>6, <1>7, <1>8, <1>9 DEF AuditInv

\* Steps that leave rows and events alone, and objects unless they raise.
LEMMA WaitKeeps ==
  ASSUME AuditInv, UNCHANGED <<auditVars, row>>,
         \A q \in Sessions :
           /\ mem'[q] = mem[q] \/ pc'[q] \in Raising
           /\ job'[q] = job[q] \/ notes[q] = <<>>
           /\ pc'[q] \in Raising \/ pc[q] \notin Raising \/ notes[q] = <<>>
           /\ pc'[q] \in {"idle", "load"} => notes[q] = <<>>
           /\ q \in Clients \cup Slots =>
                /\ pc'[q] \in Writing => notes[q] # <<>>
                /\ notes[q] = <<>> /\ pc'[q] \notin Raising \cup {"idle", "load", "lost"} =>
                     pc[q] \notin Raising \cup {"idle", "load", "lost"} /\ job'[q] = job[q]
  PROVE  AuditInv'
  <1>1. UNCHANGED <<events, notes, began>>
    BY DEF auditVars
  <1>2. \A u, s : Told(u, s)' <=> Told(u, s)
    BY <1>1 DEF Told
  <1>3. AuditTypeOK'
    BY <1>1 DEF AuditInv, AuditTypeOK
  <1>4. NotesKept'
    BY <1>1, ProcessAssumption DEF AuditInv, NotesKept
  <1>5. NotesChained'
    <2>1. \A q \in Sessions : notes[q] = <<>> => DOMAIN notes[q] = {}
      OBVIOUS
    <2> QED
      BY <1>1, <1>2, <2>1 DEF AuditInv, NotesChained
  <1>6. Grounds'
    BY <1>1, <1>2, ProcessAssumption DEF AuditInv, Grounds, Exists
  <1>7. TrailIsGrounded' /\ StartedHasOutcome'
    BY <1>1 DEF AuditInv, TrailIsGrounded, StartedHasOutcome
  <1> QED
    BY <1>3, <1>4, <1>5, <1>6, <1>7 DEF AuditInv

-----------------------------------------------------------------------------
(* Commits *)

\* What was told stays told, and the notes of the transaction are told too.
LEMMA Telling ==
  ASSUME AuditTypeOK, NEW p \in Sessions, events' = events \o notes[p]
  PROVE  /\ Len(events') = Len(events) + Len(notes[p])
         /\ DOMAIN events' = 1 .. Len(events) + Len(notes[p])
         /\ \A i \in DOMAIN events : i \in DOMAIN events' /\ events'[i] = events[i]
         /\ \A i \in DOMAIN notes[p] :
              Len(events) + i \in DOMAIN events' /\ events'[Len(events) + i] = notes[p][i]
         /\ \A i \in DOMAIN events' :
              i \in DOMAIN events \/ i - Len(events) \in DOMAIN notes[p]
         /\ \A u, s : Told(u, s) => Told(u, s)'
         /\ events' \in Seq(Event)
  <1>1. /\ events \in Seq(Event) /\ Len(events) \in Nat
        /\ DOMAIN events = 1 .. Len(events)
    BY EventsTyped
  <1>2. /\ notes[p] \in Seq(Event) /\ Len(notes[p]) \in Nat
        /\ DOMAIN notes[p] = 1 .. Len(notes[p])
    BY NotesTyped
  <1>3. /\ events' \in Seq(Event)
        /\ Len(events') = Len(events) + Len(notes[p])
        /\ DOMAIN events' = 1 .. Len(events) + Len(notes[p])
    BY <1>1, <1>2
  <1>4. \A i \in DOMAIN events : i \in DOMAIN events' /\ events'[i] = events[i]
    BY <1>1, <1>2, <1>3
  <1>5. \A i \in DOMAIN notes[p] :
          Len(events) + i \in DOMAIN events' /\ events'[Len(events) + i] = notes[p][i]
    BY <1>1, <1>2, <1>3
  <1>6. \A i \in DOMAIN events' : i \in DOMAIN events \/ i - Len(events) \in DOMAIN notes[p]
    BY <1>1, <1>2, <1>3
  <1>7. \A u, s : Told(u, s) => Told(u, s)'
    BY <1>4 DEF Told
  <1> QED
    BY <1>3, <1>4, <1>5, <1>6, <1>7

\* Only the row of the task that the committing process has in hand changes,
\* and then to the status of its object, which is what its last note says.
LEMMA CommitTells ==
  ASSUME IInv, AuditInv, NEW p \in Sessions, Commit(p), events' = events \o notes[p]
  PROVE  \A t \in Tasks : row'[t].status # row[t].status =>
           /\ notes[p] # <<>>
           /\ Len(events') > Len(events)
           /\ events'[Len(events')].task = t
           /\ events'[Len(events')].to = row'[t].status
  <1> SUFFICES ASSUME NEW t \in Tasks, row'[t].status # row[t].status
               PROVE  /\ notes[p] # <<>>
                      /\ Len(events') > Len(events)
                      /\ events'[Len(events')].task = t
                      /\ events'[Len(events')].to = row'[t].status
    OBVIOUS
  <1>1. row'[t] = View(p, t) /\ pc[p] = "commit"
    BY DEF Commit, CommitSession
  <1>2. lock[t] = p /\ row'[t] = draft[t]
    BY <1>1 DEF View
  <1>3. p # NoSession
    BY NoSessionAssumption
  <1>4. job[p] = t
    BY <1>2, <1>3 DEF IInv, Locks
  <1>5. p \in Clients \cup Slots
    BY <1>4, ProcessAssumption DEF IInv, Roles
  <1>6. row'[t].status = mem[p].status
    BY <1>1, <1>2, <1>3 DEF IInv, Drafts, Writing
  <1>7. notes[p] # <<>>
    BY <1>1, <1>5 DEF AuditInv, NotesKept, Writing
  <1>8. /\ Len(notes[p]) \in Nat /\ Len(notes[p]) > 0
        /\ Len(notes[p]) \in DOMAIN notes[p]
    BY <1>7, NotesTyped DEF AuditInv
  <1>9. notes[p][Len(notes[p])].task = t /\ notes[p][Len(notes[p])].to = mem[p].status
    BY <1>1, <1>4, <1>8 DEF AuditInv, NotesChained, Raising
  <1>10. AuditTypeOK
    BY DEF AuditInv
  <1>11. /\ Len(events') = Len(events) + Len(notes[p])
         /\ events'[Len(events) + Len(notes[p])] = notes[p][Len(notes[p])]
    BY <1>8, <1>10, Telling
  <1>12. Len(events) \in Nat
    BY <1>10, EventsTyped
  <1> QED
    BY <1>6, <1>7, <1>8, <1>9, <1>11, <1>12

\* A commit.
LEMMA CommitKeeps ==
  ASSUME IInv, Decisions, AuditInv, NEW p \in Sessions, Commit(p),
         events' = events \o notes[p], Forget(p)
  PROVE  AuditInv'
  <1>1. AuditTypeOK
    BY DEF AuditInv
  <1>2. /\ notes'[p] = <<>>
        /\ \A q \in Sessions \ {p} : notes'[q] = notes[q] /\ began'[q] = began[q]
    BY <1>1 DEF Forget, AuditTypeOK
  <1>3. AuditTypeOK'
    <2>1. events' \in Seq(Event) /\ <<>> \in Seq(Event)
      BY <1>1, Telling
    <2> QED
      BY <1>1, <2>1 DEF Forget, AuditTypeOK
  <1>4. pc'[p] = "idle" /\ Untouched(p)
    BY <1>2 DEF Commit, CommitSession, ForgetObjects, IInv, TypeOK, SqlTypeOK, Untouched
  <1>5. \A u, s : Told(u, s) => Told(u, s)'
    BY <1>1, Telling
  <1>6. \A q \in Sessions : q = p \/ q \in Sessions \ {p}
    OBVIOUS
  <1>7. NotesKept'
    BY <1>2, <1>4, <1>6, ProcessAssumption DEF AuditInv, NotesKept, Untouched, Writing
  <1>8. NotesChained'
    <2>1. DOMAIN notes'[p] = {}
      BY <1>2
    <2>2. ASSUME NEW q \in Sessions \ {p}, NEW i \in DOMAIN notes'[q]
          PROVE  /\ notes'[q][i].task = job'[q]
                 /\ notes'[q][i].at = began'[q]
                 /\ i = 1 => notes'[q][i].from = "none" \/ Told(job[q], notes'[q][i].from)
                 /\ i > 1 => notes'[q][i].from = notes'[q][i - 1].to
                 /\ i = Len(notes'[q]) /\ pc'[q] \notin Raising =>
                      notes'[q][i].to = mem'[q].status
                 /\ job'[q] = job[q]
      BY <1>2, <1>4, <2>2 DEF AuditInv, NotesChained, Untouched
    <2> QED
      BY <1>5, <1>6, <2>1, <2>2 DEF NotesChained
  <1>9. Grounds'
    <2>1. ASSUME NEW t \in Tasks, Exists(t)' PROVE Told(t, row[t].status)'
      <3>1. CASE row'[t].status = row[t].status
        BY <1>5, <2>1, <3>1 DEF AuditInv, Grounds, Exists
      <3>2. CASE row'[t].status # row[t].status
        <4>1. /\ notes[p] # <<>>
              /\ events'[Len(events')].task = t
              /\ events'[Len(events')].to = row'[t].status
          BY <3>2, CommitTells
        <4>2. Len(events') \in DOMAIN events'
          <5>1. Len(notes[p]) \in Nat /\ Len(notes[p]) > 0
            BY <1>1, <4>1, NotesTyped
          <5>2. Len(events) \in Nat
            BY <1>1, EventsTyped
          <5>3. /\ Len(events') = Len(events) + Len(notes[p])
                /\ DOMAIN events' = 1 .. Len(events) + Len(notes[p])
            BY <1>1, Telling
          <5> QED
            BY <5>1, <5>2, <5>3
        <4> QED
          BY <4>1, <4>2 DEF Told
      <3> QED
        BY <3>1, <3>2
    <2>2. ASSUME NEW q \in Clients \cup Slots, notes'[q] = <<>>,
                 pc'[q] \notin Raising \cup {"idle", "load", "lost"}
          PROVE  Told(job[q], mem[q].status)'
      <3>1. q \in Sessions \ {p}
        BY <1>4, <2>2, ProcessAssumption
      <3> QED
        BY <1>2, <1>4, <1>5, <2>2, <3>1 DEF AuditInv, Grounds, Untouched
    <2> QED
      BY <2>1, <2>2 DEF Grounds
  <1>10. TrailIsGrounded'
    <2> SUFFICES ASSUME NEW i \in DOMAIN events', events'[i].from # "none"
                 PROVE  \E j \in 1 .. i - 1 :
                          /\ events'[j].task = events'[i].task
                          /\ events'[j].to = events'[i].from
      BY DEF TrailIsGrounded
    <2>1. Len(events) \in Nat /\ DOMAIN events = 1 .. Len(events)
      BY <1>1, EventsTyped
    <2>2. CASE i \in DOMAIN events
      <3>1. events'[i] = events[i]
        BY <1>1, <2>2, Telling
      <3>2. PICK j \in 1 .. i - 1 :
              events[j].task = events[i].task /\ events[j].to = events[i].from
        BY <2>2, <3>1 DEF AuditInv, TrailIsGrounded
      <3>3. j \in DOMAIN events
        BY <2>1, <2>2, <3>2
      <3>4. events'[j] = events[j]
        BY <1>1, <3>3, Telling
      <3> QED
        BY <3>1, <3>2, <3>4
    <2>3. CASE i - Len(events) \in DOMAIN notes[p]
      <3> DEFINE k == i - Len(events)
      <3>1. DOMAIN notes[p] = 1 .. Len(notes[p]) /\ Len(notes[p]) \in Nat
        BY <1>1, NotesTyped
      <3>2. k \in DOMAIN notes[p] /\ i = Len(events) + k /\ i \in Nat
        BY <2>1, <2>3, <3>1
      <3> HIDE DEF k
      <3>3. events'[i] = notes[p][k]
        BY <1>1, <3>2, Telling
      <3>4. /\ notes[p][k].task = job[p]
            /\ k = 1 => notes[p][k].from = "none" \/ Told(job[p], notes[p][k].from)
            /\ k > 1 => notes[p][k].from = notes[p][k - 1].to
        BY <3>2 DEF AuditInv, NotesChained
      <3>5. CASE k = 1
        <4>1. PICK j \in DOMAIN events :
                events[j].task = job[p] /\ events[j].to = notes[p][k].from
          BY <3>3, <3>4, <3>5 DEF Told
        <4>2. events'[j] = events[j] /\ j \in 1 .. i - 1
          BY <1>1, <2>1, <3>2, <3>5, <4>1, Telling
        <4> QED
          BY <3>3, <3>4, <4>1, <4>2
      <3>6. CASE k > 1
        <4>1. k - 1 \in DOMAIN notes[p]
          BY <3>1, <3>2, <3>6
        <4>2. events'[Len(events) + (k - 1)] = notes[p][k - 1]
          BY <1>1, <4>1, Telling
        <4>3. notes[p][k - 1].task = job[p]
          BY <4>1 DEF AuditInv, NotesChained
        <4>4. i - 1 = Len(events) + (k - 1) /\ i - 1 \in 1 .. i - 1
          BY <2>1, <3>1, <3>2, <3>6
        <4> QED
          BY <3>3, <3>4, <3>6, <4>2, <4>3, <4>4
      <3>7. k = 1 \/ k > 1
        BY <3>1, <3>2
      <3> QED
        BY <3>5, <3>6, <3>7
    <2> QED
      BY <1>1, <2>2, <2>3, Telling
  <1>11. StartedHasOutcome'
    <2> SUFFICES ASSUME NEW i \in DOMAIN events', events'[i].to = "running"
                 PROVE  /\ i + 1 \in DOMAIN events'
                        /\ events'[i + 1].task = events'[i].task
                        /\ events'[i + 1].from = "running"
                        /\ events'[i + 1].at = events'[i].at
      BY DEF StartedHasOutcome
    <2>1. CASE i \in DOMAIN events
      <3>1. events'[i] = events[i]
        BY <1>1, <2>1, Telling
      <3>2. /\ i + 1 \in DOMAIN events
            /\ events[i + 1].task = events[i].task
            /\ events[i + 1].from = "running"
            /\ events[i + 1].at = events[i].at
        BY <2>1, <3>1 DEF AuditInv, StartedHasOutcome
      <3>3. i + 1 \in DOMAIN events' /\ events'[i + 1] = events[i + 1]
        BY <1>1, <3>2, Telling
      <3> QED
        BY <3>1, <3>2, <3>3
    <2>2. CASE i - Len(events) \in DOMAIN notes[p]
      <3> DEFINE k == i - Len(events)
      <3>1. /\ DOMAIN notes[p] = 1 .. Len(notes[p]) /\ Len(notes[p]) \in Nat
            /\ Len(events) \in Nat
        BY <1>1, NotesTyped, EventsTyped
      <3>2. DOMAIN events' = 1 .. Len(events) + Len(notes[p])
        BY <1>1, Telling
      <3>3. k \in DOMAIN notes[p] /\ i = Len(events) + k /\ i + 1 = Len(events) + (k + 1)
        BY <2>2, <3>1, <3>2
      <3> HIDE DEF k
      <3>4. events'[i] = notes[p][k]
        BY <1>1, <3>3, Telling
      <3>5. mem[p].status # "running"
        <4>1. p \in Clients \cup Slots
          BY <3>3, ProcessAssumption DEF AuditInv, NotesKept
        <4> QED
          BY <4>1 DEF Commit, Decisions, Verdicts
      <3>6. k # Len(notes[p])
        BY <3>3, <3>4, <3>5 DEF AuditInv, NotesChained, Commit, Raising
      <3>7. k + 1 \in DOMAIN notes[p] /\ k + 1 > 1 /\ (k + 1) - 1 = k
        BY <3>1, <3>3, <3>6
      <3>8. /\ notes[p][k].task = job[p] /\ notes[p][k + 1].task = job[p]
            /\ notes[p][k].at = began[p] /\ notes[p][k + 1].at = began[p]
            /\ notes[p][k + 1].from = notes[p][(k + 1) - 1].to
        BY <3>3, <3>7 DEF AuditInv, NotesChained
      <3>9. i + 1 \in DOMAIN events' /\ events'[i + 1] = notes[p][k + 1]
        BY <1>1, <3>3, <3>7, Telling
      <3> QED
        BY <3>4, <3>7, <3>8, <3>9
    <2> QED
      BY <1>1, <2>1, <2>2, Telling
  <1> QED
    BY <1>3, <1>7, <1>8, <1>9, <1>10, <1>11 DEF AuditInv
-----------------------------------------------------------------------------
(* Every step keeps the invariant *)

\* A save leaves its process at work on the same task.
LEMMA SaveShape ==
  ASSUME NEW p \in Sessions, Saves(p)
  PROVE  /\ p \in Clients \cup Slots
         /\ pc[p] \notin Raising \cup {"idle", "load", "lost"}
         /\ \E a \in Awaits \ {"idle", "load"} : pc' = [pc EXCEPT ![p] = a]
         /\ \E r : mem' = [mem EXCEPT ![p] = r]
         /\ job' = job /\ row' = row /\ UNCHANGED <<events, began>>
         /\ AppendEvent(p, job[p])
  <1> DEFINE Shape == /\ pc[p] \notin Raising \cup {"idle", "load", "lost"}
                      /\ \E a \in Awaits \ {"idle", "load"} : pc' = [pc EXCEPT ![p] = a]
                      /\ \E r : mem' = [mem EXCEPT ![p] = r]
                      /\ job' = job /\ row' = row
  <1>1. ASSUME EnqueueNow(p) PROVE Shape
    BY <1>1 DEF EnqueueNow, SaveAgain, Awaits, Raising
  <1>2. ASSUME EnqueueLater(p) PROVE Shape
    <2>1. pc[p] = "enqueue" /\ pc' = [pc EXCEPT ![p] = "raise"] /\ job' = job
      BY <1>2, NoReschedule DEF EnqueueLater
    <2>2. row' = row /\ \E r : mem' = [mem EXCEPT ![p] = r]
      BY <1>2 DEF EnqueueLater, SaveAgain
    <2> QED
      BY <2>1, <2>2 DEF Awaits, Raising
  <1>3. ASSUME EnqueueFails(p) PROVE Shape
    BY <1>3 DEF EnqueueFails, SaveAgain, Awaits, Raising
  <1>4. ASSUME CancelSave(p) PROVE Shape
    BY <1>4 DEF CancelSave, FirstSave, Awaits, Raising
  <1>5. ASSUME RetrySave(p) PROVE Shape
    BY <1>5 DEF RetrySave, FirstSave, Awaits, Raising
  <1>6. ASSUME CancelDelivered(p) PROVE Shape
    BY <1>6 DEF CancelDelivered, FirstSave, Awaits, Raising
  <1>7. ASSUME Start(p) PROVE Shape
    BY <1>7 DEF Start, FirstSave, Awaits, Raising
  <1>8. ASSUME Complete(p) PROVE Shape
    BY <1>8 DEF Complete, SaveAgain, Awaits, Raising
  <1>9. ASSUME Fail(p) PROVE Shape
    BY <1>9 DEF Fail, SaveAgain, Awaits, Raising
  <1> HIDE DEF Shape
  <1>10. Shape
    BY <1>1, <1>2, <1>3, <1>4, <1>5, <1>6, <1>7, <1>8, <1>9 DEF Saves
  <1>11. p \in Clients \cup Slots /\ UNCHANGED <<events, began>> /\ AppendEvent(p, job[p])
    BY DEF Saves
  <1> QED
    BY <1>10, <1>11 DEF Shape

LEMMA SubmitsKeep ==
  ASSUME IInv, IInv', AuditInv, NEW c \in Clients, Submits(c)
  PROVE  AuditInv'
  <1>1. PICK t \in Tasks, start \in StartTimes :
          SubmitSave(c, t, start) /\ Begins(c) /\ AppendEvent(c, t) /\ UNCHANGED events
    BY DEF Submits
  <1>2. c \in Sessions /\ TypeOK /\ AuditTypeOK
    BY ProcessAssumption DEF IInv, AuditInv
  <1>3. pc[c] = "idle" /\ notes[c] = <<>> /\ mem[c].status = "none"
    BY <1>1, <1>2 DEF SubmitSave, AuditInv, NotesKept, IInv, Objects, NoRow
  <1>4. /\ pc' = [pc EXCEPT ![c] = "enqueue"] /\ job' = [job EXCEPT ![c] = t]
        /\ row' = row /\ \E r : mem' = [mem EXCEPT ![c] = r]
    BY <1>1 DEF SubmitSave, Insert
  <1>5. Now \in Nat
    BY <1>2, NowIsLater
  <1>6. began' = [began EXCEPT ![c] = Now]
    BY <1>1 DEF Begins
  <1>7. began' \in [Sessions -> Nat] /\ Untouched(c)
    BY <1>2, <1>4, <1>5, <1>6 DEF TypeOK, SqlTypeOK, AuditTypeOK, Untouched
  <1>8. mem'[c] \in Row /\ job'[c] = t /\ pc'[c] = "enqueue"
    BY <1>2, <1>4 DEF IInv, TypeOK, SqlTypeOK
  <1> QED
    BY <1>1, <1>2, <1>3, <1>4, <1>7, <1>8, SaveKeeps

LEMMA ReadsKeep ==
  ASSUME IInv, AuditInv, NEW p \in Sessions, Reads(p)
  PROVE  AuditInv'
  <1>1. TypeOK /\ AuditTypeOK /\ UNCHANGED <<events, notes>>
    BY DEF IInv, AuditInv, Reads
  <1>2. p \in Clients \cup Slots /\ pc[p] \in {"idle", "load"}
    BY DEF Reads, CancelLoad, RetryLoad, LoadTask
  <1>3. notes[p] = <<>>
    BY <1>2 DEF AuditInv, NotesKept
  <1>4. CASE \E t \in Tasks, a \in {"cancelMark", "retryPush", "check"} :
               /\ Load(p, t) /\ Exists(t)
               /\ pc' = [pc EXCEPT ![p] = a] /\ job' = [job EXCEPT ![p] = t]
    <2>1. PICK t \in Tasks, a \in {"cancelMark", "retryPush", "check"} :
               /\ Load(p, t) /\ Exists(t)
               /\ pc' = [pc EXCEPT ![p] = a] /\ job' = [job EXCEPT ![p] = t]
      BY <1>4
    <2>2. /\ row' = row /\ mem' = [mem EXCEPT ![p] = row[t]]
      BY <1>2, <2>1, ReadsCommitted DEF Load
    <2>3. /\ pc'[p] \notin Writing \cup {"idle", "load"}
          /\ job'[p] = t /\ mem'[p] = row[t]
      BY <1>1, <2>1, <2>2 DEF TypeOK, SqlTypeOK, Writing
    <2>4. began' = [began EXCEPT ![p] = Now]
      <3>1. pc'[p] # "idle"
        BY <2>3
      <3> QED
        BY <3>1 DEF Reads, Begins
    <2>5. Now \in Nat
      BY <1>1, NowIsLater
    <2>6. began' \in [Sessions -> Nat] /\ Untouched(p)
      BY <1>1, <2>1, <2>2, <2>4, <2>5 DEF TypeOK, SqlTypeOK, AuditTypeOK, Untouched
    <2> QED
      BY <1>1, <1>2, <1>3, <2>1, <2>2, <2>3, <2>6, LoadKeeps
  <1>5. CASE /\ p \in Slots /\ UNCHANGED sqlVars
             /\ pc' = [pc EXCEPT ![p] = "idle"] /\ job' = [job EXCEPT ![p] = NoTask]
    <2>1. pc'[p] = "idle"
      BY <1>1, <1>5 DEF TypeOK
    <2>2. UNCHANGED <<auditVars, row, mem>>
      BY <1>1, <1>5, <2>1 DEF Reads, auditVars, sqlVars
    <2>3. \A q \in Sessions \ {p} : pc'[q] = pc[q] /\ job'[q] = job[q]
      BY <1>1, <1>5 DEF TypeOK
    <2>4. \A q \in Sessions : q = p \/ q \in Sessions \ {p}
      OBVIOUS
    <2> QED
      BY <1>3, <2>1, <2>2, <2>3, <2>4, WaitKeeps DEF AuditInv, NotesKept, Writing
  <1> QED
    <2>1. CASE p \in Clients /\ \E t \in Tasks : CancelLoad(p, t) \/ RetryLoad(p, t)
      BY <1>4, <2>1 DEF CancelLoad, RetryLoad, Exists
    <2>2. CASE p \in Slots /\ LoadTask(p) /\ row[job[p]].status = "queued"
      <3>1. job[p] \in Tasks
        BY <2>2, BusyHasTask DEF LoadTask, IInv
      <3> QED
        BY <1>4, <2>2, <3>1 DEF LoadTask, Exists
    <2>3. CASE p \in Slots /\ LoadTask(p) /\ row[job[p]].status # "queued"
      BY <1>5, <2>3 DEF LoadTask
    <2> QED
      BY <2>1, <2>2, <2>3 DEF Reads

LEMMA SavesKeep ==
  ASSUME IInv, IInv', AuditInv, NEW p \in Sessions, Saves(p)
  PROVE  AuditInv'
  <1>1. /\ p \in Clients \cup Slots
        /\ pc[p] \notin Raising \cup {"idle", "load", "lost"}
        /\ \E a \in Awaits \ {"idle", "load"} : pc' = [pc EXCEPT ![p] = a]
        /\ \E r : mem' = [mem EXCEPT ![p] = r]
        /\ job' = job /\ row' = row /\ UNCHANGED <<events, began>>
        /\ AppendEvent(p, job[p])
    BY SaveShape
  <1>2. TypeOK /\ AuditTypeOK
    BY DEF IInv, AuditInv
  <1>3. job[p] \in Tasks
    BY <1>1, BusyHasTask DEF IInv
  <1>4. Untouched(p) /\ pc'[p] \notin {"idle", "load"} /\ began' \in [Sessions -> Nat]
    BY <1>1, <1>2 DEF TypeOK, SqlTypeOK, AuditTypeOK, Untouched
  <1>5. mem'[p] \in Row
    BY DEF IInv, TypeOK, SqlTypeOK
  <1> QED
    BY <1>1, <1>2, <1>3, <1>4, <1>5, SaveKeeps

\* A tick neither writes rows nor notes anything.
LEMMA TickShape ==
  ASSUME IInv, NEW s \in Schedulers, Ticks(s)
  PROVE  /\ UNCHANGED <<auditVars, row, mem, job>>
         /\ \A q \in Sessions \ {s} : pc'[q] = pc[q]
         /\ pc[s] # "idle" => pc'[s] # "idle"
  <1>1. s \in Sessions /\ pc \in [Sessions -> Awaits]
    BY ProcessAssumption DEF IInv, TypeOK
  <1>2. ASSUME NEW due \in SUBSET Tasks, Claim(s, due), UNCHANGED auditVars
        PROVE  UNCHANGED <<auditVars, row, mem, job>> /\ pc' = [pc EXCEPT ![s] = "release"]
    BY <1>2 DEF Claim, sqlVars
  <1>3. ASSUME ListInflight(s), UNCHANGED auditVars
        PROVE  UNCHANGED <<auditVars, row, mem, job>> /\ pc' = [pc EXCEPT ![s] = "inspect"]
    BY <1>3 DEF ListInflight, sqlVars
  <1>4. ASSUME \/ \E t \in Tasks : ReleaseDue(s, t) \/ InspectInflight(s, t)
               \/ SweepEnqueueFailed(s),
               draft' = draft => UNCHANGED <<notes, began>>,
               UNCHANGED events
        PROVE  /\ UNCHANGED <<auditVars, row, mem, job>>
               /\ pc' = pc \/ pc' = [pc EXCEPT ![s] = "commit"]
    BY <1>4, TickIsInert DEF sqlVars, auditVars
  <1> QED
    BY <1>1, <1>2, <1>3, <1>4 DEF Ticks

LEMMA TicksKeep ==
  ASSUME IInv, AuditInv, NEW s \in Schedulers, Ticks(s)
  PROVE  AuditInv'
  <1>1. /\ UNCHANGED <<auditVars, row, mem, job>>
        /\ \A q \in Sessions \ {s} : pc'[q] = pc[q]
    BY TickShape
  <1>2. notes[s] = <<>> /\ s \notin Clients \cup Slots
    BY ProcessAssumption DEF AuditInv, NotesKept
  <1> QED
    BY <1>1, <1>2, WaitKeeps DEF AuditInv, NotesKept

LEMMA EndsKeep ==
  ASSUME IInv, Decisions, AuditInv, NEW p \in Sessions, Ends(p)
  PROVE  AuditInv'
  <1>1. TypeOK /\ AuditTypeOK
    BY DEF IInv, AuditInv
  <1>2. CASE Commit(p) /\ events' = events \o notes[p] /\ Forget(p)
    BY <1>2, CommitKeeps
  <1>3. CASE /\ Abort(p) \/ Raise(p) \/ DropConnection(p) \/ EndLost(p)
                \/ (p \in Slots /\ FailRaises(p))
             /\ Discard(p)
    <2>1. /\ row' = row
          /\ (\E r : mem' = [mem EXCEPT ![p] = r]) \/ mem' = mem
          /\ job' = [job EXCEPT ![p] = NoTask] \/ job' = job
          /\ \E a \in {"idle", "lost", "refused"} : pc' = [pc EXCEPT ![p] = a]
      <3>1. CASE Abort(p)
        BY <3>1 DEF Abort, RollbackSession, ForgetObjects
      <3>2. CASE Raise(p)
        BY <3>2 DEF Raise, RollbackSession, ForgetObjects
      <3>3. CASE DropConnection(p)
        BY <3>3 DEF DropConnection, LoseTransaction
      <3>4. CASE EndLost(p)
        BY <3>4 DEF EndLost, RollbackSession, ForgetObjects
      <3>5. CASE p \in Slots /\ FailRaises(p)
        BY <1>1, <3>5, FailRaisesParts DEF IInv
      <3> QED
        BY <1>3, <3>1, <3>2, <3>3, <3>4, <3>5
    <2>2. began' = [began EXCEPT ![p] = 0]
      BY <1>3 DEF Discard, Forget
    <2>3. pc'[p] \in {"idle", "lost", "refused"} /\ Untouched(p)
      BY <1>1, <2>1, <2>2 DEF TypeOK, SqlTypeOK, AuditTypeOK, Untouched
    <2> QED
      BY <1>1, <1>3, <2>1, <2>3, DiscardKept
  <1>4. CASE p \in Slots /\ FailRaises(p) /\ UNCHANGED auditVars
    <2>1. /\ pc[p] = "exec" /\ pc' = [pc EXCEPT ![p] = "refused"]
          /\ UNCHANGED <<job, row>>
          /\ \E r : mem' = [mem EXCEPT ![p] = r]
      BY <1>1, <1>4, FailRaisesParts DEF IInv
    <2>2. /\ pc'[p] = "refused"
          /\ \A q \in Sessions \ {p} : pc'[q] = pc[q] /\ mem'[q] = mem[q]
      BY <1>1, <2>1 DEF TypeOK, SqlTypeOK
    <2>3. \A q \in Sessions : q = p \/ q \in Sessions \ {p}
      OBVIOUS
    <2>4. NotesKept /\ Clients \cup Slots \subseteq Sessions
      BY ProcessAssumption DEF AuditInv
    <2> QED
      BY <1>4, <2>1, <2>2, <2>3, <2>4, WaitKeeps DEF NotesKept, Raising, Writing
  <1> QED
    BY <1>2, <1>3, <1>4 DEF Ends

\* A process that waits goes on with its task, or a slot takes one up; a row is
\* written before the awaits of Writing.
LEMMA WaitShape ==
  ASSUME IInv, Others
  PROVE  /\ UNCHANGED <<auditVars, row, mem>>
         /\ \/ UNCHANGED <<pc, job>>
            \/ \E p \in Sessions, a \in Awaits \ {"idle"} :
                 /\ pc' = [pc EXCEPT ![p] = a]
                 /\ \/ job' = job /\ pc[p] \notin {"idle", "load", "lost"} /\ a # "load"
                    \/ \E t : job' = [job EXCEPT ![p] = t] /\ pc[p] = "idle" /\ a = "load"
                 /\ a \in Writing => pc[p] \in Writing
                 /\ pc[p] \in Raising => a \in Raising
  <1>1. UNCHANGED auditVars
    BY DEF Others
  <1>2. ASSUME NEW c \in Clients, CancelMark(c) \/ RetryPush(c)
        PROVE  /\ UNCHANGED <<row, mem, job>>
               /\ \E a \in Awaits \ ({"idle", "load"} \cup Writing) :
                    /\ pc[c] \notin Raising \cup {"idle", "load", "lost"}
                    /\ pc' = [pc EXCEPT ![c] = a]
    BY <1>2 DEF CancelMark, RetryPush, sqlVars, Awaits, SavePoints, Writing, Raising
  <1>3. ASSUME NEW w \in Slots, Dequeue(w)
        PROVE  /\ UNCHANGED <<row, mem>> /\ pc[w] = "idle" /\ pc' = [pc EXCEPT ![w] = "load"]
               /\ \E t : job' = [job EXCEPT ![w] = t]
    BY <1>3 DEF Dequeue, sqlVars
  <1>4. ASSUME NEW w \in Slots, CheckCancelled(w)
        PROVE  /\ UNCHANGED <<row, mem, job>>
               /\ \E a \in Awaits \ ({"idle", "load"} \cup Writing) :
                    /\ pc[w] \notin Raising \cup {"idle", "load", "lost"}
                    /\ pc' = [pc EXCEPT ![w] = a]
    BY <1>4 DEF CheckCancelled, sqlVars, Awaits, SavePoints, Writing, Raising
  <1>5. ASSUME NEW w \in Slots, ClearCancelled(w) \/ MarkInflight(w) \/ ClearInflight(w)
        PROVE  /\ UNCHANGED <<row, mem, job>>
               /\ \E a \in Awaits \ {"idle", "load"} :
                    /\ pc[w] \in Writing \/ (pc[w] \in Raising /\ a \in Raising \ Writing)
                    /\ pc' = [pc EXCEPT ![w] = a]
    <2>1. "exec" \in Awaits \ {"idle", "load"} /\ "commit" \in Awaits \ {"idle", "load"}
      BY DEF Awaits
    <2>2. CASE ClearCancelled(w)
      <3>1. UNCHANGED <<row, mem, job>> /\ pc' = [pc EXCEPT ![w] = "commit"] /\ pc[w] \in Writing
        BY <2>2 DEF ClearCancelled, sqlVars, Writing
      <3> QED
        BY <2>1, <3>1
    <2>3. CASE MarkInflight(w)
      <3>1. UNCHANGED <<row, mem, job>> /\ pc' = [pc EXCEPT ![w] = "exec"] /\ pc[w] \in Writing
        BY <2>3 DEF MarkInflight, sqlVars, Writing
      <3> QED
        BY <2>1, <3>1
    <2>4. CASE ClearInflight(w) /\ pc[w] = "clear"
      <3>1. UNCHANGED <<row, mem, job>> /\ pc' = [pc EXCEPT ![w] = "commit"] /\ pc[w] \in Writing
        BY <2>4 DEF ClearInflight, sqlVars, Writing
      <3> QED
        BY <2>1, <3>1
    <2>5. CASE ClearInflight(w) /\ pc[w] = "refused"
      <3>1. pc' = [pc EXCEPT ![w] = "raise"] /\ UNCHANGED <<row, mem, job>>
        BY <2>5 DEF ClearInflight, sqlVars
      <3>2. /\ "raise" \in Awaits \ {"idle", "load"} /\ "raise" \in Raising \ Writing
            /\ pc[w] \in Raising
        BY <2>5 DEF Awaits, Raising, Writing
      <3> QED
        BY <3>1, <3>2
    <2> QED
      BY <1>5, <2>2, <2>3, <2>4, <2>5 DEF ClearInflight
  <1>6. ASSUME NEW p \in Sessions, SelectBeforeSave(p)
        PROVE  UNCHANGED <<row, mem, pc, job>>
    BY <1>6 DEF SelectBeforeSave, Fetch, procVars
  <1>7. ASSUME NEW t \in Tasks, ExpireInflight(t)
        PROVE  UNCHANGED <<row, mem, pc, job>>
    BY <1>7 DEF ExpireInflight, procVars, sqlVars
  <1>8. /\ Clients \cup Slots \subseteq Sessions
        /\ "load" \in Awaits \ ({"idle"} \cup Writing)
        /\ (Writing \cup Raising) \cap {"idle", "load", "lost"} = {}
        /\ Writing \cap Raising = {}
    BY ProcessAssumption DEF Awaits, Writing, Raising
  <1> HIDE DEF Others
  <1>9. UNCHANGED <<row, mem>>
    BY <1>2, <1>3, <1>4, <1>5, <1>6, <1>7 DEF Others
  <1>10. CASE \E c \in Clients : CancelMark(c) \/ RetryPush(c)
    BY <1>1, <1>2, <1>8, <1>9, <1>10
  <1>11. CASE \E w \in Slots : Dequeue(w)
    BY <1>1, <1>3, <1>8, <1>9, <1>11
  <1>12. CASE \E w \in Slots : CheckCancelled(w)
    BY <1>1, <1>4, <1>8, <1>9, <1>12
  <1>13. CASE \E w \in Slots : ClearCancelled(w) \/ MarkInflight(w) \/ ClearInflight(w)
    BY <1>1, <1>5, <1>8, <1>9, <1>13
  <1> QED
    BY <1>1, <1>6, <1>7, <1>9, <1>10, <1>11, <1>12, <1>13 DEF Others

\* The awaits on Redis, and the SELECT of a save().
LEMMA OthersKeep ==
  ASSUME IInv, AuditInv, Others
  PROVE  AuditInv'
  <1>1. UNCHANGED <<auditVars, row, mem>>
    BY WaitShape
  <1>2. NotesKept /\ TypeOK /\ Clients \cup Slots \subseteq Sessions
    BY ProcessAssumption DEF AuditInv, IInv
  <1>3. CASE UNCHANGED <<pc, job>>
    BY <1>1, <1>2, <1>3, WaitKeeps DEF NotesKept
  <1>4. CASE \E p \in Sessions, a \in Awaits \ {"idle"} :
               /\ pc' = [pc EXCEPT ![p] = a]
               /\ \/ job' = job /\ pc[p] \notin {"idle", "load", "lost"} /\ a # "load"
                  \/ \E t : job' = [job EXCEPT ![p] = t] /\ pc[p] = "idle" /\ a = "load"
               /\ a \in Writing => pc[p] \in Writing
               /\ pc[p] \in Raising => a \in Raising
    <2>1. PICK p \in Sessions, a \in Awaits \ {"idle"} :
               /\ pc' = [pc EXCEPT ![p] = a]
               /\ \/ job' = job /\ pc[p] \notin {"idle", "load", "lost"} /\ a # "load"
                  \/ \E t : job' = [job EXCEPT ![p] = t] /\ pc[p] = "idle" /\ a = "load"
               /\ a \in Writing => pc[p] \in Writing
               /\ pc[p] \in Raising => a \in Raising
      BY <1>4
    <2>2. pc'[p] = a /\ \A q \in Sessions \ {p} : pc'[q] = pc[q] /\ job'[q] = job[q]
      BY <1>2, <2>1 DEF TypeOK
    <2>3. \/ job'[p] = job[p] /\ pc[p] \notin {"idle", "load", "lost"} /\ a # "load"
          \/ notes[p] = <<>> /\ a = "load"
      BY <1>2, <2>1 DEF NotesKept
    <2>4. ASSUME NEW q \in Sessions
          PROVE  /\ job'[q] = job[q] \/ notes[q] = <<>>
                 /\ pc'[q] \in Raising \/ pc[q] \notin Raising \/ notes[q] = <<>>
                 /\ pc'[q] \in {"idle", "load"} => notes[q] = <<>>
                 /\ q \in Clients \cup Slots =>
                      /\ pc'[q] \in Writing => notes[q] # <<>>
                      /\ notes[q] = <<>> /\ pc'[q] \notin Raising \cup {"idle", "load", "lost"} =>
                           /\ pc[q] \notin Raising \cup {"idle", "load", "lost"}
                           /\ job'[q] = job[q]
      <3>1. CASE q = p
        BY <1>2, <2>1, <2>2, <2>3, <3>1 DEF NotesKept, Writing
      <3>2. CASE q # p
        BY <1>2, <2>2, <3>2 DEF NotesKept
      <3> QED
        BY <3>1, <3>2
    <2> QED
      BY <1>1, <2>4, WaitKeeps
  <1> QED
    BY <1>3, <1>4, WaitShape

LEMMA InitAudit == AuditInit => IInv /\ Decisions /\ AuditInv
  <1> SUFFICES ASSUME AuditInit PROVE IInv /\ Decisions /\ AuditInv
    OBVIOUS
  <1>1. IInv /\ Decisions
    BY InitIInv, InitDecisions DEF AuditInit
  <1>2. /\ events = <<>> /\ DOMAIN events = {}
        /\ \A p \in Sessions : notes[p] = <<>> /\ DOMAIN notes[p] = {} /\ pc[p] = "idle"
        /\ \A t \in Tasks : ~ Exists(t)
    BY DEF AuditInit, Init, SqlInit, Exists, NoRow
  <1>3. AuditTypeOK
    <2>1. <<>> \in Seq(Event)
      OBVIOUS
    <2> QED
      BY <2>1 DEF AuditInit, AuditTypeOK
  <1>4. NotesKept /\ NotesChained /\ Grounds
    BY <1>2, ProcessAssumption DEF NotesKept, NotesChained, Grounds, Writing
  <1>5. TrailIsGrounded /\ StartedHasOutcome
    BY <1>2 DEF TrailIsGrounded, StartedHasOutcome
  <1> QED
    BY <1>1, <1>3, <1>4, <1>5 DEF AuditInv

LEMMA StepAudit ==
  IInv /\ Decisions /\ AuditInv /\ [AuditNext]_<<vars, auditVars>>
    => IInv' /\ Decisions' /\ AuditInv'
  <1> SUFFICES ASSUME IInv, Decisions, AuditInv, [AuditNext]_<<vars, auditVars>>
               PROVE  IInv' /\ Decisions' /\ AuditInv'
    OBVIOUS
  <1>1. [Next]_vars
    BY StepIsStep
  <1>2. IInv' /\ Decisions'
    BY <1>1, StepIInv, StepDecisions
  <1>3. CASE UNCHANGED <<vars, auditVars>>
    <2>1. UNCHANGED <<auditVars, row, mem, pc, job>>
      BY <1>3 DEF vars, sqlVars, procVars
    <2>2. NotesKept /\ Clients \cup Slots \subseteq Sessions
      BY ProcessAssumption DEF AuditInv
    <2>3. AuditInv'
      BY <2>1, <2>2, WaitKeeps DEF NotesKept
    <2> QED
      BY <1>2, <2>3
  <1> QED
    BY <1>2, <1>3, SubmitsKeep, ReadsKeep, SavesKeep, EndsKeep, TicksKeep, OthersKeep
       DEF AuditNext

-----------------------------------------------------------------------------
(* Theorems *)

\* What open transactions have appended, and what is committed in task_events,
\* agrees in every state with the rows and with the objects that are about to be
\* saved.
THEOREM AuditInvariant == AuditSpec => [](IInv /\ Decisions /\ AuditInv)
  <1>1. AuditInit => IInv /\ Decisions /\ AuditInv
    BY InitAudit
  <1>2. IInv /\ Decisions /\ AuditInv /\ [AuditNext]_<<vars, auditVars>>
          => (IInv /\ Decisions /\ AuditInv)'
    BY StepAudit
  <1> QED
    BY <1>1, <1>2, PTL DEF AuditSpec

\* Every behaviour with events is one of the queue: what is proved of AtlasQueue
\* holds of transactions that append to task_events as well.
THEOREM AuditIsQueue == AuditSpec => Spec
  <1>1. AuditInit => Init
    BY DEF AuditInit
  <1>2. [AuditNext]_<<vars, auditVars>> => [Next]_vars
    BY StepIsStep
  <1> QED
    BY <1>1, <1>2, PTL DEF AuditSpec, Spec

\* from_status of every event in task_events is the to_status of an earlier
\* event of the task, although append() takes it from an object that may be old.
THEOREM TrailGrounded == AuditSpec => []TrailIsGrounded
  <1>1. AuditInv => TrailIsGrounded
    BY DEF AuditInv
  <1> QED
    BY <1>1, AuditInvariant, PTL

\* task.started is followed by the outcome of the execution, of the same
\* transaction: what was cut off has rolled its event back.
THEOREM StartsHaveOutcomes == AuditSpec => []StartedHasOutcome
  <1>1. AuditInv => StartedHasOutcome
    BY DEF AuditInv
  <1> QED
    BY <1>1, AuditInvariant, PTL

\* Only Commit changes rows.
LEMMA RowsChangeByCommit ==
  ASSUME IInv, [AuditNext]_<<vars, auditVars>>, row' # row
  PROVE  \E p \in Sessions : Commit(p) /\ events' = events \o notes[p]
  <1>1. AuditNext
    BY DEF vars, sqlVars
  <1>2. ASSUME NEW c \in Clients, Submits(c) PROVE FALSE
    BY <1>2 DEF Submits, SubmitSave, Insert
  <1>3. ASSUME NEW p \in Sessions, Reads(p) PROVE FALSE
    BY <1>3 DEF Reads, CancelLoad, RetryLoad, LoadTask, Load, sqlVars
  <1>4. ASSUME NEW p \in Sessions, Saves(p) PROVE FALSE
    BY <1>4, SaveShape
  <1>5. ASSUME NEW s \in Schedulers, Ticks(s) PROVE FALSE
    BY <1>5, TickShape
  <1>6. ASSUME Others PROVE FALSE
    BY <1>6, WaitShape
  <1>7. ASSUME NEW p \in Sessions, Ends(p)
        PROVE  Commit(p) /\ events' = events \o notes[p]
    BY <1>7, FailRaisesParts
       DEF Ends, Abort, Raise, DropConnection, EndLost, RollbackSession, LoseTransaction, IInv
  <1> QED
    BY <1>1, <1>2, <1>3, <1>4, <1>5, <1>6, <1>7 DEF AuditNext

\* No status appears in a row without its event in the same commit, on any path
\* of submit, cancel, retry_task and execute_task.
THEOREM ChangesAudited == AuditSpec => ChangesAreAudited
  <1>1. ASSUME IInv, AuditInv, [AuditNext]_<<vars, auditVars>>
        PROVE  [\A t \in Tasks : row'[t].status # row[t].status =>
                  /\ Len(events') > Len(events)
                  /\ LET last == events'[Len(events')]
                     IN  last.task = t /\ last.to = row'[t].status]_<<vars, auditVars>>
    <2> SUFFICES ASSUME NEW t \in Tasks, row'[t].status # row[t].status
                 PROVE  /\ Len(events') > Len(events)
                        /\ events'[Len(events')].task = t
                        /\ events'[Len(events')].to = row'[t].status
      OBVIOUS
    <2>1. PICK p \in Sessions : Commit(p) /\ events' = events \o notes[p]
      BY <1>1, RowsChangeByCommit
    <2> QED
      BY <1>1, <2>1, CommitTells
  <1> QED
    BY <1>1, AuditInvariant, PTL DEF AuditSpec, ChangesAreAudited
=============================================================================
