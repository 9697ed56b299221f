----------------------- MODULE WorkdayPositionsProofs -----------------------
(***************************************************************************)
(* The safety invariants of WorkdayPositions, for any people, positions,   *)
(* threads and bounds.  None of them is inductive by itself: what a thread *)
(* read before a step must still say enough about the tables when it       *)
(* writes.  ThreadsKnow, ReviewChecked and NumberGuards state how much.    *)
(* At the end, what a review may show of the day besides its own position. *)
(***************************************************************************)
EXTENDS WorkdayPositions, TLAPS

\* Applications are made one after the other and never removed.
AppsKnown ==
    \A a \in Ids :
      IF a <= lastApp
      THEN app[a].person \in People /\ app[a].position \in Positions /\ app[a].status # "absent"
      ELSE app[a] = NoApp

\* A reviewing or withdrawing thread has an application in hand; an applying
\* one has seen a published day.
Knows(r, last, count) ==
    /\ r.pc \in {"check", "accept", "decline", "withdraw"} => r.app \in 1..last
    /\ r.pc \in {"apply", "insert"} =>
         r.person \in People /\ r.position \in Positions /\ count > 0

ThreadsKnow == \A t \in Threads : Knows(thread[t], lastApp, versions)

\* An applicant about to be accepted holds no position, unless overridden.
ReviewChecked ==
    thread[Loop].pc = "accept" =>
      thread[Loop].flag \/ \A p \in Positions : slot[p] # app[thread[Loop].app].person

\* If another publication took the number of the loop's, it came after the
\* loop's change and has recorded whether it showed it.
NumberGuards ==
    thread[Loop].pc = "publish" /\ day = "published" =>
      thread[Loop].number = versions + 1 \/ behind \/ shown = slot

PublishedHasVersion == day = "published" => Published

IInv == /\ TypeOK /\ AppsKnown /\ ThreadsKnow
        /\ ReviewChecked /\ DoubleRolesDeliberate
        /\ PendingIsOffered /\ OneLiveApplication
        /\ PublishedHasVersion /\ DeletedHasNoHistory
        /\ NumberGuards /\ PublishedIsCurrent

-----------------------------------------------------------------------------
(* Types                                                                    *)

LEMMA IdleTyped == Idle \in Locals /\ NoApp \in AppRows /\ Closed \in Slots
BY WorkdayAssumption DEF Idle, Locals, NoApp, AppRows, Statuses, Closed, Slots

\* Records a step makes of a thread's own.
LEMMA LocalsMoved ==
    ASSUME NEW r \in Locals
    PROVE  /\ [r EXCEPT !.pc = "insert"] \in Locals
           /\ [r EXCEPT !.pc = "accept"] \in Locals
           /\ [r EXCEPT !.pc = "republish"] \in Locals
           /\ \A p \in Positions : [r EXCEPT !.pc = "republish", !.position = p] \in Locals
           /\ \A s \in Slots : [r EXCEPT !.pc = "number", !.slots = s] \in Locals
           /\ \A n \in 0..MaxVersions : [r EXCEPT !.pc = "publish", !.number = n] \in Locals
BY DEF Locals

\* Records a request starts with.
LEMMA LocalsBegun ==
    /\ \A f \in BOOLEAN : [Idle EXCEPT !.pc = "save", !.flag = f] \in Locals
    /\ \A x \in People, p \in Positions :
         [Idle EXCEPT !.pc = "apply", !.person = x, !.position = p] \in Locals
    /\ \A a \in Ids : [Idle EXCEPT !.pc = "withdraw", !.app = a] \in Locals
    /\ \A a \in Ids, accept, override \in BOOLEAN :
         [Idle EXCEPT !.pc = IF accept THEN "check" ELSE "decline",
                      !.app = a, !.flag = override] \in Locals
<1>1. \A f \in BOOLEAN : [Idle EXCEPT !.pc = "save", !.flag = f] \in Locals
  BY IdleTyped DEF Locals
<1>2. \A x \in People, p \in Positions :
        [Idle EXCEPT !.pc = "apply", !.person = x, !.position = p] \in Locals
  BY IdleTyped DEF Locals
<1>3. Ids \subseteq 0..MaxApps
  BY WorkdayAssumption DEF Ids
<1>4. \A a \in Ids : [Idle EXCEPT !.pc = "withdraw", !.app = a] \in Locals
  BY <1>3, IdleTyped DEF Locals
<1>5. ASSUME NEW a \in Ids, NEW accept \in BOOLEAN, NEW override \in BOOLEAN
      PROVE  [Idle EXCEPT !.pc = IF accept THEN "check" ELSE "decline",
                          !.app = a, !.flag = override] \in Locals
  <2> DEFINE pc == IF accept THEN "check" ELSE "decline"
  <2>1. pc \in {"check", "decline"}
    OBVIOUS
  <2> HIDE DEF pc
  <2>2. [Idle EXCEPT !.pc = pc, !.app = a, !.flag = override] \in Locals
    BY <1>3, <2>1, IdleTyped DEF Locals
  <2> QED BY <2>2 DEF pc
<1> QED BY <1>1, <1>2, <1>4, <1>5

LEMMA TypeStep ==
    ASSUME IInv, Next PROVE TypeOK'
<1> USE IdleTyped, WorkdayAssumption DEF IInv, TypeOK, Become, Threads
<1>1. ASSUME SaveReads PROVE TypeOK'
  <2>1. Published \in BOOLEAN
    BY DEF Published
  <2> QED BY <1>1, <2>1, LocalsBegun DEF SaveReads
<1>2. ASSUME NEW form \in Forms, NEW keepBoth \in BOOLEAN, SaveWrites(form, keepBoth)
      PROVE  TypeOK'
  <2>1. form \in Slots /\ Doubled(form) \subseteq People
    BY DEF Slots, Doubled
  <2>2. app' \in [Ids -> AppRows]
    BY <1>2 DEF SaveWrites, CancelClosed, AppRows, Statuses
  <2> QED BY <1>2, <2>1, <2>2 DEF SaveWrites, Replace, SavedStatus
<1>3. ASSUME NEW a \in Ids, NEW accept \in BOOLEAN, NEW override \in BOOLEAN,
             ReviewReads(a, accept, override)
      PROVE  TypeOK'
  BY <1>3, LocalsBegun DEF ReviewReads
<1>4. ASSUME NEW elsewhere \in BOOLEAN, ReviewChecks(elsewhere) PROVE TypeOK'
  <2>1. thread[Loop] \in Locals
    OBVIOUS
  <2> QED BY <1>4, <2>1, LocalsMoved DEF ReviewChecks
<1>5. ASSUME ReviewAccepts PROVE TypeOK'
  <2> DEFINE a == thread[Loop].app
  <2>1. a \in Ids /\ app[a].person \in People /\ app[a].position \in Positions
    BY <1>5 DEF ReviewAccepts, ThreadsKnow, Knows, AppsKnown, Ids
  <2>2. CASE slot[app[a].position] = "open" /\ LiveApps(app[a].person, app[a].position) \subseteq {a}
    <3>1. app' \in [Ids -> AppRows]
      BY <1>5, <2>2 DEF ReviewAccepts, Accept, Answer, AppRows, Statuses
    <3>2. thread' \in [Threads -> Locals]
      <4>1. [thread[Loop] EXCEPT !.pc = "republish", !.position = app[a].position] \in Locals
        BY <2>1, LocalsMoved
      <4> QED BY <1>5, <2>2, <4>1 DEF ReviewAccepts, Accept
    <3> QED BY <1>5, <2>1, <2>2, <3>1, <3>2 DEF ReviewAccepts, Accept, Slots
  <2>3. CASE ~(slot[app[a].position] = "open" /\ LiveApps(app[a].person, app[a].position) \subseteq {a})
    BY <1>5, <2>3 DEF ReviewAccepts, Accept
  <2> QED BY <2>2, <2>3
<1>6. ASSUME ReviewDeclines PROVE TypeOK'
  BY <1>6 DEF ReviewDeclines, Locals, AppRows, Statuses
<1>7. ASSUME Restart PROVE TypeOK'
  BY <1>7 DEF Restart, Republishing
<1>8. ASSUME NEW t \in Threads, PublishReads(t) PROVE TypeOK'
  BY <1>8, LocalsMoved DEF PublishReads
<1>9. ASSUME NEW t \in Threads, PublishNumbers(t) PROVE TypeOK'
  <2>1. versions + 1 \in 0..MaxVersions
    BY <1>9 DEF PublishNumbers
  <2> QED BY <1>9, <2>1, LocalsMoved DEF PublishNumbers
<1>10. ASSUME NEW t \in Threads, PublishWrites(t) PROVE TypeOK'
  <2>1. thread[t].number \in 0..MaxVersions /\ thread[t].slots \in Slots
    BY DEF Locals
  <2> QED BY <1>10, <2>1 DEF PublishWrites
<1>11. ASSUME NEW t \in Pool, NEW x \in People, NEW p \in Positions, ApplyReads(t, x, p)
       PROVE  TypeOK'
  BY <1>11, LocalsBegun DEF ApplyReads
<1>12. ASSUME NEW t \in Pool, NEW elsewhere \in BOOLEAN, ApplyChecks(t, elsewhere) PROVE TypeOK'
  BY <1>12, LocalsMoved DEF ApplyChecks
<1>13. ASSUME NEW t \in Pool, ApplyInserts(t) PROVE TypeOK'
  <2>1. thread[t].person \in People /\ thread[t].position \in Positions
    BY <1>13 DEF ApplyInserts, ThreadsKnow, Knows
  <2>2. app' \in [Ids -> AppRows]
    <3>1. \A x \in People, p \in Positions :
            [person |-> x, position |-> p, status |-> "pending", late |-> slot[p] # "open"] \in AppRows
      BY DEF AppRows, Statuses
    <3> QED BY <1>13, <2>1, <3>1 DEF ApplyInserts, Insert
  <2> QED BY <1>13, <2>2 DEF ApplyInserts, Insert
<1>14. ASSUME NEW t \in Pool, NEW a \in Ids, WithdrawReads(t, a) PROVE TypeOK'
  BY <1>14, LocalsBegun DEF WithdrawReads
<1>15. ASSUME NEW t \in Pool, WithdrawWrites(t) PROVE TypeOK'
  BY <1>15 DEF WithdrawWrites, AppRows, Statuses
<1>16. ASSUME NEW t \in Pool, DeleteDraft(t) PROVE TypeOK'
  BY <1>16 DEF DeleteDraft
<1> QED
  BY <1>1, <1>2, <1>3, <1>4, <1>5, <1>6, <1>7, <1>8, <1>9, <1>10, <1>11, <1>12, <1>13,
     <1>14, <1>15, <1>16
  DEF Next, SaveStep, ReviewStep, PublishStep, PoolStep

-----------------------------------------------------------------------------
(* What threads know                                                        *)

\* A thread that knows its new record leaves all threads knowing.
LEMMA ThreadMoves ==
    ASSUME TypeOK, ThreadsKnow, NEW t \in Threads, NEW r, Become(t, r),
           lastApp' \in Nat, lastApp <= lastApp', versions' \in Nat, versions <= versions',
           Knows(r, lastApp', versions')
    PROVE  ThreadsKnow'
<1> SUFFICES ASSUME NEW u \in Threads PROVE Knows(thread'[u], lastApp', versions')
  BY DEF ThreadsKnow
<1>1. CASE u = t
  BY <1>1 DEF TypeOK, Become
<1>2. CASE u # t
  <2>1. thread'[u] = thread[u] /\ Knows(thread[u], lastApp, versions)
    BY <1>2 DEF TypeOK, Become, ThreadsKnow
  <2> QED BY <2>1 DEF Knows, TypeOK
<1> QED BY <1>1, <1>2

LEMMA IdleKnows ==
    ASSUME NEW last, NEW count PROVE Knows(Idle, last, count)
BY DEF Knows, Idle

\* Row b keeps all but its status.
Answered(b) ==
    /\ app[b].status # "absent" /\ app'[b].status # "absent"
    /\ app'[b].person = app[b].person /\ app'[b].position = app[b].position

LEMMA AppsKept ==
    ASSUME AppsKnown, UNCHANGED lastApp, \A b \in Ids : app'[b] = app[b] \/ Answered(b)
    PROVE  AppsKnown'
<1> SUFFICES ASSUME NEW b \in Ids
             PROVE  IF b <= lastApp
                    THEN /\ app'[b].person \in People /\ app'[b].position \in Positions
                         /\ app'[b].status # "absent"
                    ELSE app'[b] = NoApp
  BY DEF AppsKnown
<1>1. CASE app'[b] = app[b]
  BY <1>1 DEF AppsKnown
<1>2. CASE Answered(b)
  BY <1>2 DEF AppsKnown, Answered, NoApp
<1> QED BY <1>1, <1>2

LEMMA KnowsStep ==
    ASSUME IInv, Next PROVE AppsKnown' /\ ThreadsKnow'
<1> DEFINE Goal == AppsKnown' /\ ThreadsKnow'
<1>0. /\ TypeOK /\ AppsKnown /\ ThreadsKnow
      /\ lastApp \in Nat /\ versions \in Nat /\ lastApp <= lastApp /\ versions <= versions
      /\ Loop \in Threads /\ Pool \subseteq Threads
  BY WorkdayAssumption DEF IInv, TypeOK, Threads
<1>1. ASSUME SaveReads PROVE Goal
  <2> DEFINE r == [Idle EXCEPT !.pc = "save", !.flag = Published]
  <2>1. Become(Loop, r) /\ UNCHANGED <<app, lastApp, versions>> /\ Knows(r, lastApp, versions)
    BY <1>1 DEF SaveReads, Idle, Knows
  <2> HIDE DEF r
  <2> QED BY <1>0, <2>1, ThreadMoves DEF AppsKnown
<1>2. ASSUME NEW form \in Forms, NEW keepBoth \in BOOLEAN, SaveWrites(form, keepBoth)
      PROVE  Goal
  <2>1. Become(Loop, Idle) /\ UNCHANGED <<lastApp, versions>>
    BY <1>2 DEF SaveWrites, Replace
  <2>2. AppsKnown'
    <3>1. ASSUME NEW b \in Ids PROVE app'[b] = app[b] \/ Answered(b)
      BY <1>0, <1>2 DEF SaveWrites, CancelClosed, Answered, TypeOK, AppRows
    <3> QED BY <1>0, <2>1, <3>1, AppsKept
  <2> QED BY <1>0, <2>1, <2>2, IdleKnows, ThreadMoves
<1>3. ASSUME NEW a \in Ids, NEW accept \in BOOLEAN, NEW override \in BOOLEAN,
             ReviewReads(a, accept, override)
      PROVE  Goal
  <2> DEFINE r == [Idle EXCEPT !.pc = IF accept THEN "check" ELSE "decline",
                               !.app = a, !.flag = override]
  <2>1. Become(Loop, r) /\ UNCHANGED <<app, lastApp, versions>>
    BY <1>3 DEF ReviewReads
  <2>2. a \in 1..lastApp
    BY <1>0, <1>3 DEF ReviewReads, AppsKnown, NoApp, Ids
  <2>3. Knows(r, lastApp, versions)
    BY <2>2 DEF Idle, Knows
  <2> HIDE DEF r
  <2> QED BY <1>0, <2>1, <2>3, ThreadMoves DEF AppsKnown
<1>4. ASSUME NEW elsewhere \in BOOLEAN, ReviewChecks(elsewhere) PROVE Goal
  <2> DEFINE r == [thread[Loop] EXCEPT !.pc = "accept"]
  <2>1. UNCHANGED <<app, lastApp, versions>> /\ (Become(Loop, r) \/ Become(Loop, Idle))
    BY <1>4 DEF ReviewChecks
  <2>2. Knows(r, lastApp, versions)
    BY <1>0, <1>4 DEF ReviewChecks, ThreadsKnow, Knows, TypeOK, Locals
  <2> HIDE DEF r
  <2> QED BY <1>0, <2>1, <2>2, IdleKnows, ThreadMoves DEF AppsKnown
<1>5. ASSUME ReviewAccepts PROVE Goal
  <2> DEFINE a == thread[Loop].app
             r == [thread[Loop] EXCEPT !.pc = "republish", !.position = app[a].position]
  <2>1. UNCHANGED <<lastApp, versions>> /\ (Become(Loop, r) \/ Become(Loop, Idle))
    BY <1>5 DEF ReviewAccepts, Accept
  <2>2. Knows(r, lastApp, versions)
    BY <1>0 DEF Knows, TypeOK, Locals
  <2>3. AppsKnown'
    <3>1. a \in 1..lastApp
      BY <1>0, <1>5 DEF ReviewAccepts, ThreadsKnow, Knows
    <3>2. a \in Ids /\ app[a].status # "absent"
      BY <1>0, <3>1, WorkdayAssumption DEF AppsKnown, Ids, TypeOK
    <3>3. ASSUME NEW b \in Ids PROVE app'[b] = app[b] \/ Answered(b)
      <4>1. app[b] \in AppRows
        BY <1>0 DEF TypeOK
      <4>2. CASE app' = app
        BY <4>2
      <4>3. CASE Answer(a, app[a].position, "declined")
        BY <3>2, <4>1, <4>3 DEF Answer, PendingAt, Answered, AppRows
      <4> QED BY <1>5, <4>2, <4>3 DEF ReviewAccepts, Accept
    <3> QED BY <1>0, <2>1, <3>3, AppsKept
  <2> HIDE DEF r
  <2> QED BY <1>0, <2>1, <2>2, <2>3, IdleKnows, ThreadMoves
<1>6. ASSUME ReviewDeclines PROVE Goal
  <2> DEFINE r == [thread[Loop] EXCEPT !.pc = "republish"]
  <2>1. UNCHANGED <<lastApp, versions>> /\ Become(Loop, r)
    BY <1>6 DEF ReviewDeclines
  <2>2. Knows(r, lastApp, versions)
    BY <1>0 DEF Knows, TypeOK, Locals
  <2>3. thread[Loop].app \in 1..lastApp
    BY <1>0, <1>6 DEF ReviewDeclines, ThreadsKnow, Knows
  <2>4. AppsKnown'
    BY <1>0, <1>6, <2>1, <2>3 DEF ReviewDeclines, AppsKnown, TypeOK, AppRows, Ids
  <2> HIDE DEF r
  <2> QED BY <1>0, <2>1, <2>2, <2>4, ThreadMoves
<1>7. ASSUME Restart PROVE Goal
  BY <1>0, <1>7, IdleKnows DEF Restart, AppsKnown, ThreadsKnow
<1>8. ASSUME NEW t \in Threads, PublishReads(t) PROVE Goal
  <2> DEFINE r == [thread[t] EXCEPT !.pc = "number", !.slots = slot]
  <2>1. UNCHANGED <<app, lastApp, versions>> /\ (Become(t, r) \/ Become(t, Idle))
    BY <1>8 DEF PublishReads
  <2>2. Knows(r, lastApp, versions)
    BY <1>0 DEF Knows, TypeOK, Locals
  <2> HIDE DEF r
  <2> QED BY <1>0, <2>1, <2>2, IdleKnows, ThreadMoves DEF AppsKnown
<1>9. ASSUME NEW t \in Threads, PublishNumbers(t) PROVE Goal
  <2> DEFINE r == [thread[t] EXCEPT !.pc = "publish", !.number = versions + 1]
  <2>1. UNCHANGED <<app, lastApp, versions>> /\ (Become(t, r) \/ Become(t, Idle))
    BY <1>9 DEF PublishNumbers
  <2>2. Knows(r, lastApp, versions)
    BY <1>0 DEF Knows, TypeOK, Locals
  <2> HIDE DEF r
  <2> QED BY <1>0, <2>1, <2>2, IdleKnows, ThreadMoves DEF AppsKnown
<1>10. ASSUME NEW t \in Threads, PublishWrites(t) PROVE Goal
  <2>1. UNCHANGED <<app, lastApp>> /\ versions' \in Nat /\ versions <= versions' /\ Become(t, Idle)
    BY <1>0, <1>10 DEF PublishWrites, TypeOK
  <2> QED BY <1>0, <2>1, IdleKnows, ThreadMoves DEF AppsKnown
<1>11. ASSUME NEW t \in Pool, NEW x \in People, NEW p \in Positions, ApplyReads(t, x, p)
       PROVE  Goal
  <2> DEFINE r == [Idle EXCEPT !.pc = "apply", !.person = x, !.position = p]
  <2>1. UNCHANGED <<app, lastApp, versions>> /\ Become(t, r) /\ Knows(r, lastApp, versions)
    BY <1>11 DEF ApplyReads, Published, Idle, Knows
  <2> HIDE DEF r
  <2> QED BY <1>0, <2>1, ThreadMoves DEF AppsKnown
<1>12. ASSUME NEW t \in Pool, NEW elsewhere \in BOOLEAN, ApplyChecks(t, elsewhere) PROVE Goal
  <2> DEFINE r == [thread[t] EXCEPT !.pc = "insert"]
  <2>1. UNCHANGED <<app, lastApp, versions>> /\ (Become(t, r) \/ Become(t, Idle))
    BY <1>12 DEF ApplyChecks
  <2>2. Knows(r, lastApp, versions)
    BY <1>0, <1>12 DEF ApplyChecks, ThreadsKnow, Knows, TypeOK, Locals
  <2> HIDE DEF r
  <2> QED BY <1>0, <2>1, <2>2, IdleKnows, ThreadMoves DEF AppsKnown
<1>13. ASSUME NEW t \in Pool, ApplyInserts(t) PROVE Goal
  <2>1. /\ thread[t].person \in People /\ thread[t].position \in Positions
        /\ Become(t, Idle) /\ UNCHANGED versions
    BY <1>0, <1>13 DEF ApplyInserts, ThreadsKnow, Knows
  <2>2. lastApp' \in Nat /\ lastApp <= lastApp'
    BY <1>0, <1>13 DEF ApplyInserts, Insert
  <2>3. AppsKnown'
    <3>1. CASE UNCHANGED <<app, lastApp>>
      BY <1>0, <3>1 DEF AppsKnown
    <3>2. CASE Insert(thread[t].person, thread[t].position)
      <4> DEFINE row == [person |-> thread[t].person, position |-> thread[t].position,
                         status |-> "pending", late |-> slot[thread[t].position] # "open"]
      <4>1. app' = [app EXCEPT ![lastApp + 1] = row] /\ lastApp' = lastApp + 1
        BY <3>2 DEF Insert
      <4>2. row.person \in People /\ row.position \in Positions /\ row.status # "absent"
        BY <2>1
      <4> HIDE DEF row
      <4>3. ASSUME NEW b \in Ids
            PROVE  IF b <= lastApp'
                   THEN /\ app'[b].person \in People /\ app'[b].position \in Positions
                        /\ app'[b].status # "absent"
                   ELSE app'[b] = NoApp
        <5>1. CASE b = lastApp + 1
          BY <1>0, <4>1, <4>2, <5>1 DEF TypeOK, Ids
        <5>2. CASE b # lastApp + 1
          <6>1. app'[b] = app[b] /\ (b <= lastApp' <=> b <= lastApp)
            BY <1>0, <4>1, <5>2 DEF TypeOK, Ids
          <6> QED BY <1>0, <6>1 DEF AppsKnown
        <5> QED BY <5>1, <5>2
      <4> QED BY <4>3 DEF AppsKnown
    <3> QED BY <1>13, <3>1, <3>2 DEF ApplyInserts
  <2> QED BY <1>0, <2>1, <2>2, <2>3, IdleKnows, ThreadMoves
<1>14. ASSUME NEW t \in Pool, NEW a \in Ids, WithdrawReads(t, a) PROVE Goal
  <2> DEFINE r == [Idle EXCEPT !.pc = "withdraw", !.app = a]
  <2>1. UNCHANGED <<app, lastApp, versions>> /\ Become(t, r)
    BY <1>14 DEF WithdrawReads
  <2>2. a \in 1..lastApp
    BY <1>0, <1>14 DEF WithdrawReads, AppsKnown, NoApp, Ids
  <2>3. Knows(r, lastApp, versions)
    BY <2>2 DEF Idle, Knows
  <2> HIDE DEF r
  <2> QED BY <1>0, <2>1, <2>3, ThreadMoves DEF AppsKnown
<1>15. ASSUME NEW t \in Pool, WithdrawWrites(t) PROVE Goal
  <2>1. UNCHANGED <<lastApp, versions>> /\ Become(t, Idle) /\ thread[t].app \in 1..lastApp
    BY <1>0, <1>15 DEF WithdrawWrites, ThreadsKnow, Knows
  <2>2. AppsKnown'
    BY <1>0, <1>15, <2>1 DEF WithdrawWrites, AppsKnown, TypeOK, AppRows, Ids
  <2> QED BY <1>0, <2>1, <2>2, IdleKnows, ThreadMoves
<1>16. ASSUME NEW t \in Pool, DeleteDraft(t) PROVE Goal
  BY <1>0, <1>16 DEF DeleteDraft, AppsKnown, ThreadsKnow
<1> QED
  BY <1>1, <1>2, <1>3, <1>4, <1>5, <1>6, <1>7, <1>8, <1>9, <1>10, <1>11, <1>12, <1>13,
     <1>14, <1>15, <1>16
  DEF Next, SaveStep, ReviewStep, PublishStep, PoolStep

-----------------------------------------------------------------------------
(* Positions, roles and the publication: what changes positions             *)

\* Only a save, an acceptance and a deletion change positions.
Quiet == UNCHANGED <<slot, kept>>

\* Which step changes what: the steps fall into those of a pool thread that
\* leave the loop's record and the positions, and those named here.
LEMMA PoolQuiet ==
    ASSUME TypeOK, NEW t \in Pool,
           \/ PublishStep(t)
           \/ \E x \in People, p \in Positions : ApplyReads(t, x, p)
           \/ \E elsewhere \in BOOLEAN : ApplyChecks(t, elsewhere)
           \/ ApplyInserts(t)
           \/ \E a \in Ids : WithdrawReads(t, a)
           \/ WithdrawWrites(t)
    PROVE  Quiet /\ thread'[Loop] = thread[Loop]
BY WorkdayAssumption
DEF TypeOK, Threads, Become, Quiet, PublishStep, PublishReads, PublishNumbers, PublishWrites,
    ApplyReads, ApplyChecks, ApplyInserts, WithdrawReads, WithdrawWrites

\* Nobody ever changes who made an application.
LEMMA SameApplicant ==
    ASSUME IInv, Next, NEW a \in 1..lastApp PROVE app'[a].person = app[a].person
<1> USE WorkdayAssumption DEF IInv, TypeOK, AppRows, Ids
<1>0. a \in Ids
  OBVIOUS
<1>1. CASE UNCHANGED app
  BY <1>1
<1>2. ASSUME NEW form \in Forms, NEW keepBoth \in BOOLEAN, SaveWrites(form, keepBoth)
      PROVE  app'[a].person = app[a].person
  BY <1>0, <1>2 DEF SaveWrites, CancelClosed
<1>3. CASE ReviewAccepts
  BY <1>0, <1>3 DEF ReviewAccepts, Accept, Answer
<1>4. CASE ReviewDeclines
  BY <1>0, <1>4 DEF ReviewDeclines
<1>5. ASSUME NEW t \in Pool, ApplyInserts(t) PROVE app'[a].person = app[a].person
  <2>1. a # lastApp + 1
    OBVIOUS
  <2> QED BY <1>0, <1>5, <2>1 DEF ApplyInserts, Insert
<1>6. ASSUME NEW t \in Pool, WithdrawWrites(t) PROVE app'[a].person = app[a].person
  BY <1>0, <1>6 DEF WithdrawWrites
<1> QED
  BY <1>1, <1>2, <1>3, <1>4, <1>5, <1>6
  DEF Next, SaveStep, ReviewStep, PublishStep, PoolStep, SaveReads, ReviewReads, ReviewChecks,
      Restart, PublishReads, PublishNumbers, PublishWrites, ApplyReads, ApplyChecks,
      WithdrawReads, DeleteDraft

LEMMA ClosedSingle == Doubled(Closed) = {}
BY WorkdayAssumption DEF Doubled, Closed

\* A loop step other than an acceptance's check does not reach "accept".
LEMMA RoleStep ==
    ASSUME IInv, Next PROVE ReviewChecked' /\ DoubleRolesDeliberate'
<1> DEFINE Goal == ReviewChecked' /\ DoubleRolesDeliberate'
<1>0. TypeOK /\ ReviewChecked /\ DoubleRolesDeliberate /\ Loop \in Threads /\ ThreadsKnow
  BY DEF IInv, Threads
<1>a. ASSUME Quiet, thread'[Loop].pc # "accept" PROVE Goal
  BY <1>0, <1>a DEF Quiet, ReviewChecked, DoubleRolesDeliberate, Doubled
<1>b. ASSUME Quiet, thread'[Loop] = thread[Loop] PROVE Goal
  <2>1. thread[Loop].pc = "accept" => app'[thread[Loop].app].person = app[thread[Loop].app].person
    BY <1>0, SameApplicant DEF ThreadsKnow, Knows
  <2> QED BY <1>0, <1>b, <2>1 DEF Quiet, ReviewChecked, DoubleRolesDeliberate, Doubled
<1>1. ASSUME SaveReads PROVE Goal
  BY <1>0, <1>1, <1>a DEF SaveReads, Become, TypeOK, Idle, Quiet
<1>2. ASSUME NEW form \in Forms, NEW keepBoth \in BOOLEAN, SaveWrites(form, keepBoth)
      PROVE  Goal
  <2>1. thread'[Loop].pc = "idle"
    BY <1>0, <1>2 DEF SaveWrites, Replace, Become, TypeOK, Idle
  <2> QED BY <1>0, <1>2, <1>a, <2>1
          DEF SaveWrites, Replace, Quiet, ReviewChecked, DoubleRolesDeliberate, Doubled
<1>3. ASSUME NEW a \in Ids, NEW accept \in BOOLEAN, NEW override \in BOOLEAN,
             ReviewReads(a, accept, override)
      PROVE  Goal
  BY <1>0, <1>3, <1>a DEF ReviewReads, Become, TypeOK, Idle, Quiet
<1>4. ASSUME NEW elsewhere \in BOOLEAN, ReviewChecks(elsewhere) PROVE Goal
  <2> DEFINE r == [thread[Loop] EXCEPT !.pc = "accept"]
  <2>1. CASE Become(Loop, Idle)
    BY <1>0, <1>4, <2>1, <1>a DEF ReviewChecks, Become, TypeOK, Idle, Quiet
  <2>2. CASE Become(Loop, r) /\ ~(Conflict(app[thread[Loop].app].person, elsewhere) /\ ~thread[Loop].flag)
    <3>1. r.app = thread[Loop].app /\ r.flag = thread[Loop].flag
      BY <1>0 DEF TypeOK, Locals
    <3>2. thread'[Loop] = r /\ UNCHANGED <<app, slot, kept>>
      BY <1>0, <1>4, <2>2 DEF ReviewChecks, Become, TypeOK
    <3>3. thread[Loop].flag \/ \A p \in Positions : slot[p] # app[thread[Loop].app].person
      BY <1>0, <2>2 DEF Conflict, TypeOK, Locals
    <3> HIDE DEF r
    <3> QED BY <1>0, <3>1, <3>2, <3>3 DEF ReviewChecked, DoubleRolesDeliberate, Doubled
  <2> QED BY <1>4, <2>1, <2>2 DEF ReviewChecks
<1>5. ASSUME ReviewAccepts PROVE Goal
  <2> DEFINE a == thread[Loop].app
             x == app[a].person
             q == app[a].position
  <2>1. CASE Quiet /\ Become(Loop, Idle)
    BY <1>0, <2>1, <1>a DEF Become, TypeOK, Idle
  <2>2. CASE /\ slot' = [slot EXCEPT ![q] = x]
             /\ kept' = IF thread[Loop].flag THEN kept \cup {x} ELSE kept
             /\ Become(Loop, [thread[Loop] EXCEPT !.pc = "republish", !.position = q])
    <3>1. thread'[Loop].pc = "republish"
      BY <1>0, <2>2 DEF Become, TypeOK, Locals
    <3>2. thread[Loop].flag \/ \A p \in Positions : slot[p] # x
      BY <1>0, <1>5 DEF ReviewAccepts, ReviewChecked
    <3>3. ASSUME NEW y \in Doubled(slot') PROVE y \in kept'
      <4>1. PICK p \in Positions, p2 \in Positions : p # p2 /\ slot'[p] = y /\ slot'[p2] = y
        BY DEF Doubled
      <4>2. y \in People
        BY DEF Doubled
      <4>3. CASE y = x
        <5>1. \E p3 \in Positions : slot[p3] = x
          BY <1>0, <2>2, <4>1, <4>3 DEF TypeOK, Slots
        <5> QED BY <2>2, <3>2, <4>3, <5>1
      <4>4. CASE y # x
        <5>1. y \in Doubled(slot)
          BY <1>0, <2>2, <4>1, <4>2, <4>4 DEF Doubled, TypeOK, Slots
        <5> QED BY <1>0, <2>2, <5>1 DEF DoubleRolesDeliberate
      <4> QED BY <4>3, <4>4
    <3> QED BY <3>1, <3>3 DEF ReviewChecked, DoubleRolesDeliberate
  <2> QED BY <1>5, <2>1, <2>2 DEF ReviewAccepts, Accept, Quiet
<1>6. ASSUME ReviewDeclines PROVE Goal
  BY <1>0, <1>6, <1>a DEF ReviewDeclines, Become, TypeOK, Locals, Quiet
<1>7. ASSUME Restart PROVE Goal
  BY <1>0, <1>7, <1>a DEF Restart, Idle, Quiet
<1>8. ASSUME PublishStep(Loop) PROVE Goal
  <2>1. CASE PublishReads(Loop)
    BY <1>0, <2>1, <1>a DEF PublishReads, Become, TypeOK, Locals, Idle, Quiet
  <2>2. CASE PublishNumbers(Loop)
    BY <1>0, <2>2, <1>a DEF PublishNumbers, Become, TypeOK, Locals, Idle, Quiet
  <2>3. CASE PublishWrites(Loop)
    BY <1>0, <2>3, <1>a DEF PublishWrites, Become, TypeOK, Idle, Quiet
  <2> QED BY <1>8, <2>1, <2>2, <2>3 DEF PublishStep
<1>9. ASSUME NEW t \in Pool, DeleteDraft(t) PROVE Goal
  <2>1. slot' = Closed /\ UNCHANGED <<thread, app>>
    BY <1>9 DEF DeleteDraft
  <2>2. thread[Loop].pc # "accept"
    BY <1>0, <1>9 DEF DeleteDraft, ThreadsKnow, Knows
  <2> QED BY <2>1, <2>2, ClosedSingle DEF ReviewChecked, DoubleRolesDeliberate
<1>10. ASSUME NEW t \in Pool, PublishStep(t) \/ PoolStep(t) PROVE Goal
  BY <1>0, <1>9, <1>10, <1>b, PoolQuiet DEF PoolStep
<1> QED
  BY <1>1, <1>2, <1>3, <1>4, <1>5, <1>6, <1>7, <1>8, <1>10
  DEF Next, SaveStep, ReviewStep, Threads

-----------------------------------------------------------------------------
(* Applications                                                             *)

LEMMA OfferStep ==
    ASSUME IInv, Next PROVE PendingIsOffered'
<1> DEFINE Goal == PendingIsOffered'
<1>0. TypeOK /\ AppsKnown /\ ThreadsKnow /\ PendingIsOffered /\ Loop \in Threads /\ Pool \subseteq Threads
  BY DEF IInv, Threads
<1>a. ASSUME UNCHANGED slot, \A a \in Ids : app'[a] = app[a] \/ app'[a].status # "pending"
      PROVE  Goal
  BY <1>0, <1>a DEF PendingIsOffered
<1>1. CASE UNCHANGED <<app, slot>>
  BY <1>1, <1>a
<1>2. ASSUME NEW form \in Forms, NEW keepBoth \in BOOLEAN, SaveWrites(form, keepBoth)
      PROVE  Goal
  <2>1. CASE day = "deleted"
    BY <1>1, <1>2, <2>1 DEF SaveWrites, Replace
  <2>2. CASE day # "deleted"
    <3>1. slot' = form /\ CancelClosed(form)
      BY <1>2, <2>2 DEF SaveWrites, Replace
    <3>2. ASSUME NEW a \in Ids, app'[a].status = "pending"
          PROVE  app'[a].late \/ slot'[app'[a].position] = "open"
      <4>1. app[a] \in AppRows
        BY <1>0 DEF TypeOK
      <4>2. app'[a] = app[a] /\ ~(slot[app[a].position] = "open" /\ form[app[a].position] # "open")
        BY <3>1, <3>2, <4>1 DEF CancelClosed, AppRows
      <4> QED BY <1>0, <3>1, <3>2, <4>2 DEF PendingIsOffered
    <3> QED BY <3>2 DEF PendingIsOffered
  <2> QED BY <2>1, <2>2
<1>3. ASSUME ReviewAccepts PROVE Goal
  <2> DEFINE b == thread[Loop].app
             q == app[b].position
  <2>1. CASE slot' = [slot EXCEPT ![q] = app[b].person] /\ Answer(b, q, "declined")
    <3>1. ASSUME NEW a \in Ids, app'[a].status = "pending"
          PROVE  app'[a].late \/ slot'[app'[a].position] = "open"
      <4>1. app[a] \in AppRows
        BY <1>0 DEF TypeOK
      <4>2. app'[a] = app[a] /\ a \notin PendingAt(q)
        BY <2>1, <3>1, <4>1 DEF Answer, AppRows
      <4>3. app[a].position # q
        BY <3>1, <4>2 DEF PendingAt
      <4>4. slot'[app[a].position] = slot[app[a].position]
        <5>1. app[a].position \in Positions
          BY <1>0, <3>1, <4>2 DEF AppsKnown, NoApp
        <5> QED BY <1>0, <2>1, <4>3, <5>1 DEF TypeOK, Slots
      <4> QED BY <1>0, <3>1, <4>2, <4>4 DEF PendingIsOffered
    <3> QED BY <3>1 DEF PendingIsOffered
  <2> QED BY <1>1, <1>3, <2>1 DEF ReviewAccepts, Accept
<1>4. ASSUME ReviewDeclines PROVE Goal
  <2>1. UNCHANGED slot /\ app' = [app EXCEPT ![thread[Loop].app].status = "declined"]
    BY <1>4 DEF ReviewDeclines
  <2>2. \A a \in Ids : app'[a] = app[a] \/ app'[a].status # "pending"
    BY <1>0, <2>1 DEF TypeOK, AppRows
  <2> QED BY <1>a, <2>1, <2>2
<1>5. ASSUME NEW t \in Pool, ApplyInserts(t) PROVE Goal
  <2> DEFINE x == thread[t].person
             q == thread[t].position
             row == [person |-> x, position |-> q, status |-> "pending", late |-> slot[q] # "open"]
  <2>1. CASE app' = [app EXCEPT ![lastApp + 1] = row] /\ UNCHANGED slot
    <3>1. row.position = q /\ row.late = (slot[q] # "open")
      OBVIOUS
    <3> HIDE DEF row
    <3>2. ASSUME NEW a \in Ids, app'[a].status = "pending"
          PROVE  app'[a].late \/ slot'[app'[a].position] = "open"
      <4>1. CASE a = lastApp + 1
        BY <1>0, <2>1, <3>1, <4>1 DEF TypeOK
      <4>2. CASE a # lastApp + 1
        BY <1>0, <2>1, <3>2, <4>2 DEF TypeOK, PendingIsOffered
      <4> QED BY <4>1, <4>2
    <3> QED BY <3>2 DEF PendingIsOffered
  <2> QED BY <1>1, <1>5, <2>1 DEF ApplyInserts, Insert
<1>6. ASSUME NEW t \in Pool, WithdrawWrites(t) PROVE Goal
  <2>1. UNCHANGED slot /\ app' = [app EXCEPT ![thread[t].app].status = "withdrawn"]
    BY <1>6 DEF WithdrawWrites
  <2>2. \A a \in Ids : app'[a] = app[a] \/ app'[a].status # "pending"
    BY <1>0, <2>1 DEF TypeOK, AppRows
  <2> QED BY <1>a, <2>1, <2>2
<1>7. ASSUME NEW t \in Pool, DeleteDraft(t) PROVE Goal
  <2>1. \A a \in Ids : app[a].status = "absent"
    BY <1>0, <1>7 DEF DeleteDraft, AppsKnown, NoApp, Ids
  <2> QED BY <1>7, <2>1 DEF DeleteDraft, PendingIsOffered
<1> QED
  BY <1>1, <1>2, <1>3, <1>4, <1>5, <1>6, <1>7
  DEF Next, SaveStep, ReviewStep, PublishStep, PoolStep, SaveReads, ReviewReads, ReviewChecks,
      Restart, PublishReads, PublishNumbers, PublishWrites, ApplyReads, ApplyChecks, WithdrawReads

LEMMA LiveStep ==
    ASSUME IInv, Next PROVE OneLiveApplication'
<1> DEFINE Goal == OneLiveApplication'
           Carried(a) == /\ app'[a].person = app[a].person /\ app'[a].position = app[a].position
                         /\ app'[a].status \in Live => app[a].status \in Live
<1>0. TypeOK /\ AppsKnown /\ ThreadsKnow /\ OneLiveApplication /\ Loop \in Threads /\ Pool \subseteq Threads
  BY DEF IInv, Threads
<1>a. ASSUME \A a \in Ids : Carried(a) PROVE Goal
  BY <1>0, <1>a DEF OneLiveApplication
<1>1. CASE UNCHANGED app
  BY <1>0, <1>1 DEF OneLiveApplication
<1>2. ASSUME NEW form \in Forms, NEW keepBoth \in BOOLEAN, SaveWrites(form, keepBoth)
      PROVE  Goal
  <2>1. CASE CancelClosed(form)
    <3>1. ASSUME NEW a \in Ids PROVE Carried(a)
      BY <1>0, <2>1 DEF CancelClosed, TypeOK, AppRows, Live
    <3> QED BY <1>a, <3>1
  <2> QED BY <1>1, <1>2, <2>1 DEF SaveWrites
<1>3. ASSUME ReviewAccepts PROVE Goal
  <2> DEFINE b == thread[Loop].app
             x == app[b].person
             q == app[b].position
  <2>1. CASE LiveApps(x, q) \subseteq {b} /\ Answer(b, q, "declined")
    <3>1. ASSUME NEW a \in Ids, a # b PROVE Carried(a)
      <4>1. app[a] \in AppRows
        BY <1>0 DEF TypeOK
      <4> QED BY <2>1, <3>1, <4>1 DEF Answer, PendingAt, AppRows, Live
    <3>2. ASSUME b \in Ids PROVE app'[b].person = x /\ app'[b].position = q
      <4>1. app[b] \in AppRows
        BY <1>0, <3>2 DEF TypeOK
      <4> QED BY <2>1, <3>2, <4>1 DEF Answer, AppRows
    <3>3. ASSUME NEW a \in Ids, a # b, b \in Ids, app'[a].status \in Live,
                 app'[a].person = x, app'[a].position = q
          PROVE  FALSE
      <4>1. a \in LiveApps(x, q)
        BY <3>1, <3>3 DEF LiveApps
      <4> QED BY <2>1, <3>3, <4>1
    <3> QED BY <1>0, <3>1, <3>2, <3>3 DEF OneLiveApplication
  <2> QED BY <1>1, <1>3, <2>1 DEF ReviewAccepts, Accept
<1>4. ASSUME ReviewDeclines PROVE Goal
  <2>1. \A a \in Ids : Carried(a)
    BY <1>0, <1>4 DEF ReviewDeclines, TypeOK, AppRows, Live
  <2> QED BY <1>a, <2>1
<1>5. ASSUME NEW t \in Pool, ApplyInserts(t) PROVE Goal
  <2> DEFINE x == thread[t].person
             q == thread[t].position
             row == [person |-> x, position |-> q, status |-> "pending", late |-> slot[q] # "open"]
  <2>1. CASE app' = [app EXCEPT ![lastApp + 1] = row] /\ LiveApps(x, q) = {}
    <3>1. row.person = x /\ row.position = q
      OBVIOUS
    <3> HIDE DEF row
    <3>2. ASSUME NEW a \in Ids PROVE app'[a] = IF a = lastApp + 1 THEN row ELSE app[a]
      BY <1>0, <2>1 DEF TypeOK
    <3>3. ASSUME NEW a \in Ids, NEW c \in Ids, a = lastApp + 1, c # a, app'[c].status \in Live,
                 app'[c].person = app'[a].person, app'[c].position = app'[a].position
          PROVE  FALSE
      <4>1. c \in LiveApps(x, q)
        BY <3>1, <3>2, <3>3 DEF LiveApps
      <4> QED BY <2>1, <4>1
    <3> QED BY <1>0, <3>2, <3>3 DEF OneLiveApplication
  <2> QED BY <1>1, <1>5, <2>1 DEF ApplyInserts, Insert
<1>6. ASSUME NEW t \in Pool, WithdrawWrites(t) PROVE Goal
  <2>1. \A a \in Ids : Carried(a)
    BY <1>0, <1>6 DEF WithdrawWrites, TypeOK, AppRows, Live
  <2> QED BY <1>a, <2>1
<1> QED
  BY <1>1, <1>2, <1>3, <1>4, <1>5, <1>6
  DEF Next, SaveStep, ReviewStep, PublishStep, PoolStep, SaveReads, ReviewReads, ReviewChecks,
      Restart, PublishReads, PublishNumbers, PublishWrites, ApplyReads, ApplyChecks,
      WithdrawReads, DeleteDraft

-----------------------------------------------------------------------------
(* The day and its publication                                              *)

LEMMA HistoryStep ==
    ASSUME IInv, Next PROVE PublishedHasVersion' /\ DeletedHasNoHistory'
<1> DEFINE Goal == PublishedHasVersion' /\ DeletedHasNoHistory'
<1>0. /\ TypeOK /\ ThreadsKnow /\ PublishedHasVersion /\ DeletedHasNoHistory
      /\ Loop \in Threads /\ Pool \subseteq Threads
  BY DEF IInv, Threads
<1>1. CASE UNCHANGED <<day, versions, lastApp>>
  BY <1>0, <1>1 DEF PublishedHasVersion, DeletedHasNoHistory, Published
<1>2. ASSUME NEW form \in Forms, NEW keepBoth \in BOOLEAN, SaveWrites(form, keepBoth)
      PROVE  Goal
  BY <1>0, <1>2
  DEF SaveWrites, Replace, SavedStatus, PublishedHasVersion, DeletedHasNoHistory, Published
<1>3. ASSUME NEW t \in Threads, PublishWrites(t) PROVE Goal
  BY <1>0, <1>3
  DEF PublishWrites, PublishedHasVersion, DeletedHasNoHistory, Published, TypeOK, Exists
<1>4. ASSUME NEW t \in Pool, ApplyInserts(t) PROVE Goal
  <2>1. versions > 0 /\ UNCHANGED <<day, versions>>
    BY <1>0, <1>4 DEF ApplyInserts, ThreadsKnow, Knows
  <2> QED BY <1>0, <2>1 DEF PublishedHasVersion, DeletedHasNoHistory, Published, TypeOK
<1>5. ASSUME NEW t \in Pool, DeleteDraft(t) PROVE Goal
  BY <1>0, <1>5 DEF DeleteDraft, PublishedHasVersion, DeletedHasNoHistory, Published, TypeOK
<1> QED
  BY <1>1, <1>2, <1>3, <1>4, <1>5
  DEF Next, SaveStep, ReviewStep, PublishStep, PoolStep, SaveReads, ReviewReads, ReviewChecks,
      ReviewAccepts, Accept, ReviewDeclines, Restart, PublishReads, PublishNumbers, ApplyReads,
      ApplyChecks, WithdrawReads, WithdrawWrites

LEMMA CurrentStep ==
    ASSUME IInv, Next PROVE NumberGuards' /\ PublishedIsCurrent'
<1> DEFINE Goal == NumberGuards' /\ PublishedIsCurrent'
           Calm == UNCHANGED <<day, slot, versions, shown, behind>>
           Busy == {"republish", "number", "publish"}
<1>0. /\ TypeOK /\ NumberGuards /\ PublishedIsCurrent /\ PublishedHasVersion
      /\ Loop \in Threads /\ Pool \subseteq Threads /\ Loop \notin Pool
  BY WorkdayAssumption DEF IInv, Threads
<1>a. ASSUME Calm, thread'[Loop] = thread[Loop] PROVE Goal
  BY <1>0, <1>a DEF NumberGuards, PublishedIsCurrent, Republishing
\* The loop moves on without changing the day, and not out of its publication.
<1>b. ASSUME Calm, thread'[Loop].pc # "publish",
             thread[Loop].pc \in Busy => thread'[Loop].pc \in Busy \/ day # "published"
      PROVE  Goal
  BY <1>0, <1>b DEF NumberGuards, PublishedIsCurrent, Republishing
<1>1. ASSUME SaveReads PROVE Goal
  BY <1>0, <1>1, <1>b DEF SaveReads, Become, TypeOK, Idle
<1>2. ASSUME NEW form \in Forms, NEW keepBoth \in BOOLEAN, SaveWrites(form, keepBoth)
      PROVE  Goal
  <2>1. thread'[Loop].pc = "idle" /\ thread[Loop].pc = "save"
    BY <1>0, <1>2 DEF SaveWrites, Replace, Become, TypeOK, Idle
  <2>2. day' # "published"
    BY <1>2 DEF SaveWrites, Replace, SavedStatus
  <2> QED BY <2>1, <2>2 DEF NumberGuards, PublishedIsCurrent
<1>3. ASSUME NEW a \in Ids, NEW accept \in BOOLEAN, NEW override \in BOOLEAN,
             ReviewReads(a, accept, override)
      PROVE  Goal
  BY <1>0, <1>3, <1>b DEF ReviewReads, Become, TypeOK, Idle
<1>4. ASSUME NEW elsewhere \in BOOLEAN, ReviewChecks(elsewhere) PROVE Goal
  <2>1. Calm /\ thread[Loop].pc = "check" /\ thread'[Loop].pc \in {"idle", "accept"}
    BY <1>0, <1>4 DEF ReviewChecks, Become, TypeOK, Locals, Idle
  <2> QED BY <1>b, <2>1
<1>5. ASSUME ReviewAccepts PROVE Goal
  <2>1. CASE Calm /\ Become(Loop, Idle)
    BY <1>0, <1>5, <1>b, <2>1 DEF ReviewAccepts, Become, TypeOK, Idle
  <2>2. CASE \E q \in {app[thread[Loop].app].position} :
               Become(Loop, [thread[Loop] EXCEPT !.pc = "republish", !.position = q])
    <3>1. thread'[Loop].pc = "republish"
      BY <1>0, <2>2 DEF Become, TypeOK, Locals
    <3> QED BY <3>1 DEF NumberGuards, PublishedIsCurrent, Republishing
  <2> QED BY <1>5, <2>1, <2>2 DEF ReviewAccepts, Accept
<1>6. ASSUME ReviewDeclines PROVE Goal
  <2>1. Calm /\ thread[Loop].pc = "decline" /\ thread'[Loop].pc = "republish"
    BY <1>0, <1>6 DEF ReviewDeclines, Become, TypeOK, Locals
  <2> QED BY <1>b, <2>1
<1>7. ASSUME Restart PROVE Goal
  <2>1. /\ UNCHANGED <<day, slot, shown>> /\ behind' = (behind \/ Republishing)
        /\ thread'[Loop].pc = "idle"
    BY <1>0, <1>7 DEF Restart, Idle
  <2> QED BY <1>0, <2>1 DEF NumberGuards, PublishedIsCurrent, Republishing
<1>8. ASSUME PublishReads(Loop) PROVE Goal
  <2>1. Calm /\ thread[Loop].pc = "republish"
    BY <1>8 DEF PublishReads
  <2>2. \/ thread'[Loop].pc = "number"
        \/ thread'[Loop].pc = "idle" /\ ~(Exists /\ Published)
    BY <1>0, <1>8 DEF PublishReads, Become, TypeOK, Locals, Idle
  <2>3. day = "published" => Exists /\ Published
    BY <1>0 DEF PublishedHasVersion, Exists
  <2> QED BY <1>b, <2>1, <2>2, <2>3
<1>9. ASSUME PublishNumbers(Loop) PROVE Goal
  <2>1. Calm /\ thread[Loop].pc = "number"
    BY <1>9 DEF PublishNumbers
  <2>2. CASE Become(Loop, Idle) /\ ~Exists
    BY <1>0, <1>b, <2>1, <2>2 DEF Become, TypeOK, Idle, Exists
  <2>3. CASE Become(Loop, [thread[Loop] EXCEPT !.pc = "publish", !.number = versions + 1])
    <3>1. thread'[Loop].pc = "publish" /\ thread'[Loop].number = versions + 1
      BY <1>0, <2>3 DEF Become, TypeOK, Locals
    <3> QED BY <2>1, <3>1 DEF NumberGuards, PublishedIsCurrent, Republishing
  <2> QED BY <1>9, <2>2, <2>3 DEF PublishNumbers
<1>10. ASSUME NEW t \in Threads, PublishWrites(t) PROVE Goal
  <2>1. CASE /\ shown' = thread[t].slots /\ behind' = (thread[t].slots # slot) /\ UNCHANGED slot
    BY <2>1 DEF NumberGuards, PublishedIsCurrent
  <2>2. CASE Calm /\ ~(Exists /\ thread[t].number = versions + 1)
    <3>1. CASE t = Loop
      <4>1. thread[Loop].pc = "publish" /\ thread'[Loop].pc = "idle"
        BY <1>0, <1>10, <3>1 DEF PublishWrites, Become, TypeOK, Idle
      <4> QED BY <1>0, <2>2, <3>1, <4>1 DEF NumberGuards, PublishedIsCurrent, Exists
    <3>2. CASE t # Loop
      BY <1>0, <1>10, <1>a, <2>2, <3>2 DEF PublishWrites, Become, TypeOK
    <3> QED BY <3>1, <3>2
  <2> QED BY <1>10, <2>1, <2>2 DEF PublishWrites
<1>11. ASSUME NEW t \in Pool, DeleteDraft(t) PROVE Goal
  BY <1>11 DEF DeleteDraft, NumberGuards, PublishedIsCurrent
<1>12. ASSUME NEW t \in Pool,
              \/ PublishReads(t) \/ PublishNumbers(t)
              \/ \E x \in People, p \in Positions : ApplyReads(t, x, p)
              \/ \E elsewhere \in BOOLEAN : ApplyChecks(t, elsewhere)
              \/ ApplyInserts(t)
              \/ \E a \in Ids : WithdrawReads(t, a)
              \/ WithdrawWrites(t)
       PROVE  Goal
  <2>1. Calm
    BY <1>12 DEF PublishReads, PublishNumbers, ApplyReads, ApplyChecks, ApplyInserts,
                 WithdrawReads, WithdrawWrites
  <2>2. thread'[Loop] = thread[Loop]
    BY <1>0, <1>12, PoolQuiet DEF PublishStep
  <2> QED BY <1>a, <2>1, <2>2
<1> QED
  BY <1>1, <1>2, <1>3, <1>4, <1>5, <1>6, <1>7, <1>8, <1>9, <1>10, <1>11, <1>12
  DEF Next, SaveStep, ReviewStep, PublishStep, PoolStep, Threads

-----------------------------------------------------------------------------
(* The theorems                                                             *)

LEMMA Initial == Init => IInv
<1> SUFFICES ASSUME Init PROVE IInv
  OBVIOUS
<1>1. TypeOK
  <2>1. app \in [Ids -> AppRows] /\ thread \in [Threads -> Locals]
    BY IdleTyped DEF Init
  <2>2. 0 \in 0..MaxVersions /\ 0 \in 0..MaxApps
    BY WorkdayAssumption
  <2> QED BY <2>1, <2>2, IdleTyped DEF Init, TypeOK
<1>2. AppsKnown /\ ThreadsKnow
  BY DEF Init, AppsKnown, ThreadsKnow, Knows, Idle, Ids
<1>3. thread[Loop].pc = "idle"
  BY DEF Init, Idle, Threads
<1>4. DoubleRolesDeliberate
  BY ClosedSingle DEF Init, DoubleRolesDeliberate
<1>5. PendingIsOffered /\ OneLiveApplication
  BY DEF Init, PendingIsOffered, OneLiveApplication, NoApp, Live
<1> QED
  BY <1>1, <1>2, <1>3, <1>4, <1>5
  DEF Init, IInv, ReviewChecked, PublishedHasVersion, DeletedHasNoHistory, NumberGuards, PublishedIsCurrent

LEMMA Unmoved ==
    ASSUME IInv, UNCHANGED vars PROVE IInv'
BY DEF IInv, vars, TypeOK, AppsKnown, ThreadsKnow, ReviewChecked, DoubleRolesDeliberate,
       PendingIsOffered, OneLiveApplication, LiveApps, PublishedHasVersion, Published,
       DeletedHasNoHistory, NumberGuards, PublishedIsCurrent, Republishing

LEMMA Inductive == IInv /\ [Next]_vars => IInv'
BY TypeStep, KnowsStep, RoleStep, OfferStep, LiveStep, HistoryStep, CurrentStep, Unmoved DEF IInv

\* The inductive invariant holds in every reachable state.
THEOREM Invariant == Spec => []IInv
BY Initial, Inductive, PTL DEF Spec

\* Every table and every thread keeps its type.
THEOREM TypeCorrect == Spec => []TypeOK
<1>1. IInv => TypeOK
  BY DEF IInv
<1> QED BY <1>1, Invariant, PTL

\* Nobody holds two positions of a workday unless an admin said so, however
\* reviews, saves and requests interleave.
THEOREM RolesDeliberate == Spec => []DoubleRolesDeliberate
<1>1. IInv => DoubleRolesDeliberate
  BY DEF IInv
<1> QED BY <1>1, Invariant, PTL

\* No applicant waits for a position that closed, except one whose request was
\* under way when it did.
THEOREM ApplicantsOffered == Spec => []PendingIsOffered
<1>1. IInv => PendingIsOffered
  BY DEF IInv
<1> QED BY <1>1, Invariant, PTL

\* A person has at most one live application for a position.
THEOREM LiveApplicationUnique == Spec => []OneLiveApplication
<1>1. IInv => OneLiveApplication
  BY DEF IInv
<1> QED BY <1>1, Invariant, PTL

\* Deleting a draft never destroys a publication or an application.
THEOREM HistoryRetained == Spec => []DeletedHasNoHistory
<1>1. IInv => DeletedHasNoHistory
  BY DEF IInv
<1> QED BY <1>1, Invariant, PTL

\* A published day shows its saved positions, but for old readings and restarts.
THEOREM PublicationCurrent == Spec => []PublishedIsCurrent
<1>1. IInv => PublishedIsCurrent
  BY DEF IInv
<1> QED BY <1>1, Invariant, PTL

-----------------------------------------------------------------------------
(* What a review's publication shows                                        *)

\* The loop publishes the positions as they are: nothing changes them between
\* its reading and its writing.  On a day that shows its saved positions, and
\* whose last publication was neither old nor lost, only the position the
\* review filled is still to be shown.
ReviewShows ==
    /\ thread[Loop].pc \in {"number", "publish"} => Published /\ thread[Loop].slots = slot
    /\ (day = "published" /\ ~behind /\ Republishing) =>
         \A p \in Positions : shown[p] # slot[p] => thread[Loop].position = p

LEMMA ReviewShowsStep ==
    ASSUME IInv, ReviewShows, Next PROVE ReviewShows'
<1> DEFINE Calm == UNCHANGED <<day, slot, versions, shown, behind>>
<1>0. /\ TypeOK /\ NumberGuards /\ PublishedIsCurrent /\ PublishedHasVersion
      /\ Loop \in Threads /\ Pool \subseteq Threads /\ Loop \notin Pool
  BY WorkdayAssumption DEF IInv, Threads
<1>a. ASSUME Calm, thread'[Loop] = thread[Loop] PROVE ReviewShows'
  BY <1>a DEF ReviewShows, Published, Republishing
\* The loop leaves its publication, or does not publish.
<1>b. ASSUME thread'[Loop].pc \notin {"republish", "number", "publish"} PROVE ReviewShows'
  BY <1>b DEF ReviewShows, Republishing
<1>1. ASSUME SaveReads PROVE ReviewShows'
  BY <1>0, <1>1, <1>b DEF SaveReads, Become, TypeOK, Idle
<1>2. ASSUME NEW form \in Forms, NEW keepBoth \in BOOLEAN, SaveWrites(form, keepBoth)
      PROVE  ReviewShows'
  BY <1>0, <1>2, <1>b DEF SaveWrites, Replace, Become, TypeOK, Idle
<1>3. ASSUME NEW a \in Ids, NEW accept \in BOOLEAN, NEW override \in BOOLEAN,
             ReviewReads(a, accept, override)
      PROVE  ReviewShows'
  BY <1>0, <1>3, <1>b DEF ReviewReads, Become, TypeOK, Idle
<1>4. ASSUME NEW elsewhere \in BOOLEAN, ReviewChecks(elsewhere) PROVE ReviewShows'
  <2>1. thread'[Loop].pc \in {"idle", "accept"}
    BY <1>0, <1>4 DEF ReviewChecks, Become, TypeOK, Locals, Idle
  <2> QED BY <1>b, <2>1
<1>5. ASSUME ReviewAccepts PROVE ReviewShows'
  <2> DEFINE q == app[thread[Loop].app].position
  <2>1. CASE Become(Loop, Idle)
    BY <1>0, <1>b, <2>1 DEF Become, TypeOK, Idle
  <2>2. CASE /\ slot' = [slot EXCEPT ![q] = app[thread[Loop].app].person]
             /\ Become(Loop, [thread[Loop] EXCEPT !.pc = "republish", !.position = q])
    <3>1. thread'[Loop].pc = "republish" /\ thread'[Loop].position = q
      BY <1>0, <2>2 DEF Become, TypeOK, Locals
    <3>2. \A p \in Positions : p # q => slot'[p] = slot[p]
      BY <1>0, <2>2 DEF TypeOK, Slots
    <3>3. thread[Loop].pc = "accept" /\ UNCHANGED <<day, versions, shown, behind>>
      BY <1>5 DEF ReviewAccepts
    <3>4. (day = "published" /\ ~behind) => shown = slot
      BY <1>0, <3>3 DEF PublishedIsCurrent, Republishing
    <3> QED BY <3>1, <3>2, <3>3, <3>4 DEF ReviewShows, Republishing
  <2> QED BY <1>5, <2>1, <2>2 DEF ReviewAccepts, Accept
<1>6. ASSUME ReviewDeclines PROVE ReviewShows'
  <2>1. Calm /\ thread[Loop].pc = "decline" /\ thread'[Loop].pc = "republish"
    BY <1>0, <1>6 DEF ReviewDeclines, Become, TypeOK, Locals
  <2>2. (day = "published" /\ ~behind) => shown = slot
    BY <1>0, <2>1 DEF PublishedIsCurrent, Republishing
  <2> QED BY <2>1, <2>2 DEF ReviewShows, Republishing
<1>7. ASSUME Restart PROVE ReviewShows'
  BY <1>0, <1>7, <1>b DEF Restart, Idle
<1>8. ASSUME PublishReads(Loop) PROVE ReviewShows'
  <2>1. CASE Become(Loop, Idle)
    BY <1>0, <1>b, <2>1 DEF Become, TypeOK, Idle
  <2>2. CASE Published /\ Become(Loop, [thread[Loop] EXCEPT !.pc = "number", !.slots = slot])
    <3>1. /\ thread'[Loop].pc = "number" /\ thread'[Loop].slots = slot
          /\ thread'[Loop].position = thread[Loop].position
      BY <1>0, <2>2 DEF Become, TypeOK, Locals
    <3>2. Calm /\ thread[Loop].pc = "republish"
      BY <1>8 DEF PublishReads
    <3> QED BY <2>2, <3>1, <3>2 DEF ReviewShows, Published, Republishing
  <2> QED BY <1>8, <2>1, <2>2 DEF PublishReads
<1>9. ASSUME PublishNumbers(Loop) PROVE ReviewShows'
  <2>1. CASE Become(Loop, Idle)
    BY <1>0, <1>b, <2>1 DEF Become, TypeOK, Idle
  <2>2. CASE Become(Loop, [thread[Loop] EXCEPT !.pc = "publish", !.number = versions + 1])
    <3>1. /\ thread'[Loop].pc = "publish" /\ thread'[Loop].slots = thread[Loop].slots
          /\ thread'[Loop].position = thread[Loop].position
      BY <1>0, <2>2 DEF Become, TypeOK, Locals
    <3>2. Calm /\ thread[Loop].pc = "number"
      BY <1>9 DEF PublishNumbers
    <3> QED BY <3>1, <3>2 DEF ReviewShows, Published, Republishing
  <2> QED BY <1>9, <2>1, <2>2 DEF PublishNumbers
<1>10. ASSUME PublishWrites(Loop) PROVE ReviewShows'
  BY <1>0, <1>10, <1>b DEF PublishWrites, Become, TypeOK, Idle
<1>11. ASSUME NEW t \in Pool, PublishWrites(t) PROVE ReviewShows'
  <2>1. UNCHANGED slot /\ thread'[Loop] = thread[Loop]
    BY <1>0, <1>11, PoolQuiet DEF PublishStep, Quiet
  <2>2. CASE Calm
    BY <1>a, <2>1, <2>2
  <2>3. CASE /\ thread[t].number = versions + 1 /\ versions' = thread[t].number
             /\ shown' = thread[t].slots /\ behind' = (thread[t].slots # slot)
    <3>1. Published => Published'
      BY <1>0, <2>3 DEF Published, TypeOK
    <3> QED BY <2>1, <2>3, <3>1 DEF ReviewShows
  <2> QED BY <1>11, <2>2, <2>3 DEF PublishWrites
<1>12. ASSUME NEW t \in Pool, DeleteDraft(t) PROVE ReviewShows'
  BY <1>12 DEF DeleteDraft, ReviewShows
<1>13. ASSUME NEW t \in Pool,
              \/ PublishReads(t) \/ PublishNumbers(t)
              \/ \E x \in People, p \in Positions : ApplyReads(t, x, p)
              \/ \E elsewhere \in BOOLEAN : ApplyChecks(t, elsewhere)
              \/ ApplyInserts(t)
              \/ \E a \in Ids : WithdrawReads(t, a)
              \/ WithdrawWrites(t)
       PROVE  ReviewShows'
  <2>1. Calm
    BY <1>13 DEF PublishReads, PublishNumbers, ApplyReads, ApplyChecks, ApplyInserts,
                 WithdrawReads, WithdrawWrites
  <2>2. thread'[Loop] = thread[Loop]
    BY <1>0, <1>13, PoolQuiet DEF PublishStep
  <2> QED BY <1>a, <2>1, <2>2
<1> QED
  BY <1>1, <1>2, <1>3, <1>4, <1>5, <1>6, <1>7, <1>8, <1>9, <1>10, <1>11, <1>12, <1>13
  DEF Next, SaveStep, ReviewStep, PublishStep, PoolStep, Threads

\* Crew see a position change when somebody publishes, when a review filled it,
\* or when a review's publication brings out what was not shown before it: a
\* saved draft, or what an old reading or a restart left out.
ShownFor(p) ==
    \/ \E t \in Pool : thread[t].pc = "publish" /\ thread'[t].pc = "idle"
    \/ thread[Loop].position = p
    \/ thread[Loop].pc = "publish" /\ (day # "published" \/ behind)

ShownForCause == \A p \in Positions : shown'[p] # shown[p] => ShownFor(p)

LEMMA ShowingStep ==
    ASSUME IInv, ReviewShows, Next PROVE ShownForCause
<1>0. TypeOK /\ Loop \in Threads /\ Pool \subseteq Threads
  BY DEF IInv, Threads
<1>1. CASE UNCHANGED shown
  BY <1>1 DEF ShownForCause
<1>2. ASSUME NEW t \in Pool, PublishWrites(t) PROVE ShownForCause
  <2>1. thread[t].pc = "publish" /\ thread'[t].pc = "idle"
    BY <1>0, <1>2 DEF PublishWrites, Become, TypeOK, Idle
  <2> QED BY <2>1 DEF ShownForCause, ShownFor
<1>3. ASSUME PublishWrites(Loop), shown' = thread[Loop].slots PROVE ShownForCause
  <2>1. thread[Loop].pc = "publish" /\ shown' = slot
    BY <1>3 DEF PublishWrites, ReviewShows
  <2> QED BY <2>1 DEF ShownForCause, ShownFor, ReviewShows, Republishing
<1>4. PublishWrites(Loop) => UNCHANGED shown \/ shown' = thread[Loop].slots
  BY DEF PublishWrites
<1>5. (\E t \in Threads : PublishWrites(t)) \/ UNCHANGED shown
  BY DEF Next, SaveStep, ReviewStep, PublishStep, PoolStep, SaveReads, SaveWrites, Replace,
         ReviewReads, ReviewChecks, ReviewAccepts, ReviewDeclines, Restart, PublishReads,
         PublishNumbers, ApplyReads, ApplyChecks, ApplyInserts, WithdrawReads, WithdrawWrites,
         DeleteDraft
<1> QED BY <1>1, <1>2, <1>3, <1>4, <1>5 DEF Threads

\* Why OnlyPublishingShows fails, and the only way it can: accepting or
\* declining an application publishes the whole day, so it shows another
\* position only when the day had changes that were saved and not published,
\* or its last publication was of an old reading or lost.  On a day that shows
\* what it has saved, a review shows nothing but its own position.
THEOREM ReviewsShowTheirOwn == Spec => [][ShownForCause]_vars
<1>1. Init => ReviewShows
  BY WorkdayAssumption DEF Init, ReviewShows, Republishing, Idle, Threads
<1>2. IInv /\ ReviewShows /\ UNCHANGED vars => ReviewShows'
  BY DEF vars, ReviewShows, Published, Republishing
<1>3. IInv /\ ReviewShows /\ [Next]_vars => ReviewShows'
  BY <1>2, ReviewShowsStep
<1>4. IInv /\ ReviewShows /\ [Next]_vars => [ShownForCause]_vars
  BY ShowingStep
<1> QED BY <1>1, <1>3, <1>4, Invariant, PTL DEF Spec

=============================================================================
