------------------------- MODULE PoolSessionsProofs -------------------------
(***************************************************************************)
(* Proofs about PoolSessions for any number of topics, bots, sessions,     *)
(* workers, requests and crashes.                                          *)
(***************************************************************************)
EXTENDS PoolSessions, FiniteSetTheorems, TLAPS

\* What a task remembers of the rows still holds of them.
SidExists ==
    \A w \in Workers : wk[w].sid # None => state[wk[w].sid] # "absent"

VictimExists ==
    \A w \in Workers :
        wk[w].pc = "vclose" => /\ wk[w].victim # None
                               /\ state[wk[w].victim] # "absent"

\* Two spin-ups never give birth to the same session.
OwnBirth ==
    /\ \A w \in Workers : wk[w].pc \in InBirth => wk[w].sid # None
    /\ \A v, w \in Workers :
         /\ wk[v].pc \in InBirth
         /\ wk[w].pc \in InBirth
         /\ wk[v].sid = wk[w].sid
         => v = w

\* A spin-up that has no bot yet waits for a session that has none.
UnleasedOwnsNothing ==
    \A w \in Workers : wk[w].pc \in Unleased =>
        /\ botOf[wk[w].sid] = None
        /\ \A b \in Bots : owner[b] # wk[w].sid

\* A lease transaction holds the lock of a seeded bot that is still free.
LockHeld ==
    \A w \in Workers : wk[w].pc = "commit" =>
        /\ wk[w].bot \in pool
        /\ lock[wk[w].bot] = w
        /\ owner[wk[w].bot] = None

\* What bind will bind is the one bot the session was leased.
BindsItsLease ==
    \A w \in Workers : wk[w].pc = "bind" =>
        /\ wk[w].bot # None
        /\ \A b \in Bots : owner[b] = wk[w].sid => b = wk[w].bot

\* Whoever is about to write live or dormant writes it to a bound session.
RevivesBound ==
    /\ \A w \in Workers : wk[w].pc = "mark_live" =>
         /\ wk[w].sid # None
         /\ botOf[wk[w].sid] # None
    /\ \A h \in Hooks : hook[h].pc = "reopen" =>
         /\ hook[h].sid # None
         /\ botOf[hook[h].sid] # None
    /\ \A s \in idle : botOf[s] # None

\* Only rows that exist are bound, and awaited by the recovery.
RowsExist ==
    /\ \A s \in Sessions : botOf[s] # None => state[s] # "absent"
    /\ \A s \in Sessions : boot = "births" /\ s \in todo => state[s] # "absent"

\* The inductive invariant.
IInv ==
    /\ TypeOK
    /\ LiveIsBound
    /\ LeasePointsBack
    /\ SidExists
    /\ VictimExists
    /\ OwnBirth
    /\ UnleasedOwnsNothing
    /\ LockHeld
    /\ BindsItsLease
    /\ RevivesBound
    /\ RowsExist
    /\ OneBotPerSession

-----------------------------------------------------------------------------
(* One lemma per action: it keeps the invariant.                            *)

\* Seeding adds a bot nobody has.
LEMMA SeedBotKeeps ==
    ASSUME IInv, NEW b \in Bots, SeedBot(b)
    PROVE  IInv'
<1> USE DistinctNone DEF IInv
<1>1. pool' \subseteq Bots
  BY DEF TypeOK, SeedBot, Jobs
<1>2. TypeOK'
  BY <1>1, CrashBound DEF TypeOK, SeedBot, procs, system
<1>3. LeasePointsBack'
  BY <1>2 DEF TypeOK, SeedBot, procs, system, LeasePointsBack
<1>4. LockHeld'
  BY <1>2 DEF TypeOK, SeedBot, procs, system, LockHeld
<1> QED
  BY <1>2, <1>3, <1>4 DEF SeedBot, procs, system, LiveIsBound, SidExists,
     VictimExists, OwnBirth, UnleasedOwnsNothing, BindsItsLease, RevivesBound,
     RowsExist, OneBotPerSession, InBirth, Unleased

\* A spin-up that only checked its topic holds no session yet.
LEMMA SpinUpCheckKeeps ==
    ASSUME IInv, NEW w \in Workers, NEW t \in Topics, SpinUpCheck(w, t)
    PROVE  IInv'
<1> USE DistinctNone DEF IInv
<1>1. wk' \in [Workers -> Jobs]
  BY DEF TypeOK, SpinUpCheck, Parked, Jobs, WorkerPcs
<1>2. TypeOK'
  BY <1>1, CrashBound DEF TypeOK, SpinUpCheck, Parked, rows, system
<1>3. /\ \A x \in Workers : x # w => wk'[x] = wk[x]
      /\ wk'[w].pc = "create"
      /\ wk'[w].sid = None
      /\ wk'[w].bot = None
      /\ wk'[w].victim = None
  BY DEF TypeOK, SpinUpCheck, Parked, Jobs
<1>4. SidExists'
  BY <1>3, <1>2 DEF TypeOK, SpinUpCheck, Parked, rows, system, SidExists
<1>5. VictimExists'
  BY <1>3, <1>2 DEF TypeOK, SpinUpCheck, Parked, rows, system, VictimExists
<1>6. OwnBirth'
  BY <1>3, <1>2 DEF TypeOK, SpinUpCheck, Parked, rows, system, OwnBirth,
     SidExists, InBirth, Unleased
<1>7. UnleasedOwnsNothing'
  BY <1>3, <1>2 DEF TypeOK, SpinUpCheck, Parked, rows, system,
     UnleasedOwnsNothing, Unleased
<1>8. LockHeld'
  BY <1>3, <1>2 DEF TypeOK, SpinUpCheck, Parked, rows, system, LockHeld
<1>9. BindsItsLease'
  BY <1>3, <1>2 DEF TypeOK, SpinUpCheck, Parked, rows, system, BindsItsLease
<1>10. RevivesBound'
  BY <1>3, <1>2 DEF TypeOK, SpinUpCheck, Parked, rows, system, RevivesBound
<1> QED
  BY <1>2, <1>4, <1>5, <1>6, <1>7, <1>8, <1>9, <1>10 DEF SpinUpCheck, rows,
     system, LiveIsBound, LeasePointsBack, RowsExist, OneBotPerSession

\* The new session is bound to nothing, so its worker may start to lease.
LEMMA CreateSessionKeeps ==
    ASSUME IInv, NEW w \in Workers, NEW s \in Sessions, CreateSession(w, s)
    PROVE  IInv'
<1> USE DistinctNone DEF IInv
<1>1. state' \in [Sessions -> SessionStates]
  BY DEF TypeOK, CreateSession, Parked, SetState, SessionStates
<1>2. topic' \in [Sessions -> Topics \cup {None}]
  BY DEF TypeOK, CreateSession, Parked, SetState, Jobs
<1>3. wk' \in [Workers -> Jobs]
  BY DEF TypeOK, CreateSession, Parked, SetState, Jobs, WorkerPcs
<1>4. TypeOK'
  BY <1>1, <1>2, <1>3, CrashBound DEF TypeOK, CreateSession, Parked, SetState,
     system
<1>5. /\ \A x \in Workers : x # w => wk'[x] = wk[x]
      /\ wk'[w].pc = "lease"
      /\ wk'[w].sid = s
      /\ wk'[w].bot = None
      /\ wk'[w].victim = None
  BY DEF TypeOK, CreateSession, Parked, SetState, Jobs
<1>6. LiveIsBound'
  BY <1>5, <1>4 DEF TypeOK, CreateSession, Parked, SetState, system,
     LiveIsBound, RevivesBound
<1>7. LeasePointsBack'
  BY <1>5, <1>4 DEF TypeOK, CreateSession, Parked, SetState, system,
     LeasePointsBack
<1>8. SidExists'
  BY <1>5, <1>4 DEF TypeOK, CreateSession, Parked, SetState, system, SidExists
<1>9. VictimExists'
  BY <1>5, <1>4 DEF TypeOK, CreateSession, Parked, SetState, system,
     VictimExists
<1>10. OwnBirth'
  BY <1>5, <1>4 DEF TypeOK, CreateSession, Parked, SetState, system, OwnBirth,
     SidExists, InBirth, Unleased
<1>11. UnleasedOwnsNothing'
  BY <1>5, <1>4 DEF TypeOK, CreateSession, Parked, SetState, system,
     UnleasedOwnsNothing, Unleased, LeasePointsBack, RowsExist
<1>12. LockHeld'
  BY <1>5, <1>4 DEF TypeOK, CreateSession, Parked, SetState, system, LockHeld
<1>13. BindsItsLease'
  BY <1>5, <1>4 DEF TypeOK, CreateSession, Parked, SetState, system,
     BindsItsLease
<1>14. RevivesBound'
  BY <1>5, <1>4 DEF TypeOK, CreateSession, Parked, SetState, system,
     RevivesBound
<1>15. RowsExist'
  BY <1>5, <1>4 DEF TypeOK, CreateSession, Parked, SetState, system, RowsExist
<1> QED
  BY <1>4, <1>6, <1>7, <1>8, <1>9, <1>10, <1>11, <1>12, <1>13, <1>14, <1>15 DEF
     CreateSession, system, OneBotPerSession

\* The row lock goes to the one worker that will commit this lease.
LEMMA LeaseSelectKeeps ==
    ASSUME IInv, NEW w \in Workers, NEW b \in Bots, LeaseSelect(w, b)
    PROVE  IInv'
<1> USE DistinctNone DEF IInv
<1>1. lock' \in [Bots -> Workers \cup {None}]
  BY DEF TypeOK, LeaseSelect, Free, Jobs
<1>2. wk' \in [Workers -> Jobs]
  <2>1. wk[w] \in Jobs
    BY DEF TypeOK
  <2>2. [wk[w] EXCEPT !.pc = "commit", !.bot = b] \in Jobs
    BY <2>1 DEF Jobs, WorkerPcs
  <2> QED
    BY <2>2 DEF TypeOK, LeaseSelect
<1>3. TypeOK'
  BY <1>1, <1>2, CrashBound DEF TypeOK, LeaseSelect, Free, system
<1>4. /\ \A x \in Workers : x # w => wk'[x] = wk[x]
      /\ wk'[w].pc = "commit"
      /\ wk'[w].sid = wk[w].sid
      /\ wk'[w].bot = b
      /\ wk'[w].victim = wk[w].victim
  BY DEF TypeOK, LeaseSelect, Free, Jobs
<1>5. SidExists'
  BY <1>4, <1>3 DEF TypeOK, LeaseSelect, Free, system, SidExists
<1>6. VictimExists'
  BY <1>4, <1>3 DEF TypeOK, LeaseSelect, Free, system, VictimExists
<1>7. OwnBirth'
  BY <1>4, <1>3 DEF TypeOK, LeaseSelect, Free, system, OwnBirth, SidExists,
     InBirth, Unleased
<1>8. UnleasedOwnsNothing'
  BY <1>4, <1>3 DEF TypeOK, LeaseSelect, Free, system, UnleasedOwnsNothing,
     Unleased
<1>9. LockHeld'
  <2> SUFFICES ASSUME NEW v \in Workers, wk'[v].pc = "commit"
               PROVE  /\ wk'[v].bot \in pool'
                      /\ lock'[wk'[v].bot] = v
                      /\ owner'[wk'[v].bot] = None
    BY DEF LockHeld
  <2>1. CASE v = w
    BY <2>1, <1>4 DEF TypeOK, LeaseSelect, Free
  <2>2. CASE v # w
    BY <2>2, <1>4 DEF TypeOK, LeaseSelect, LockHeld
  <2> QED
    BY <2>1, <2>2
<1>10. BindsItsLease'
  BY <1>4, <1>3 DEF TypeOK, LeaseSelect, Free, system, BindsItsLease
<1>11. RevivesBound'
  BY <1>4, <1>3 DEF TypeOK, LeaseSelect, Free, system, RevivesBound
<1> QED
  BY <1>3, <1>5, <1>6, <1>7, <1>8, <1>9, <1>10, <1>11 DEF LeaseSelect, system,
     LiveIsBound, LeasePointsBack, RowsExist, OneBotPerSession

\* Finding no free bot changes no row.
LEMMA LeaseNoneKeeps ==
    ASSUME IInv, NEW w \in Workers, LeaseNone(w)
    PROVE  IInv'
<1> USE DistinctNone DEF IInv
<1>1. wk' \in [Workers -> Jobs]
  BY DEF TypeOK, LeaseNone, Goto, Jobs, WorkerPcs
<1>2. TypeOK'
  BY <1>1, CrashBound DEF TypeOK, LeaseNone, Goto, rows, system
<1>3. /\ \A x \in Workers : x # w => wk'[x] = wk[x]
      /\ wk'[w].pc = (IF wk[w].retry THEN "close" ELSE "reclaim")
      /\ wk'[w].sid = wk[w].sid
      /\ wk'[w].bot = wk[w].bot
      /\ wk'[w].victim = wk[w].victim
  BY DEF TypeOK, LeaseNone, Goto, Jobs
<1>4. SidExists'
  BY <1>3, <1>2 DEF TypeOK, LeaseNone, Goto, rows, system, SidExists
<1>5. VictimExists'
  BY <1>3, <1>2 DEF TypeOK, LeaseNone, Goto, rows, system, VictimExists
<1>6. OwnBirth'
  BY <1>3, <1>2 DEF TypeOK, LeaseNone, Goto, rows, system, OwnBirth, SidExists,
     InBirth, Unleased
<1>7. UnleasedOwnsNothing'
  BY <1>3, <1>2 DEF TypeOK, LeaseNone, Goto, rows, system, UnleasedOwnsNothing,
     Unleased
<1>8. LockHeld'
  BY <1>3, <1>2 DEF TypeOK, LeaseNone, Goto, rows, system, LockHeld
<1>9. BindsItsLease'
  BY <1>3, <1>2 DEF TypeOK, LeaseNone, Goto, rows, system, BindsItsLease
<1>10. RevivesBound'
  BY <1>3, <1>2 DEF TypeOK, LeaseNone, Goto, rows, system, RevivesBound
<1> QED
  BY <1>2, <1>4, <1>5, <1>6, <1>7, <1>8, <1>9, <1>10 DEF LeaseNone, rows,
     system, LiveIsBound, LeasePointsBack, RowsExist, OneBotPerSession

\* The locked bot is still free and the session still waits for its only one.
LEMMA LeaseCommitKeeps ==
    ASSUME IInv, NEW w \in Workers, LeaseCommit(w)
    PROVE  IInv'
<1> USE DistinctNone DEF IInv
<1>1. owner' \in [Bots -> Sessions \cup {None}]
  BY DEF TypeOK, LeaseCommit, Goto, Jobs
<1>2. lock' \in [Bots -> Workers \cup {None}]
  BY DEF TypeOK, LeaseCommit, Goto, Jobs
<1>3. wk' \in [Workers -> Jobs]
  BY DEF TypeOK, LeaseCommit, Goto, Jobs, WorkerPcs
<1>4. TypeOK'
  BY <1>1, <1>2, <1>3, CrashBound DEF TypeOK, LeaseCommit, Goto, system
<1>5. /\ \A x \in Workers : x # w => wk'[x] = wk[x]
      /\ wk'[w].pc = "bind"
      /\ wk'[w].sid = wk[w].sid
      /\ wk'[w].bot = wk[w].bot
      /\ wk'[w].victim = wk[w].victim
  BY DEF TypeOK, LeaseCommit, Goto, Jobs
<1>6. LeasePointsBack'
  BY <1>5, <1>4 DEF TypeOK, LeaseCommit, Goto, system, LeasePointsBack,
     LockHeld, SidExists, OwnBirth, UnleasedOwnsNothing, InBirth, Unleased
<1>7. SidExists'
  BY <1>5, <1>4 DEF TypeOK, LeaseCommit, Goto, system, SidExists
<1>8. VictimExists'
  BY <1>5, <1>4 DEF TypeOK, LeaseCommit, Goto, system, VictimExists
<1>9. OwnBirth'
  BY <1>5, <1>4 DEF TypeOK, LeaseCommit, Goto, system, OwnBirth, SidExists,
     InBirth, Unleased
<1>10. UnleasedOwnsNothing'
  BY <1>5, <1>4 DEF TypeOK, LeaseCommit, Goto, system, UnleasedOwnsNothing,
     Unleased, OwnBirth, InBirth
<1>11. LockHeld'
  BY <1>5, <1>4 DEF TypeOK, LeaseCommit, Goto, system, LockHeld
<1>12. BindsItsLease'
  BY <1>5, <1>4 DEF TypeOK, LeaseCommit, Goto, system, BindsItsLease,
     UnleasedOwnsNothing, OwnBirth, InBirth, Unleased
<1>13. RevivesBound'
  BY <1>5, <1>4 DEF TypeOK, LeaseCommit, Goto, system, RevivesBound
<1>14. OneBotPerSession'
  BY <1>5, <1>4 DEF TypeOK, LeaseCommit, Goto, system, OneBotPerSession,
     UnleasedOwnsNothing, Unleased
<1> QED
  BY <1>4, <1>6, <1>7, <1>8, <1>9, <1>10, <1>11, <1>12, <1>13, <1>14 DEF
     LeaseCommit, system, LiveIsBound, RowsExist

\* The victim is dormant, so it exists.
LEMMA ReclaimPickKeeps ==
    ASSUME IInv, NEW w \in Workers, NEW v \in Sessions, ReclaimPick(w, v)
    PROVE  IInv'
<1> USE DistinctNone DEF IInv
<1>1. wk' \in [Workers -> Jobs]
  <2>1. wk[w] \in Jobs /\ botOf[v] \in Bots \cup {None}
    BY DEF TypeOK
  <2>2. [wk[w] EXCEPT !.pc = "vclose", !.victim = v, !.bot = botOf[v]] \in Jobs
    BY <2>1 DEF Jobs, WorkerPcs
  <2> QED
    BY <2>2 DEF TypeOK, ReclaimPick
<1>2. TypeOK'
  BY <1>1, CrashBound DEF TypeOK, ReclaimPick, rows, system
<1>3. /\ \A x \in Workers : x # w => wk'[x] = wk[x]
      /\ wk'[w].pc = "vclose"
      /\ wk'[w].sid = wk[w].sid
      /\ wk'[w].bot = botOf[v]
      /\ wk'[w].victim = v
  BY DEF TypeOK, ReclaimPick, Jobs
<1>4. SidExists'
  BY <1>3, <1>2 DEF TypeOK, ReclaimPick, rows, system, SidExists
<1>5. VictimExists'
  BY <1>3, <1>2 DEF TypeOK, ReclaimPick, rows, system, VictimExists
<1>6. OwnBirth'
  BY <1>3, <1>2 DEF TypeOK, ReclaimPick, rows, system, OwnBirth, SidExists,
     InBirth, Unleased
<1>7. UnleasedOwnsNothing'
  BY <1>3, <1>2 DEF TypeOK, ReclaimPick, rows, system, UnleasedOwnsNothing,
     Unleased
<1>8. LockHeld'
  BY <1>3, <1>2 DEF TypeOK, ReclaimPick, rows, system, LockHeld
<1>9. BindsItsLease'
  BY <1>3, <1>2 DEF TypeOK, ReclaimPick, rows, system, BindsItsLease
<1>10. RevivesBound'
  BY <1>3, <1>2 DEF TypeOK, ReclaimPick, rows, system, RevivesBound
<1> QED
  BY <1>2, <1>4, <1>5, <1>6, <1>7, <1>8, <1>9, <1>10 DEF ReclaimPick, rows,
     system, LiveIsBound, LeasePointsBack, RowsExist, OneBotPerSession

\* Finding no victim changes no row.
LEMMA ReclaimNoneKeeps ==
    ASSUME IInv, NEW w \in Workers, ReclaimNone(w)
    PROVE  IInv'
<1> USE DistinctNone DEF IInv
<1>1. wk' \in [Workers -> Jobs]
  BY DEF TypeOK, ReclaimNone, Goto, Jobs, WorkerPcs
<1>2. TypeOK'
  BY <1>1, CrashBound DEF TypeOK, ReclaimNone, Goto, rows, system
<1>3. /\ \A x \in Workers : x # w => wk'[x] = wk[x]
      /\ wk'[w].pc = "close"
      /\ wk'[w].sid = wk[w].sid
      /\ wk'[w].bot = wk[w].bot
      /\ wk'[w].victim = wk[w].victim
  BY DEF TypeOK, ReclaimNone, Goto, Jobs
<1>4. SidExists'
  BY <1>3, <1>2 DEF TypeOK, ReclaimNone, Goto, rows, system, SidExists
<1>5. VictimExists'
  BY <1>3, <1>2 DEF TypeOK, ReclaimNone, Goto, rows, system, VictimExists
<1>6. OwnBirth'
  BY <1>3, <1>2 DEF TypeOK, ReclaimNone, Goto, rows, system, OwnBirth,
     SidExists, InBirth, Unleased
<1>7. UnleasedOwnsNothing'
  BY <1>3, <1>2 DEF TypeOK, ReclaimNone, Goto, rows, system,
     UnleasedOwnsNothing, Unleased
<1>8. LockHeld'
  BY <1>3, <1>2 DEF TypeOK, ReclaimNone, Goto, rows, system, LockHeld
<1>9. BindsItsLease'
  BY <1>3, <1>2 DEF TypeOK, ReclaimNone, Goto, rows, system, BindsItsLease
<1>10. RevivesBound'
  BY <1>3, <1>2 DEF TypeOK, ReclaimNone, Goto, rows, system, RevivesBound
<1> QED
  BY <1>2, <1>4, <1>5, <1>6, <1>7, <1>8, <1>9, <1>10 DEF ReclaimNone, rows,
     system, LiveIsBound, LeasePointsBack, RowsExist, OneBotPerSession

\* Closing the victim, whatever has become of it, unbinds nothing.
LEMMA ReclaimCloseKeeps ==
    ASSUME IInv, NEW w \in Workers, ReclaimClose(w)
    PROVE  IInv'
<1> USE DistinctNone DEF IInv
<1>1. state' \in [Sessions -> SessionStates]
  BY DEF TypeOK, ReclaimClose, SetState, SessionStates
<1>2. wk' \in [Workers -> Jobs]
  BY DEF TypeOK, ReclaimClose, SetState, Jobs, WorkerPcs
<1>3. TypeOK'
  BY <1>1, <1>2, CrashBound DEF TypeOK, ReclaimClose, SetState, system
<1>4. /\ \A x \in Workers : x # w => wk'[x] = wk[x]
      /\ wk'[w].pc = (IF wk[w].bot = None THEN "close" ELSE "vrelease")
      /\ wk'[w].sid = wk[w].sid
      /\ wk'[w].bot = wk[w].bot
      /\ wk'[w].victim = None
  BY DEF TypeOK, ReclaimClose, SetState, Jobs
<1>5. LiveIsBound'
  BY <1>4, <1>3 DEF TypeOK, ReclaimClose, SetState, system, LiveIsBound,
     RevivesBound
<1>6. LeasePointsBack'
  BY <1>4, <1>3 DEF TypeOK, ReclaimClose, SetState, system, LeasePointsBack
<1>7. SidExists'
  BY <1>4, <1>3 DEF TypeOK, ReclaimClose, SetState, system, SidExists
<1>8. VictimExists'
  BY <1>4, <1>3 DEF TypeOK, ReclaimClose, SetState, system, VictimExists
<1>9. OwnBirth'
  BY <1>4, <1>3 DEF TypeOK, ReclaimClose, SetState, system, OwnBirth,
     SidExists, InBirth, Unleased
<1>10. UnleasedOwnsNothing'
  BY <1>4, <1>3 DEF TypeOK, ReclaimClose, SetState, system,
     UnleasedOwnsNothing, Unleased
<1>11. LockHeld'
  BY <1>4, <1>3 DEF TypeOK, ReclaimClose, SetState, system, LockHeld
<1>12. BindsItsLease'
  BY <1>4, <1>3 DEF TypeOK, ReclaimClose, SetState, system, BindsItsLease
<1>13. RevivesBound'
  BY <1>4, <1>3 DEF TypeOK, ReclaimClose, SetState, system, RevivesBound
<1>14. RowsExist'
  BY <1>4, <1>3 DEF TypeOK, ReclaimClose, SetState, system, RowsExist
<1> QED
  BY <1>3, <1>5, <1>6, <1>7, <1>8, <1>9, <1>10, <1>11, <1>12, <1>13, <1>14 DEF
     ReclaimClose, system, OneBotPerSession

\* A released bot is nobody's.
LEMMA ReclaimReleaseKeeps ==
    ASSUME IInv, NEW w \in Workers, ReclaimRelease(w)
    PROVE  IInv'
<1> USE DistinctNone DEF IInv
<1>1. owner' \in [Bots -> Sessions \cup {None}]
  BY DEF TypeOK, ReclaimRelease, Disown, Jobs
<1>2. wk' \in [Workers -> Jobs]
  <2>1. wk[w] \in Jobs
    BY DEF TypeOK
  <2>2. [wk[w] EXCEPT !.pc = "lease", !.bot = None, !.retry = TRUE] \in Jobs
    BY <2>1 DEF Jobs, WorkerPcs
  <2> QED
    BY <2>2 DEF TypeOK, ReclaimRelease
<1>3. TypeOK'
  BY <1>1, <1>2, CrashBound DEF TypeOK, ReclaimRelease, Disown, system
<1>4. /\ \A x \in Workers : x # w => wk'[x] = wk[x]
      /\ wk'[w].pc = "lease"
      /\ wk'[w].sid = wk[w].sid
      /\ wk'[w].bot = None
      /\ wk'[w].victim = wk[w].victim
  BY DEF TypeOK, ReclaimRelease, Disown, Jobs
<1>5. LeasePointsBack'
  BY <1>4, <1>3 DEF TypeOK, ReclaimRelease, Disown, system, LeasePointsBack
<1>6. SidExists'
  BY <1>4, <1>3 DEF TypeOK, ReclaimRelease, Disown, system, SidExists
<1>7. VictimExists'
  BY <1>4, <1>3 DEF TypeOK, ReclaimRelease, Disown, system, VictimExists
<1>8. OwnBirth'
  BY <1>4, <1>3 DEF TypeOK, ReclaimRelease, Disown, system, OwnBirth,
     SidExists, InBirth, Unleased
<1>9. UnleasedOwnsNothing'
  BY <1>4, <1>3 DEF TypeOK, ReclaimRelease, Disown, system,
     UnleasedOwnsNothing, Unleased, OwnBirth, InBirth
<1>10. LockHeld'
  BY <1>4, <1>3 DEF TypeOK, ReclaimRelease, Disown, system, LockHeld
<1>11. BindsItsLease'
  BY <1>4, <1>3 DEF TypeOK, ReclaimRelease, Disown, system, BindsItsLease,
     OwnBirth, InBirth, Unleased
<1>12. RevivesBound'
  BY <1>4, <1>3 DEF TypeOK, ReclaimRelease, Disown, system, RevivesBound
<1>13. OneBotPerSession'
  BY <1>4, <1>3 DEF TypeOK, ReclaimRelease, Disown, system, OneBotPerSession
<1> QED
  BY <1>3, <1>5, <1>6, <1>7, <1>8, <1>9, <1>10, <1>11, <1>12, <1>13 DEF
     ReclaimRelease, system, LiveIsBound, RowsExist

\* The one bot leased to the session is the one bound.
LEMMA BindBotKeeps ==
    ASSUME IInv, NEW w \in Workers, BindBot(w)
    PROVE  IInv'
<1> USE DistinctNone DEF IInv
<1>1. botOf' \in [Sessions -> Bots \cup {None}]
  BY DEF TypeOK, BindBot, Goto, Jobs
<1>2. wk' \in [Workers -> Jobs]
  BY DEF TypeOK, BindBot, Goto, Jobs, WorkerPcs
<1>3. TypeOK'
  BY <1>1, <1>2, CrashBound DEF TypeOK, BindBot, Goto, system
<1>4. /\ \A x \in Workers : x # w => wk'[x] = wk[x]
      /\ wk'[w].pc = "mark_live"
      /\ wk'[w].sid = wk[w].sid
      /\ wk'[w].bot = wk[w].bot
      /\ wk'[w].victim = wk[w].victim
  BY DEF TypeOK, BindBot, Goto, Jobs
<1>5. LiveIsBound'
  BY <1>4, <1>3 DEF TypeOK, BindBot, Goto, system, LiveIsBound, RevivesBound,
     BindsItsLease
<1>6. LeasePointsBack'
  BY <1>4, <1>3 DEF TypeOK, BindBot, Goto, system, LeasePointsBack,
     BindsItsLease
<1>7. SidExists'
  BY <1>4, <1>3 DEF TypeOK, BindBot, Goto, system, SidExists
<1>8. VictimExists'
  BY <1>4, <1>3 DEF TypeOK, BindBot, Goto, system, VictimExists
<1>9. OwnBirth'
  BY <1>4, <1>3 DEF TypeOK, BindBot, Goto, system, OwnBirth, SidExists,
     InBirth, Unleased
<1>10. UnleasedOwnsNothing'
  BY <1>4, <1>3 DEF TypeOK, BindBot, Goto, system, UnleasedOwnsNothing,
     Unleased, OwnBirth, InBirth
<1>11. LockHeld'
  BY <1>4, <1>3 DEF TypeOK, BindBot, Goto, system, LockHeld
<1>12. BindsItsLease'
  BY <1>4, <1>3 DEF TypeOK, BindBot, Goto, system, BindsItsLease
<1>13. RevivesBound'
  BY <1>4, <1>3 DEF TypeOK, BindBot, Goto, system, RevivesBound, BindsItsLease,
     OwnBirth, InBirth, Unleased
<1>14. RowsExist'
  BY <1>4, <1>3 DEF TypeOK, BindBot, Goto, system, RowsExist, SidExists,
     OwnBirth, InBirth, Unleased
<1> QED
  BY <1>3, <1>5, <1>6, <1>7, <1>8, <1>9, <1>10, <1>11, <1>12, <1>13, <1>14 DEF
     BindBot, system, OneBotPerSession

\* Only a bound session is marked live.
LEMMA MarkLiveKeeps ==
    ASSUME IInv, NEW w \in Workers, MarkLive(w)
    PROVE  IInv'
<1> USE DistinctNone DEF IInv
<1>1. state' \in [Sessions -> SessionStates]
  BY DEF TypeOK, MarkLive, SetState, Parked, SessionStates
<1>2. wk' \in [Workers -> Jobs]
  BY DEF TypeOK, MarkLive, SetState, Parked, Jobs, WorkerPcs
<1>3. TypeOK'
  BY <1>1, <1>2, CrashBound DEF TypeOK, MarkLive, SetState, Parked, system
<1>4. /\ \A x \in Workers : x # w => wk'[x] = wk[x]
      /\ wk'[w].pc = "idle"
      /\ wk'[w].sid = None
      /\ wk'[w].bot = None
      /\ wk'[w].victim = None
  BY DEF TypeOK, MarkLive, SetState, Parked, Jobs
<1>5. LiveIsBound'
  BY <1>4, <1>3 DEF TypeOK, MarkLive, SetState, Parked, system, LiveIsBound,
     RevivesBound
<1>6. LeasePointsBack'
  BY <1>4, <1>3 DEF TypeOK, MarkLive, SetState, Parked, system, LeasePointsBack
<1>7. SidExists'
  BY <1>4, <1>3 DEF TypeOK, MarkLive, SetState, Parked, system, SidExists
<1>8. VictimExists'
  BY <1>4, <1>3 DEF TypeOK, MarkLive, SetState, Parked, system, VictimExists
<1>9. OwnBirth'
  BY <1>4, <1>3 DEF TypeOK, MarkLive, SetState, Parked, system, OwnBirth,
     SidExists, InBirth, Unleased
<1>10. UnleasedOwnsNothing'
  BY <1>4, <1>3 DEF TypeOK, MarkLive, SetState, Parked, system,
     UnleasedOwnsNothing, Unleased
<1>11. LockHeld'
  BY <1>4, <1>3 DEF TypeOK, MarkLive, SetState, Parked, system, LockHeld
<1>12. BindsItsLease'
  BY <1>4, <1>3 DEF TypeOK, MarkLive, SetState, Parked, system, BindsItsLease
<1>13. RevivesBound'
  BY <1>4, <1>3 DEF TypeOK, MarkLive, SetState, Parked, system, RevivesBound
<1>14. RowsExist'
  BY <1>4, <1>3 DEF TypeOK, MarkLive, SetState, Parked, system, RowsExist
<1> QED
  BY <1>3, <1>5, <1>6, <1>7, <1>8, <1>9, <1>10, <1>11, <1>12, <1>13, <1>14 DEF
     MarkLive, system, OneBotPerSession

\* The rollback drops the birth before it touches a row.
LEMMA BirthFailsKeeps ==
    ASSUME IInv, NEW w \in Workers, BirthFails(w)
    PROVE  IInv'
<1> USE DistinctNone DEF IInv
<1>1. wk' \in [Workers -> Jobs]
  <2>1. wk \in [Workers -> Jobs] /\ "release" \in WorkerPcs
    BY DEF TypeOK, WorkerPcs
  <2>2. wk' = [wk EXCEPT ![w].pc = "release"]
    BY DEF BirthFails, Goto
  <2> QED
    BY ONLY <2>1, <2>2, w \in Workers DEF Jobs
<1>2. TypeOK'
  BY <1>1, CrashBound DEF TypeOK, BirthFails, Goto, rows, system
<1>3. /\ \A x \in Workers : x # w => wk'[x] = wk[x]
      /\ wk'[w].pc = "release"
      /\ wk'[w].sid = wk[w].sid
      /\ wk'[w].bot = wk[w].bot
      /\ wk'[w].victim = wk[w].victim
  BY DEF TypeOK, BirthFails, Goto, Jobs
<1>4. SidExists'
  BY <1>3, <1>2 DEF TypeOK, BirthFails, Goto, rows, system, SidExists
<1>5. VictimExists'
  BY <1>3, <1>2 DEF TypeOK, BirthFails, Goto, rows, system, VictimExists
<1>6. OwnBirth'
  BY <1>3, <1>2 DEF TypeOK, BirthFails, Goto, rows, system, OwnBirth,
     SidExists, InBirth, Unleased
<1>7. UnleasedOwnsNothing'
  BY <1>3, <1>2 DEF TypeOK, BirthFails, Goto, rows, system,
     UnleasedOwnsNothing, Unleased
<1>8. LockHeld'
  BY <1>3, <1>2 DEF TypeOK, BirthFails, Goto, rows, system, LockHeld
<1>9. BindsItsLease'
  BY <1>3, <1>2 DEF TypeOK, BirthFails, Goto, rows, system, BindsItsLease
<1>10. RevivesBound'
  BY <1>3, <1>2 DEF TypeOK, BirthFails, Goto, rows, system, RevivesBound
<1> QED
  BY <1>2, <1>4, <1>5, <1>6, <1>7, <1>8, <1>9, <1>10 DEF BirthFails, rows,
     system, LiveIsBound, LeasePointsBack, RowsExist, OneBotPerSession

\* Whoever resolved an open session refers to a row that exists.
LEMMA CloseResolveKeeps ==
    ASSUME IInv, NEW w \in Workers, NEW s \in Sessions, CloseResolve(w, s)
    PROVE  IInv'
<1> USE DistinctNone DEF IInv
<1>1. wk' \in [Workers -> Jobs]
  BY DEF TypeOK, CloseResolve, Parked, Open, Jobs, WorkerPcs
<1>2. TypeOK'
  BY <1>1, CrashBound DEF TypeOK, CloseResolve, Parked, Open, rows, system
<1>3. /\ \A x \in Workers : x # w => wk'[x] = wk[x]
      /\ wk'[w].pc = (IF botOf[s] = None THEN "close" ELSE "release")
      /\ wk'[w].sid = s
      /\ wk'[w].bot = botOf[s]
      /\ wk'[w].victim = None
  BY DEF TypeOK, CloseResolve, Parked, Open, Jobs
<1>4. SidExists'
  BY <1>3, <1>2 DEF TypeOK, CloseResolve, Parked, Open, rows, system, SidExists
<1>5. VictimExists'
  BY <1>3, <1>2 DEF TypeOK, CloseResolve, Parked, Open, rows, system,
     VictimExists
<1>6. OwnBirth'
  BY <1>3, <1>2 DEF TypeOK, CloseResolve, Parked, Open, rows, system, OwnBirth,
     SidExists, InBirth, Unleased
<1>7. UnleasedOwnsNothing'
  BY <1>3, <1>2 DEF TypeOK, CloseResolve, Parked, Open, rows, system,
     UnleasedOwnsNothing, Unleased
<1>8. LockHeld'
  BY <1>3, <1>2 DEF TypeOK, CloseResolve, Parked, Open, rows, system, LockHeld
<1>9. BindsItsLease'
  BY <1>3, <1>2 DEF TypeOK, CloseResolve, Parked, Open, rows, system,
     BindsItsLease
<1>10. RevivesBound'
  BY <1>3, <1>2 DEF TypeOK, CloseResolve, Parked, Open, rows, system,
     RevivesBound
<1> QED
  BY <1>2, <1>4, <1>5, <1>6, <1>7, <1>8, <1>9, <1>10 DEF CloseResolve, rows,
     system, LiveIsBound, LeasePointsBack, RowsExist, OneBotPerSession

\* A stale release takes a bot from its new session but gives it to none.
LEMMA ReleaseBotKeeps ==
    ASSUME IInv, NEW w \in Workers, ReleaseBot(w)
    PROVE  IInv'
<1> USE DistinctNone DEF IInv
<1>1. owner' \in [Bots -> Sessions \cup {None}]
  BY DEF TypeOK, ReleaseBot, Disown, Goto, Jobs
<1>2. wk' \in [Workers -> Jobs]
  BY DEF TypeOK, ReleaseBot, Disown, Goto, Jobs, WorkerPcs
<1>3. TypeOK'
  BY <1>1, <1>2, CrashBound DEF TypeOK, ReleaseBot, Disown, Goto, system
<1>4. /\ \A x \in Workers : x # w => wk'[x] = wk[x]
      /\ wk'[w].pc = "close"
      /\ wk'[w].sid = wk[w].sid
      /\ wk'[w].bot = wk[w].bot
      /\ wk'[w].victim = wk[w].victim
  BY DEF TypeOK, ReleaseBot, Disown, Goto, Jobs
<1>5. LeasePointsBack'
  BY <1>4, <1>3 DEF TypeOK, ReleaseBot, Disown, Goto, system, LeasePointsBack
<1>6. SidExists'
  BY <1>4, <1>3 DEF TypeOK, ReleaseBot, Disown, Goto, system, SidExists
<1>7. VictimExists'
  BY <1>4, <1>3 DEF TypeOK, ReleaseBot, Disown, Goto, system, VictimExists
<1>8. OwnBirth'
  BY <1>4, <1>3 DEF TypeOK, ReleaseBot, Disown, Goto, system, OwnBirth,
     SidExists, InBirth, Unleased
<1>9. UnleasedOwnsNothing'
  BY <1>4, <1>3 DEF TypeOK, ReleaseBot, Disown, Goto, system,
     UnleasedOwnsNothing, Unleased, OwnBirth, InBirth
<1>10. LockHeld'
  BY <1>4, <1>3 DEF TypeOK, ReleaseBot, Disown, Goto, system, LockHeld
<1>11. BindsItsLease'
  BY <1>4, <1>3 DEF TypeOK, ReleaseBot, Disown, Goto, system, BindsItsLease,
     OwnBirth, InBirth, Unleased
<1>12. RevivesBound'
  BY <1>4, <1>3 DEF TypeOK, ReleaseBot, Disown, Goto, system, RevivesBound
<1>13. OneBotPerSession'
  BY <1>4, <1>3 DEF TypeOK, ReleaseBot, Disown, Goto, system, OneBotPerSession
<1> QED
  BY <1>3, <1>5, <1>6, <1>7, <1>8, <1>9, <1>10, <1>11, <1>12, <1>13 DEF
     ReleaseBot, system, LiveIsBound, RowsExist

\* Closing unbinds nothing.
LEMMA CloseSessionKeeps ==
    ASSUME IInv, NEW w \in Workers, CloseSession(w)
    PROVE  IInv'
<1> USE DistinctNone DEF IInv
<1>1. state' \in [Sessions -> SessionStates]
  BY DEF TypeOK, CloseSession, SetState, Parked, SessionStates
<1>2. wk' \in [Workers -> Jobs]
  BY DEF TypeOK, CloseSession, SetState, Parked, Jobs, WorkerPcs
<1>3. TypeOK'
  BY <1>1, <1>2, CrashBound DEF TypeOK, CloseSession, SetState, Parked, system
<1>4. /\ \A x \in Workers : x # w => wk'[x] = wk[x]
      /\ wk'[w].pc = "idle"
      /\ wk'[w].sid = None
      /\ wk'[w].bot = None
      /\ wk'[w].victim = None
  BY DEF TypeOK, CloseSession, SetState, Parked, Jobs
<1>5. LiveIsBound'
  BY <1>4, <1>3 DEF TypeOK, CloseSession, SetState, Parked, system,
     LiveIsBound, RevivesBound
<1>6. LeasePointsBack'
  BY <1>4, <1>3 DEF TypeOK, CloseSession, SetState, Parked, system,
     LeasePointsBack
<1>7. SidExists'
  BY <1>4, <1>3 DEF TypeOK, CloseSession, SetState, Parked, system, SidExists
<1>8. VictimExists'
  BY <1>4, <1>3 DEF TypeOK, CloseSession, SetState, Parked, system,
     VictimExists
<1>9. OwnBirth'
  BY <1>4, <1>3 DEF TypeOK, CloseSession, SetState, Parked, system, OwnBirth,
     SidExists, InBirth, Unleased
<1>10. UnleasedOwnsNothing'
  BY <1>4, <1>3 DEF TypeOK, CloseSession, SetState, Parked, system,
     UnleasedOwnsNothing, Unleased
<1>11. LockHeld'
  BY <1>4, <1>3 DEF TypeOK, CloseSession, SetState, Parked, system, LockHeld
<1>12. BindsItsLease'
  BY <1>4, <1>3 DEF TypeOK, CloseSession, SetState, Parked, system,
     BindsItsLease
<1>13. RevivesBound'
  BY <1>4, <1>3 DEF TypeOK, CloseSession, SetState, Parked, system,
     RevivesBound
<1>14. RowsExist'
  BY <1>4, <1>3 DEF TypeOK, CloseSession, SetState, Parked, system, RowsExist
<1> QED
  BY <1>3, <1>5, <1>6, <1>7, <1>8, <1>9, <1>10, <1>11, <1>12, <1>13, <1>14 DEF
     CloseSession, system, OneBotPerSession

\* A turn that breaks off gives up its lock and nothing else.
LEMMA BreaksOffKeeps ==
    ASSUME IInv, NEW w \in Workers, BreaksOff(w)
    PROVE  IInv'
<1> USE DistinctNone DEF IInv
<1>1. lock' \in [Bots -> Workers \cup {None}]
  BY DEF TypeOK, BreaksOff, TurnTimeout, StoreRaises, CutOff, Parked, Jobs
<1>2. wk' \in [Workers -> Jobs]
  <2>1. wk' = [wk EXCEPT ![w] = Parked]
    BY DEF BreaksOff, TurnTimeout, StoreRaises, CutOff
  <2>2. Parked \in Jobs
    BY DEF Parked, Jobs, WorkerPcs
  <2> QED
    BY <2>1, <2>2 DEF TypeOK
<1>3. TypeOK'
  BY <1>1, <1>2, CrashBound DEF TypeOK, BreaksOff, TurnTimeout, StoreRaises,
     CutOff, Parked, system
<1>4. /\ \A x \in Workers : x # w => wk'[x] = wk[x]
      /\ wk'[w].pc = "idle"
      /\ wk'[w].sid = None
      /\ wk'[w].bot = None
      /\ wk'[w].victim = None
  BY DEF TypeOK, BreaksOff, TurnTimeout, StoreRaises, CutOff, Parked, Jobs
<1>5. SidExists'
  BY <1>4, <1>3 DEF TypeOK, BreaksOff, TurnTimeout, StoreRaises, CutOff,
     Parked, system, SidExists
<1>6. VictimExists'
  BY <1>4, <1>3 DEF TypeOK, BreaksOff, TurnTimeout, StoreRaises, CutOff,
     Parked, system, VictimExists
<1>7. OwnBirth'
  BY <1>4, <1>3 DEF TypeOK, BreaksOff, TurnTimeout, StoreRaises, CutOff,
     Parked, system, OwnBirth, SidExists,
     InBirth, Unleased
<1>8. UnleasedOwnsNothing'
  BY <1>4, <1>3 DEF TypeOK, BreaksOff, TurnTimeout, StoreRaises, CutOff,
     Parked, system, UnleasedOwnsNothing,
     Unleased
<1>9. LockHeld'
  BY <1>4, <1>3 DEF TypeOK, BreaksOff, TurnTimeout, StoreRaises, CutOff,
     Parked, system, LockHeld
<1>10. BindsItsLease'
  BY <1>4, <1>3 DEF TypeOK, BreaksOff, TurnTimeout, StoreRaises, CutOff,
     Parked, system, BindsItsLease
<1>11. RevivesBound'
  BY <1>4, <1>3 DEF TypeOK, BreaksOff, TurnTimeout, StoreRaises, CutOff,
     Parked, system, RevivesBound
<1> QED
  BY <1>3, <1>5, <1>6, <1>7, <1>8, <1>9, <1>10, <1>11 DEF BreaksOff,
     TurnTimeout, StoreRaises, CutOff, system,
     LiveIsBound, LeasePointsBack, RowsExist, OneBotPerSession

\* A session found dormant is bound, and stays so until the reopen.
LEMMA HookResolveKeeps ==
    ASSUME IInv, NEW h \in Hooks, NEW b \in Bots, NEW t \in Topics,
           HookResolve(h, b, t)
    PROVE  IInv'
<1> USE DistinctNone DEF IInv
<1>1. hook' \in [Hooks -> Requests]
  BY DEF TypeOK, HookResolve, Open, Requests
<1>2. TypeOK'
  BY <1>1, CrashBound DEF TypeOK, HookResolve, Open, rows, system
<1>3. RevivesBound'
  BY <1>2 DEF TypeOK, HookResolve, Open, rows, system, RevivesBound,
     LiveIsBound
<1> QED
  BY <1>2, <1>3 DEF HookResolve, rows, system, LiveIsBound, LeasePointsBack,
     SidExists, VictimExists, OwnBirth, UnleasedOwnsNothing, LockHeld,
     BindsItsLease, RowsExist, OneBotPerSession, InBirth, Unleased

\* The reopened session is still bound, even if closed meanwhile.
LEMMA HookReopenKeeps ==
    ASSUME IInv, NEW h \in Hooks, HookReopen(h)
    PROVE  IInv'
<1> USE DistinctNone DEF IInv
<1>1. state' \in [Sessions -> SessionStates]
  BY DEF TypeOK, HookReopen, SetState, SessionStates
<1>2. hook' \in [Hooks -> Requests]
  BY DEF TypeOK, HookReopen, SetState, Requests
<1>3. TypeOK'
  BY <1>1, <1>2, CrashBound DEF TypeOK, HookReopen, SetState, system
<1>4. LiveIsBound'
  BY <1>3 DEF TypeOK, HookReopen, SetState, system, LiveIsBound, RevivesBound
<1>5. LeasePointsBack'
  BY <1>3 DEF TypeOK, HookReopen, SetState, system, LeasePointsBack
<1>6. SidExists'
  BY <1>3 DEF TypeOK, HookReopen, SetState, system, SidExists
<1>7. VictimExists'
  BY <1>3 DEF TypeOK, HookReopen, SetState, system, VictimExists
<1>8. RevivesBound'
  BY <1>3 DEF TypeOK, HookReopen, SetState, system, RevivesBound
<1>9. RowsExist'
  BY <1>3 DEF TypeOK, HookReopen, SetState, system, RowsExist
<1> QED
  BY <1>3, <1>4, <1>5, <1>6, <1>7, <1>8, <1>9 DEF HookReopen, system, OwnBirth,
     UnleasedOwnsNothing, LockHeld, BindsItsLease, OneBotPerSession, InBirth,
     Unleased

\* The answer of the resolver changes no row.
LEMMA HookReturnKeeps ==
    ASSUME IInv, NEW h \in Hooks, HookReturn(h)
    PROVE  IInv'
<1> USE DistinctNone DEF IInv
<1>1. hook' \in [Hooks -> Requests]
  BY DEF TypeOK, HookReturn, NoRequest, Requests
<1>2. TypeOK'
  BY <1>1, CrashBound DEF TypeOK, HookReturn, NoRequest, rows, system
<1>3. RevivesBound'
  BY <1>2 DEF TypeOK, HookReturn, NoRequest, rows, system, RevivesBound
<1> QED
  BY <1>2, <1>3 DEF HookReturn, rows, system, LiveIsBound, LeasePointsBack,
     SidExists, VictimExists, OwnBirth, UnleasedOwnsNothing, LockHeld,
     BindsItsLease, RowsExist, OneBotPerSession, InBirth, Unleased

\* Live sessions are bound.
LEMMA ReaperScanKeeps ==
    ASSUME IInv, NEW S \in SUBSET Sessions, ReaperScan(S)
    PROVE  IInv'
<1> USE DistinctNone DEF IInv
<1>1. TypeOK'
  BY CrashBound DEF TypeOK, ReaperScan, InState, rows, system
<1>2. RevivesBound'
  BY <1>1 DEF TypeOK, ReaperScan, InState, rows, system, RevivesBound,
     LiveIsBound
<1> QED
  BY <1>1, <1>2 DEF ReaperScan, rows, system, LiveIsBound, LeasePointsBack,
     SidExists, VictimExists, OwnBirth, UnleasedOwnsNothing, LockHeld,
     BindsItsLease, RowsExist, OneBotPerSession, InBirth, Unleased

\* The marked session is still bound, even if closed meanwhile.
LEMMA ReaperMarkKeeps ==
    ASSUME IInv, NEW s \in Sessions, ReaperMark(s)
    PROVE  IInv'
<1> USE DistinctNone DEF IInv
<1>1. state' \in [Sessions -> SessionStates]
  BY DEF TypeOK, ReaperMark, SetState, SessionStates
<1>2. TypeOK'
  BY <1>1, CrashBound DEF TypeOK, ReaperMark, SetState, system
<1>3. LiveIsBound'
  BY <1>2 DEF TypeOK, ReaperMark, SetState, system, LiveIsBound, RevivesBound
<1>4. LeasePointsBack'
  BY <1>2 DEF TypeOK, ReaperMark, SetState, system, LeasePointsBack
<1>5. SidExists'
  BY <1>2 DEF TypeOK, ReaperMark, SetState, system, SidExists
<1>6. VictimExists'
  BY <1>2 DEF TypeOK, ReaperMark, SetState, system, VictimExists
<1>7. RevivesBound'
  BY <1>2 DEF TypeOK, ReaperMark, SetState, system, RevivesBound
<1>8. RowsExist'
  BY <1>2 DEF TypeOK, ReaperMark, SetState, system, RowsExist
<1> QED
  BY <1>2, <1>3, <1>4, <1>5, <1>6, <1>7, <1>8 DEF ReaperMark, system, OwnBirth,
     UnleasedOwnsNothing, LockHeld, BindsItsLease, OneBotPerSession, InBirth,
     Unleased

\* A session skipped is a row unchanged.
LEMMA ReaperSkipKeeps ==
    ASSUME IInv, NEW s \in Sessions, ReaperSkip(s)
    PROVE  IInv'
<1> USE DistinctNone DEF IInv
<1>1. TypeOK'
  BY CrashBound DEF TypeOK, ReaperSkip, rows, system
<1>2. RevivesBound'
  BY <1>1 DEF TypeOK, ReaperSkip, rows, system, RevivesBound
<1> QED
  BY <1>1, <1>2 DEF ReaperSkip, rows, system, LiveIsBound, LeasePointsBack,
     SidExists, VictimExists, OwnBirth, UnleasedOwnsNothing, LockHeld,
     BindsItsLease, RowsExist, OneBotPerSession, InBirth, Unleased

\* A crash forgets the tasks and keeps the rows.
LEMMA CrashKeeps ==
    ASSUME IInv, Crash
    PROVE  IInv'
<1> USE DistinctNone DEF IInv
<1>1. lock' \in [Bots -> Workers \cup {None}]
  BY DEF TypeOK, Crash, Parked, NoRequest, Jobs
<1>2. wk' \in [Workers -> Jobs]
  BY DEF TypeOK, Crash, Parked, NoRequest, Jobs, WorkerPcs
<1>3. hook' \in [Hooks -> Requests]
  BY DEF TypeOK, Crash, Parked, NoRequest, Requests
<1>4. crashes' \in 0..MaxCrashes
  BY CrashBound DEF TypeOK, Crash
<1>5. TypeOK'
  BY <1>1, <1>2, <1>3, <1>4, CrashBound DEF TypeOK, Crash, Parked, NoRequest
<1>6. SidExists'
  BY <1>5 DEF TypeOK, Crash, Parked, NoRequest, SidExists
<1>7. VictimExists'
  BY <1>5 DEF TypeOK, Crash, Parked, NoRequest, VictimExists
<1>8. OwnBirth'
  BY <1>5 DEF TypeOK, Crash, Parked, NoRequest, OwnBirth, SidExists, InBirth,
     Unleased
<1>9. UnleasedOwnsNothing'
  BY <1>5 DEF TypeOK, Crash, Parked, NoRequest, UnleasedOwnsNothing, Unleased
<1>10. LockHeld'
  BY <1>5 DEF TypeOK, Crash, Parked, NoRequest, LockHeld
<1>11. BindsItsLease'
  BY <1>5 DEF TypeOK, Crash, Parked, NoRequest, BindsItsLease
<1>12. RevivesBound'
  BY <1>5 DEF TypeOK, Crash, Parked, NoRequest, RevivesBound
<1>13. RowsExist'
  BY <1>5 DEF TypeOK, Crash, Parked, NoRequest, RowsExist
<1> QED
  BY <1>5, <1>6, <1>7, <1>8, <1>9, <1>10, <1>11, <1>12, <1>13 DEF Crash,
     LiveIsBound, LeasePointsBack, OneBotPerSession

\* The rows in birth exist.
LEMMA RecoverListBirthsKeeps ==
    ASSUME IInv, RecoverListBirths
    PROVE  IInv'
<1> USE DistinctNone DEF IInv
<1>1. TypeOK'
  BY CrashBound DEF TypeOK, RecoverListBirths, InState, rows, procs
<1>2. RowsExist'
  BY <1>1 DEF TypeOK, RecoverListBirths, InState, rows, procs, RowsExist
<1> QED
  BY <1>1, <1>2 DEF RecoverListBirths, rows, procs, LiveIsBound,
     LeasePointsBack, SidExists, VictimExists, OwnBirth, UnleasedOwnsNothing,
     LockHeld, BindsItsLease, RevivesBound, OneBotPerSession, InBirth, Unleased

\* The recovery's release gives no bot to anybody.
LEMMA RecoverReleaseKeeps ==
    ASSUME IInv, NEW s \in Sessions, RecoverRelease(s)
    PROVE  IInv'
<1> USE DistinctNone DEF IInv
<1>1. owner' \in [Bots -> Sessions \cup {None}]
  BY DEF TypeOK, RecoverRelease, Jobs
<1>2. TypeOK'
  BY <1>1, CrashBound DEF TypeOK, RecoverRelease, procs, system
<1>3. LeasePointsBack'
  BY <1>2 DEF TypeOK, RecoverRelease, procs, system, LeasePointsBack
<1>4. UnleasedOwnsNothing'
  BY <1>2 DEF TypeOK, RecoverRelease, procs, system, UnleasedOwnsNothing,
     Unleased, OwnBirth, InBirth
<1>5. LockHeld'
  BY <1>2 DEF TypeOK, RecoverRelease, procs, system, LockHeld
<1>6. BindsItsLease'
  BY <1>2 DEF TypeOK, RecoverRelease, procs, system, BindsItsLease, OwnBirth,
     InBirth, Unleased
<1>7. OneBotPerSession'
  BY <1>2 DEF TypeOK, RecoverRelease, procs, system, OneBotPerSession
<1> QED
  BY <1>2, <1>3, <1>4, <1>5, <1>6, <1>7 DEF RecoverRelease, procs, system,
     LiveIsBound, SidExists, VictimExists, OwnBirth, RevivesBound, RowsExist,
     InBirth, Unleased

\* Closing an abandoned birth unbinds nothing.
LEMMA RecoverCloseKeeps ==
    ASSUME IInv, NEW s \in Sessions, RecoverClose(s)
    PROVE  IInv'
<1> USE DistinctNone DEF IInv
<1>1. state' \in [Sessions -> SessionStates]
  BY DEF TypeOK, RecoverClose, SetState, SessionStates
<1>2. TypeOK'
  BY <1>1, CrashBound DEF TypeOK, RecoverClose, SetState, procs
<1>3. LiveIsBound'
  BY <1>2 DEF TypeOK, RecoverClose, SetState, procs, LiveIsBound, RevivesBound
<1>4. LeasePointsBack'
  BY <1>2 DEF TypeOK, RecoverClose, SetState, procs, LeasePointsBack
<1>5. SidExists'
  BY <1>2 DEF TypeOK, RecoverClose, SetState, procs, SidExists
<1>6. VictimExists'
  BY <1>2 DEF TypeOK, RecoverClose, SetState, procs, VictimExists
<1>7. RowsExist'
  BY <1>2 DEF TypeOK, RecoverClose, SetState, procs, RowsExist
<1> QED
  BY <1>2, <1>3, <1>4, <1>5, <1>6, <1>7 DEF RecoverClose, procs, OwnBirth,
     UnleasedOwnsNothing, LockHeld, BindsItsLease, RevivesBound,
     OneBotPerSession, InBirth, Unleased

\* Listing the leases changes no row.
LEMMA RecoverListLeasesKeeps ==
    ASSUME IInv, RecoverListLeases
    PROVE  IInv'
<1> USE DistinctNone DEF IInv
<1>1. TypeOK'
  BY CrashBound DEF TypeOK, RecoverListLeases, Leased, rows, procs
<1>2. RowsExist'
  BY <1>1 DEF TypeOK, RecoverListLeases, Leased, rows, procs, RowsExist
<1> QED
  BY <1>1, <1>2 DEF RecoverListLeases, rows, procs, LiveIsBound,
     LeasePointsBack, SidExists, VictimExists, OwnBirth, UnleasedOwnsNothing,
     LockHeld, BindsItsLease, RevivesBound, OneBotPerSession, InBirth, Unleased

\* Releasing an orphan gives no bot to anybody.
LEMMA RecoverLeaseKeeps ==
    ASSUME IInv, NEW b \in Bots, RecoverLease(b)
    PROVE  IInv'
<1> USE DistinctNone DEF IInv
<1>1. owner' \in [Bots -> Sessions \cup {None}]
  BY DEF TypeOK, RecoverLease, Jobs
<1>2. TypeOK'
  BY <1>1, CrashBound DEF TypeOK, RecoverLease, procs
<1>3. LeasePointsBack'
  BY <1>2 DEF TypeOK, RecoverLease, procs, LeasePointsBack
<1>4. UnleasedOwnsNothing'
  BY <1>2 DEF TypeOK, RecoverLease, procs, UnleasedOwnsNothing, Unleased,
     OwnBirth, InBirth
<1>5. LockHeld'
  BY <1>2 DEF TypeOK, RecoverLease, procs, LockHeld
<1>6. BindsItsLease'
  BY <1>2 DEF TypeOK, RecoverLease, procs, BindsItsLease, OwnBirth, InBirth,
     Unleased
<1>7. RowsExist'
  BY <1>2 DEF TypeOK, RecoverLease, procs, RowsExist
<1>8. OneBotPerSession'
  BY <1>2 DEF TypeOK, RecoverLease, procs, OneBotPerSession
<1> QED
  BY <1>2, <1>3, <1>4, <1>5, <1>6, <1>7, <1>8 DEF RecoverLease, procs,
     LiveIsBound, SidExists, VictimExists, OwnBirth, RevivesBound, InBirth,
     Unleased

\* The end of the recovery changes no row.
LEMMA RecoverDoneKeeps ==
    ASSUME IInv, RecoverDone
    PROVE  IInv'
<1> USE DistinctNone DEF IInv
<1>1. TypeOK'
  BY CrashBound DEF TypeOK, RecoverDone, rows, procs
<1>2. RowsExist'
  BY <1>1 DEF TypeOK, RecoverDone, rows, procs, RowsExist
<1> QED
  BY <1>1, <1>2 DEF RecoverDone, rows, procs, LiveIsBound, LeasePointsBack,
     SidExists, VictimExists, OwnBirth, UnleasedOwnsNothing, LockHeld,
     BindsItsLease, RevivesBound, OneBotPerSession, InBirth, Unleased

\* A failed recovery leaves the rows as they are.
LEMMA RecoverFailsKeeps ==
    ASSUME IInv, RecoverFails
    PROVE  IInv'
<1> USE DistinctNone DEF IInv
<1>1. TypeOK'
  BY CrashBound DEF TypeOK, RecoverFails, rows, procs
<1>2. RowsExist'
  BY <1>1 DEF TypeOK, RecoverFails, rows, procs, RowsExist
<1> QED
  BY <1>1, <1>2 DEF RecoverFails, rows, procs, LiveIsBound, LeasePointsBack,
     SidExists, VictimExists, OwnBirth, UnleasedOwnsNothing, LockHeld,
     BindsItsLease, RevivesBound, OneBotPerSession, InBirth, Unleased

-----------------------------------------------------------------------------
(* The ledger.                                                             *)

LifeOf == [s \in Sessions |-> Life(s)]

\* A step that leaves the leases alone settles those that stop waiting.
LEMMA SettleStep ==
    ASSUME owner' = owner,
           \A s \in Sessions : (state'[s] = "absent") = (state[s] = "absent"),
           \A s \in Sessions : Waits(s)' => Waits(s)
    PROVE  Ledger!Next
<1> DEFINE S == {s \in Sessions : Life(s) = "waiting" /\ Life(s)' # "waiting"}
<1>1. \A s \in Sessions : Life(s)' = IF s \in S THEN "settled" ELSE Life(s)
  BY DEF Life
<1>2. \A s \in S : LifeOf[s] = "waiting"
  BY DEF LifeOf
<1>3. LifeOf' = [s \in Sessions |-> IF s \in S THEN "settled" ELSE LifeOf[s]]
  BY <1>1 DEF LifeOf
<1>4. Ledger!Settle(S)
  BY <1>2, <1>3 DEF Ledger!Settle, LifeOf
<1> QED
  BY <1>4 DEF Ledger!Next

\* A step that only takes bots back releases them.
LEMMA ReleaseStep ==
    ASSUME NEW B \in SUBSET Bots,
           owner' = [b \in Bots |-> IF b \in B THEN None ELSE owner[b]],
           \A s \in Sessions : (state'[s] = "absent") = (state[s] = "absent"),
           \A s \in Sessions : Waits(s)' = Waits(s)
    PROVE  Ledger!Next
<1>1. LifeOf' = LifeOf
  BY DEF LifeOf, Life
<1>2. Ledger!Release(B)
  BY <1>1 DEF Ledger!Release, LifeOf
<1> QED
  BY <1>2 DEF Ledger!Next

\* The INSERT of a session mints its id.
LEMMA CreateMints ==
    ASSUME IInv, NEW w \in Workers, NEW s \in Sessions, CreateSession(w, s)
    PROVE  Ledger!Next
<1> USE DistinctNone
<1>1. /\ state[s] = "absent"
      /\ state'[s] = "provisioning"
      /\ \A u \in Sessions : u # s => state'[u] = state[u]
      /\ owner' = owner
  BY DEF IInv, TypeOK, CreateSession, SetState
<1>2. /\ \A x \in Workers : x # w => wk'[x] = wk[x]
      /\ wk'[w].pc = "lease"
      /\ wk'[w].sid = s
      /\ wk[w].pc = "create"
  BY DEF IInv, TypeOK, CreateSession, Parked, Jobs
<1>3. Waits(s)'
  BY <1>2 DEF Waits, Unleased
<1>4. \A u \in Sessions : u # s => Waits(u)' = Waits(u)
  BY <1>2 DEF Waits, Unleased
<1>5. Life(s) = "unborn" /\ Life(s)' = "waiting"
  BY <1>1, <1>3 DEF Life
<1>6. \A u \in Sessions : u # s => Life(u)' = Life(u)
  BY <1>1, <1>4 DEF Life
<1>7. LifeOf' = [LifeOf EXCEPT ![s] = "waiting"] /\ LifeOf[s] = "unborn"
  BY <1>5, <1>6 DEF LifeOf
<1>8. Ledger!Mint(s)
  BY <1>1, <1>7 DEF Ledger!Mint, LifeOf
<1> QED
  BY <1>8 DEF Ledger!Next

\* The commit of the lease transaction leases a free bot to a waiting session.
LEMMA CommitLeases ==
    ASSUME IInv, NEW w \in Workers, LeaseCommit(w)
    PROVE  Ledger!Next
<1> USE DistinctNone
<1>1. PICK b \in Bots, s \in Sessions : b = wk[w].bot /\ s = wk[w].sid
  BY DEF IInv, TypeOK, LockHeld, OwnBirth, InBirth, Unleased, Jobs, LeaseCommit
<1>2. /\ \A x \in Workers : x # w => wk'[x] = wk[x]
      /\ wk'[w].pc = "bind"
      /\ wk'[w].sid = s
      /\ wk[w].pc = "commit"
  BY <1>1 DEF IInv, TypeOK, LeaseCommit, Goto, Jobs
<1>3. owner[b] = None /\ state[s] # "absent" /\ state' = state
  BY <1>1, <1>2 DEF IInv, LockHeld, SidExists, LeaseCommit
<1>4. Waits(s)
  BY <1>1, <1>2 DEF Waits, Unleased
<1>5. ~Waits(s)'
  BY <1>1, <1>2 DEF IInv, OwnBirth, InBirth, Waits, Unleased
<1>6. \A u \in Sessions : u # s => Waits(u)' = Waits(u)
  BY <1>1, <1>2 DEF Waits, Unleased
<1>7. Life(s) = "waiting" /\ Life(s)' = "settled"
  BY <1>3, <1>4, <1>5 DEF Life
<1>8. \A u \in Sessions : u # s => Life(u)' = Life(u)
  BY <1>3, <1>6 DEF Life
<1>9. LifeOf[s] = "waiting" /\ LifeOf' = [LifeOf EXCEPT ![s] = "settled"]
  BY <1>7, <1>8 DEF LifeOf
<1>10. owner' = [owner EXCEPT ![b] = s]
  BY <1>1 DEF LeaseCommit
<1>11. Ledger!Lease(b, s)
  BY <1>3, <1>9, <1>10 DEF Ledger!Lease, LifeOf
<1> QED
  BY <1>11 DEF Ledger!Next

\* Every step is a step of the ledger, if only Settle({}).
LEMMA LedgerStep ==
    ASSUME IInv, Next
    PROVE  Ledger!Next
<1> USE DistinctNone
<1>1. ASSUME NEW b \in Bots, SeedBot(b) PROVE Ledger!Next
  <2>1. \A u \in Sessions : Waits(u)' = Waits(u)
    BY <1>1 DEF SeedBot, Waits, procs
  <2>2. state' = state
    BY <1>1 DEF SeedBot
  <2>3. owner' = owner
    BY <1>1 DEF SeedBot
  <2> QED
    BY <2>1, <2>2, <2>3, SettleStep
<1>2. ASSUME NEW w \in Workers, NEW t \in Topics, SpinUpCheck(w, t)
      PROVE Ledger!Next
  <2>1. /\ \A x \in Workers : x # w => wk'[x] = wk[x]
        /\ wk'[w].pc = "create"
        /\ wk'[w].sid = None
    BY <1>2 DEF IInv, TypeOK, SpinUpCheck, Parked, Jobs
  <2>2. \A u \in Sessions : Waits(u)' => Waits(u)
    BY <1>2, <2>1 DEF SpinUpCheck, Waits, Unleased
  <2>3. state' = state
    BY <1>2 DEF SpinUpCheck, rows
  <2>4. owner' = owner
    BY <1>2 DEF SpinUpCheck, rows
  <2> QED
    BY <2>2, <2>3, <2>4, SettleStep
<1>3. ASSUME NEW w \in Workers, NEW s \in Sessions, CreateSession(w, s)
      PROVE Ledger!Next
  BY <1>3, CreateMints
<1>4. ASSUME NEW w \in Workers, NEW b \in Bots, LeaseSelect(w, b)
      PROVE Ledger!Next
  <2>1. /\ \A x \in Workers : x # w => wk'[x] = wk[x]
        /\ wk'[w].pc = "commit"
        /\ wk'[w].sid = wk[w].sid
    BY <1>4 DEF IInv, TypeOK, LeaseSelect, Free, Jobs
  <2>2. \A u \in Sessions : Waits(u)' => Waits(u)
    BY <1>4, <2>1 DEF LeaseSelect, Waits, Unleased
  <2>3. state' = state
    BY <1>4 DEF LeaseSelect
  <2>4. owner' = owner
    BY <1>4 DEF LeaseSelect
  <2> QED
    BY <2>2, <2>3, <2>4, SettleStep
<1>5. ASSUME NEW w \in Workers, LeaseNone(w) PROVE Ledger!Next
  <2>1. /\ \A x \in Workers : x # w => wk'[x] = wk[x]
        /\ wk'[w].pc = (IF wk[w].retry THEN "close" ELSE "reclaim")
        /\ wk'[w].sid = wk[w].sid
    BY <1>5 DEF IInv, TypeOK, LeaseNone, Goto, Jobs
  <2>2. \A u \in Sessions : Waits(u)' => Waits(u)
    BY <1>5, <2>1 DEF LeaseNone, Waits, Unleased
  <2>3. state' = state
    BY <1>5 DEF LeaseNone, rows
  <2>4. owner' = owner
    BY <1>5 DEF LeaseNone, rows
  <2> QED
    BY <2>2, <2>3, <2>4, SettleStep
<1>6. ASSUME NEW w \in Workers, LeaseCommit(w) PROVE Ledger!Next
  BY <1>6, CommitLeases
<1>7. ASSUME NEW w \in Workers, NEW v \in Sessions, ReclaimPick(w, v)
      PROVE Ledger!Next
  <2>1. /\ \A x \in Workers : x # w => wk'[x] = wk[x]
        /\ wk'[w].pc = "vclose"
        /\ wk'[w].sid = wk[w].sid
    BY <1>7 DEF IInv, TypeOK, ReclaimPick, Jobs
  <2>2. \A u \in Sessions : Waits(u)' => Waits(u)
    BY <1>7, <2>1 DEF ReclaimPick, Waits, Unleased
  <2>3. state' = state
    BY <1>7 DEF ReclaimPick, rows
  <2>4. owner' = owner
    BY <1>7 DEF ReclaimPick, rows
  <2> QED
    BY <2>2, <2>3, <2>4, SettleStep
<1>8. ASSUME NEW w \in Workers, ReclaimNone(w) PROVE Ledger!Next
  <2>1. /\ \A x \in Workers : x # w => wk'[x] = wk[x]
        /\ wk'[w].pc = "close"
        /\ wk'[w].sid = wk[w].sid
    BY <1>8 DEF IInv, TypeOK, ReclaimNone, Goto, Jobs
  <2>2. \A u \in Sessions : Waits(u)' => Waits(u)
    BY <1>8, <2>1 DEF ReclaimNone, Waits, Unleased
  <2>3. state' = state
    BY <1>8 DEF ReclaimNone, rows
  <2>4. owner' = owner
    BY <1>8 DEF ReclaimNone, rows
  <2> QED
    BY <2>2, <2>3, <2>4, SettleStep
<1>9. ASSUME NEW w \in Workers, ReclaimClose(w) PROVE Ledger!Next
  <2>1. /\ \A x \in Workers : x # w => wk'[x] = wk[x]
        /\ wk'[w].pc = (IF wk[w].bot = None THEN "close" ELSE "vrelease")
        /\ wk'[w].sid = wk[w].sid
    BY <1>9 DEF IInv, TypeOK, ReclaimClose, SetState, Jobs
  <2>2. \A u \in Sessions : Waits(u)' => Waits(u)
    BY <1>9, <2>1 DEF ReclaimClose, Waits, Unleased
  <2>3. \A u \in Sessions : (state'[u] = "absent") = (state[u] = "absent")
    BY <1>9 DEF IInv, TypeOK, ReclaimClose, SetState, VictimExists
  <2>4. owner' = owner
    BY <1>9 DEF ReclaimClose
  <2> QED
    BY <2>2, <2>3, <2>4, SettleStep
<1>10. ASSUME NEW w \in Workers, ReclaimRelease(w) PROVE Ledger!Next
  <2>1. /\ \A x \in Workers : x # w => wk'[x] = wk[x]
        /\ wk'[w].pc = "lease"
        /\ wk'[w].sid = wk[w].sid
    BY <1>10 DEF IInv, TypeOK, ReclaimRelease, Disown, Jobs
  <2>2. \A u \in Sessions : Waits(u)' = Waits(u)
    BY <1>10, <2>1 DEF ReclaimRelease, Waits, Unleased
  <2>3. state' = state
    BY <1>10 DEF ReclaimRelease
  <2> DEFINE B == {wk[w].bot} \cap Bots
  <2>4. owner' = [c \in Bots |-> IF c \in B THEN None ELSE owner[c]]
    BY <1>10 DEF IInv, TypeOK, ReclaimRelease, Disown
  <2> QED
    BY <2>2, <2>3, <2>4, ReleaseStep
<1>11. ASSUME NEW w \in Workers, BindBot(w) PROVE Ledger!Next
  <2>1. /\ \A x \in Workers : x # w => wk'[x] = wk[x]
        /\ wk'[w].pc = "mark_live"
        /\ wk'[w].sid = wk[w].sid
    BY <1>11 DEF IInv, TypeOK, BindBot, Goto, Jobs
  <2>2. \A u \in Sessions : Waits(u)' => Waits(u)
    BY <1>11, <2>1 DEF BindBot, Waits, Unleased
  <2>3. state' = state
    BY <1>11 DEF BindBot
  <2>4. owner' = owner
    BY <1>11 DEF BindBot
  <2> QED
    BY <2>2, <2>3, <2>4, SettleStep
<1>12. ASSUME NEW w \in Workers, MarkLive(w) PROVE Ledger!Next
  <2>1. /\ \A x \in Workers : x # w => wk'[x] = wk[x]
        /\ wk'[w].pc = "idle"
        /\ wk'[w].sid = None
    BY <1>12 DEF IInv, TypeOK, MarkLive, SetState, Parked, Jobs
  <2>2. \A u \in Sessions : Waits(u)' => Waits(u)
    BY <1>12, <2>1 DEF MarkLive, Waits, Unleased
  <2>3. \A u \in Sessions : (state'[u] = "absent") = (state[u] = "absent")
    BY <1>12 DEF IInv, TypeOK, MarkLive, SetState, Parked, RevivesBound,
       RowsExist
  <2>4. owner' = owner
    BY <1>12 DEF MarkLive
  <2> QED
    BY <2>2, <2>3, <2>4, SettleStep
<1>13. ASSUME NEW w \in Workers, BirthFails(w) PROVE Ledger!Next
  <2>1. /\ \A x \in Workers : x # w => wk'[x] = wk[x]
        /\ wk'[w].pc = "release"
        /\ wk'[w].sid = wk[w].sid
    BY <1>13 DEF IInv, TypeOK, BirthFails, Goto, Jobs
  <2>2. \A u \in Sessions : Waits(u)' => Waits(u)
    BY <1>13, <2>1 DEF BirthFails, Waits, Unleased
  <2>3. state' = state
    BY <1>13 DEF BirthFails, rows
  <2>4. owner' = owner
    BY <1>13 DEF BirthFails, rows
  <2> QED
    BY <2>2, <2>3, <2>4, SettleStep
<1>14. ASSUME NEW w \in Workers, NEW s \in Sessions, CloseResolve(w, s)
       PROVE Ledger!Next
  <2>1. /\ \A x \in Workers : x # w => wk'[x] = wk[x]
        /\ wk'[w].pc = (IF botOf[s] = None THEN "close" ELSE "release")
        /\ wk'[w].sid = s
    BY <1>14 DEF IInv, TypeOK, CloseResolve, Parked, Open, Jobs
  <2>2. \A u \in Sessions : Waits(u)' => Waits(u)
    BY <1>14, <2>1 DEF CloseResolve, Waits, Unleased
  <2>3. state' = state
    BY <1>14 DEF CloseResolve, rows
  <2>4. owner' = owner
    BY <1>14 DEF CloseResolve, rows
  <2> QED
    BY <2>2, <2>3, <2>4, SettleStep
<1>15. ASSUME NEW w \in Workers, ReleaseBot(w) PROVE Ledger!Next
  <2>1. /\ \A x \in Workers : x # w => wk'[x] = wk[x]
        /\ wk'[w].pc = "close"
        /\ wk'[w].sid = wk[w].sid
    BY <1>15 DEF IInv, TypeOK, ReleaseBot, Disown, Goto, Jobs
  <2>2. \A u \in Sessions : Waits(u)' = Waits(u)
    BY <1>15, <2>1 DEF ReleaseBot, Waits, Unleased
  <2>3. state' = state
    BY <1>15 DEF ReleaseBot
  <2> DEFINE B == {wk[w].bot} \cap Bots
  <2>4. owner' = [c \in Bots |-> IF c \in B THEN None ELSE owner[c]]
    BY <1>15 DEF IInv, TypeOK, ReleaseBot, Disown, Goto
  <2> QED
    BY <2>2, <2>3, <2>4, ReleaseStep
<1>16. ASSUME NEW w \in Workers, CloseSession(w) PROVE Ledger!Next
  <2>1. /\ \A x \in Workers : x # w => wk'[x] = wk[x]
        /\ wk'[w].pc = "idle"
        /\ wk'[w].sid = None
    BY <1>16 DEF IInv, TypeOK, CloseSession, SetState, Parked, Jobs
  <2>2. \A u \in Sessions : Waits(u)' => Waits(u)
    BY <1>16, <2>1 DEF CloseSession, Waits, Unleased
  <2>3. \A u \in Sessions : (state'[u] = "absent") = (state[u] = "absent")
    BY <1>16 DEF IInv, TypeOK, CloseSession, SetState, Parked, SidExists
  <2>4. owner' = owner
    BY <1>16 DEF CloseSession
  <2> QED
    BY <2>2, <2>3, <2>4, SettleStep
<1>17. ASSUME NEW w \in Workers, BreaksOff(w) PROVE Ledger!Next
  <2>1. /\ \A x \in Workers : x # w => wk'[x] = wk[x]
        /\ wk'[w].pc = "idle"
        /\ wk'[w].sid = None
    BY <1>17 DEF IInv, TypeOK, BreaksOff, TurnTimeout, StoreRaises, CutOff,
       Parked, Jobs
  <2>2. \A u \in Sessions : Waits(u)' => Waits(u)
    BY <1>17, <2>1 DEF BreaksOff, TurnTimeout, StoreRaises, CutOff, Waits,
       Unleased
  <2>3. state' = state
    BY <1>17 DEF BreaksOff, TurnTimeout, StoreRaises, CutOff
  <2>4. owner' = owner
    BY <1>17 DEF BreaksOff, TurnTimeout, StoreRaises, CutOff
  <2> QED
    BY <2>2, <2>3, <2>4, SettleStep
<1>18. ASSUME NEW h \in Hooks, NEW b \in Bots, NEW t \in Topics,
              HookResolve(h, b, t)
       PROVE Ledger!Next
  <2>1. \A u \in Sessions : Waits(u)' = Waits(u)
    BY <1>18 DEF HookResolve, Waits, rows
  <2>2. state' = state
    BY <1>18 DEF HookResolve, rows
  <2>3. owner' = owner
    BY <1>18 DEF HookResolve, rows
  <2> QED
    BY <2>1, <2>2, <2>3, SettleStep
<1>19. ASSUME NEW h \in Hooks, HookReopen(h) PROVE Ledger!Next
  <2>1. \A u \in Sessions : Waits(u)' = Waits(u)
    BY <1>19 DEF HookReopen, Waits
  <2>2. \A u \in Sessions : (state'[u] = "absent") = (state[u] = "absent")
    BY <1>19 DEF IInv, TypeOK, HookReopen, SetState, RevivesBound, RowsExist
  <2>3. owner' = owner
    BY <1>19 DEF HookReopen
  <2> QED
    BY <2>1, <2>2, <2>3, SettleStep
<1>20. ASSUME NEW h \in Hooks, HookReturn(h) PROVE Ledger!Next
  <2>1. \A u \in Sessions : Waits(u)' = Waits(u)
    BY <1>20 DEF HookReturn, Waits, rows
  <2>2. state' = state
    BY <1>20 DEF HookReturn, rows
  <2>3. owner' = owner
    BY <1>20 DEF HookReturn, rows
  <2> QED
    BY <2>1, <2>2, <2>3, SettleStep
<1>21. ASSUME NEW S \in SUBSET Sessions, ReaperScan(S) PROVE Ledger!Next
  <2>1. \A u \in Sessions : Waits(u)' = Waits(u)
    BY <1>21 DEF ReaperScan, Waits, rows
  <2>2. state' = state
    BY <1>21 DEF ReaperScan, rows
  <2>3. owner' = owner
    BY <1>21 DEF ReaperScan, rows
  <2> QED
    BY <2>1, <2>2, <2>3, SettleStep
<1>22. ASSUME NEW s \in Sessions, ReaperMark(s) PROVE Ledger!Next
  <2>1. \A u \in Sessions : Waits(u)' = Waits(u)
    BY <1>22 DEF ReaperMark, Waits
  <2>2. \A u \in Sessions : (state'[u] = "absent") = (state[u] = "absent")
    BY <1>22 DEF IInv, TypeOK, ReaperMark, SetState, RevivesBound, RowsExist
  <2>3. owner' = owner
    BY <1>22 DEF ReaperMark
  <2> QED
    BY <2>1, <2>2, <2>3, SettleStep
<1>23. ASSUME NEW s \in Sessions, ReaperSkip(s) PROVE Ledger!Next
  <2>1. \A u \in Sessions : Waits(u)' = Waits(u)
    BY <1>23 DEF ReaperSkip, Waits, rows
  <2>2. state' = state
    BY <1>23 DEF ReaperSkip, rows
  <2>3. owner' = owner
    BY <1>23 DEF ReaperSkip, rows
  <2> QED
    BY <2>1, <2>2, <2>3, SettleStep
<1>24. ASSUME Crash PROVE Ledger!Next
  <2>1. \A u \in Sessions : Waits(u)' => Waits(u)
    BY <1>24 DEF Crash, Parked, Waits, Unleased
  <2>2. state' = state
    BY <1>24 DEF Crash
  <2>3. owner' = owner
    BY <1>24 DEF Crash
  <2> QED
    BY <2>1, <2>2, <2>3, SettleStep
<1>25. ASSUME RecoverListBirths PROVE Ledger!Next
  <2>1. \A u \in Sessions : Waits(u)' = Waits(u)
    BY <1>25 DEF RecoverListBirths, Waits, rows, procs
  <2>2. state' = state
    BY <1>25 DEF RecoverListBirths, rows
  <2>3. owner' = owner
    BY <1>25 DEF RecoverListBirths, rows
  <2> QED
    BY <2>1, <2>2, <2>3, SettleStep
<1>26. ASSUME NEW s \in Sessions, RecoverRelease(s) PROVE Ledger!Next
  <2>1. \A u \in Sessions : Waits(u)' = Waits(u)
    BY <1>26 DEF RecoverRelease, Waits, procs
  <2>2. state' = state
    BY <1>26 DEF RecoverRelease
  <2> DEFINE B == {b \in Bots : owner[b] = s}
  <2>3. owner' = [c \in Bots |-> IF c \in B THEN None ELSE owner[c]]
    BY <1>26 DEF IInv, TypeOK, RecoverRelease
  <2> QED
    BY <2>1, <2>2, <2>3, ReleaseStep
<1>27. ASSUME NEW s \in Sessions, RecoverClose(s) PROVE Ledger!Next
  <2>1. \A u \in Sessions : Waits(u)' = Waits(u)
    BY <1>27 DEF RecoverClose, Waits, procs
  <2>2. \A u \in Sessions : (state'[u] = "absent") = (state[u] = "absent")
    BY <1>27 DEF IInv, TypeOK, RecoverClose, SetState, RowsExist
  <2>3. owner' = owner
    BY <1>27 DEF RecoverClose
  <2> QED
    BY <2>1, <2>2, <2>3, SettleStep
<1>28. ASSUME RecoverListLeases PROVE Ledger!Next
  <2>1. \A u \in Sessions : Waits(u)' = Waits(u)
    BY <1>28 DEF RecoverListLeases, Waits, rows, procs
  <2>2. state' = state
    BY <1>28 DEF RecoverListLeases, rows
  <2>3. owner' = owner
    BY <1>28 DEF RecoverListLeases, rows
  <2> QED
    BY <2>1, <2>2, <2>3, SettleStep
<1>29. ASSUME NEW b \in Bots, RecoverLease(b) PROVE Ledger!Next
  <2>1. \A u \in Sessions : Waits(u)' = Waits(u)
    BY <1>29 DEF RecoverLease, Waits, procs
  <2>2. state' = state
    BY <1>29 DEF RecoverLease
  <2> DEFINE B == IF Orphan(b) THEN {b} ELSE {}
  <2>3. owner' = [c \in Bots |-> IF c \in B THEN None ELSE owner[c]]
    BY <1>29 DEF IInv, TypeOK, RecoverLease
  <2> QED
    BY <2>1, <2>2, <2>3, ReleaseStep
<1>30. ASSUME RecoverDone PROVE Ledger!Next
  <2>1. \A u \in Sessions : Waits(u)' = Waits(u)
    BY <1>30 DEF RecoverDone, Waits, rows, procs
  <2>2. state' = state
    BY <1>30 DEF RecoverDone, rows
  <2>3. owner' = owner
    BY <1>30 DEF RecoverDone, rows
  <2> QED
    BY <2>1, <2>2, <2>3, SettleStep
<1>31. ASSUME RecoverFails PROVE Ledger!Next
  <2>1. \A u \in Sessions : Waits(u)' = Waits(u)
    BY <1>31 DEF RecoverFails, Waits, rows, procs
  <2>2. state' = state
    BY <1>31 DEF RecoverFails, rows
  <2>3. owner' = owner
    BY <1>31 DEF RecoverFails, rows
  <2> QED
    BY <2>1, <2>2, <2>3, SettleStep
<1> QED
  BY <1>1, <1>2, <1>3, <1>4, <1>5, <1>6, <1>7, <1>8, <1>9, <1>10, <1>11,
     <1>12, <1>13, <1>14, <1>15, <1>16, <1>17, <1>18, <1>19, <1>20, <1>21,
     <1>22, <1>23, <1>24, <1>25, <1>26, <1>27, <1>28, <1>29, <1>30, <1>31
     DEF Next, WorkerStep, WorkerTurn, HookStep, RecoverStep

-----------------------------------------------------------------------------

\* An empty database satisfies the invariant.
LEMMA Initial == Init => IInv
<1> USE DistinctNone, CrashBound
<1>1. ASSUME Init PROVE TypeOK
  BY <1>1 DEF Init, TypeOK, Jobs, Requests, Parked, NoRequest, WorkerPcs,
     SessionStates
<1> QED
  BY <1>1 DEF Init, IInv, LiveIsBound, LeasePointsBack, SidExists,
     VictimExists,
              OwnBirth, UnleasedOwnsNothing, LockHeld, BindsItsLease,
              RevivesBound, RowsExist, OneBotPerSession, InBirth, Unleased,
              Parked, NoRequest

\* Every step keeps it.
LEMMA Inductive == IInv /\ [Next]_vars => IInv'
<1> SUFFICES ASSUME IInv, [Next]_vars PROVE IInv'
  OBVIOUS
<1>1. CASE Next
  BY <1>1, SeedBotKeeps, SpinUpCheckKeeps, CreateSessionKeeps,
     LeaseSelectKeeps, LeaseNoneKeeps, LeaseCommitKeeps, ReclaimPickKeeps,
     ReclaimNoneKeeps, ReclaimCloseKeeps, ReclaimReleaseKeeps, BindBotKeeps,
     MarkLiveKeeps, BirthFailsKeeps, CloseResolveKeeps, ReleaseBotKeeps,
     CloseSessionKeeps, BreaksOffKeeps, HookResolveKeeps, HookReopenKeeps,
     HookReturnKeeps, ReaperScanKeeps, ReaperMarkKeeps, ReaperSkipKeeps,
     CrashKeeps, RecoverListBirthsKeeps, RecoverReleaseKeeps,
     RecoverCloseKeeps, RecoverListLeasesKeeps, RecoverLeaseKeeps,
     RecoverDoneKeeps, RecoverFailsKeeps DEF Next, WorkerStep, WorkerTurn,
     HookStep, RecoverStep
<1>2. CASE UNCHANGED vars
  BY <1>2 DEF vars, rows, procs, system, IInv, TypeOK, LiveIsBound, 
              LeasePointsBack, SidExists, VictimExists, OwnBirth,
              UnleasedOwnsNothing, LockHeld, BindsItsLease, RevivesBound,
              RowsExist, OneBotPerSession
<1> QED
  BY <1>1, <1>2

\* So it always holds.
LEMMA Invariance == Spec => []IInv
<1> QED
  BY Initial, Inductive, PTL DEF Spec

\* The rows and the tasks stay within their types.
THEOREM TypeCorrect == Spec => []TypeOK
<1>1. IInv => TypeOK
  BY DEF IInv
<1> QED
  BY <1>1, Invariance, PTL

\* No session without a bot is ever live or dormant.
THEOREM LiveSessionsAreBound == Spec => []LiveIsBound
<1>1. IInv => LiveIsBound
  BY DEF IInv
<1> QED
  BY <1>1, Invariance, PTL

\* A lease and its session's binding never name different bots.
THEOREM LeasesPointBack == Spec => []LeasePointsBack
<1>1. IInv => LeasePointsBack
  BY DEF IInv
<1> QED
  BY <1>1, Invariance, PTL

\* No interleaving of leases, releases and recoveries gives a session two bots.
THEOREM SessionsHoldOneBot == Spec => []OneBotPerSession
<1>1. IInv => OneBotPerSession
  BY DEF IInv
<1> QED
  BY <1>1, Invariance, PTL

\* The stores, their callers and the recovery implement the ledger.
THEOREM LedgerImplemented == Spec => ImplementsLedger
<1>1. Init => Ledger!Init
  BY DEF Init, Ledger!Init, Life
<1>2. IInv /\ [Next]_vars => [Ledger!Next]_Ledger!vars
  <2> SUFFICES ASSUME IInv, [Next]_vars PROVE [Ledger!Next]_Ledger!vars
    OBVIOUS
  <2>1. CASE Next
    BY <2>1, LedgerStep
  <2>2. CASE UNCHANGED vars
    BY <2>2 DEF vars, rows, procs, Ledger!vars, Life, Waits
  <2> QED
    BY <2>1, <2>2
<1> QED
  BY <1>1, <1>2, Invariance, PTL DEF Spec, ImplementsLedger, Ledger!Spec

-----------------------------------------------------------------------------
(* The startup recovery.                                                   *)

\* Before the recovery is over no task of the process runs.
Quiet ==
    ~Up => /\ \A w \in Workers : wk[w] = Parked
           /\ \A h \in Hooks : hook[h] = NoRequest
           /\ idle = {}

\* Every row of a session was written for a topic.
TopicsKnown ==
    /\ \A w \in Workers : wk[w].pc = "create" => wk[w].topic \in Topics
    /\ \A s \in Sessions : state[s] # "absent" => topic[s] \in Topics

\* The births still to close, then the leases still to look at, are on the
\* recovery's list: what is off it is consistent.
Recovering ==
    /\ boot = "births" => InState("provisioning") \subseteq todo
    /\ boot = "leases" => /\ InState("provisioning") = {}
                          /\ \A b \in Leased \ todo : ~Orphan(b)

RInv == IInv /\ Quiet /\ TopicsKnown /\ Recovering

\* What changes a worker is that worker's step, or a crash.
LEMMA OthersStay ==
    ASSUME TypeOK, NEW w \in Workers, WorkerStep(w) \/ WorkerTurn(w)
    PROVE  \A x \in Workers : x # w => wk'[x] = wk[x]
BY DEF TypeOK, WorkerStep, WorkerTurn, CreateSession, LeaseSelect, LeaseNone,
   LeaseCommit, ReclaimPick, ReclaimNone, ReclaimClose, ReclaimRelease,
   BindBot, MarkLive, BirthFails, CloseResolve, ReleaseBot, CloseSession,
   BreaksOff, TurnTimeout, StoreRaises, CutOff, SpinUpCheck, Goto

\* Where a worker's step takes it, and which session it is about then.
LEMMA WorkerMoves ==
    ASSUME TypeOK, NEW w \in Workers, WorkerStep(w) \/ WorkerTurn(w)
    PROVE  \/ /\ \E t \in Topics : SpinUpCheck(w, t) /\ wk'[w].topic = t
              /\ wk[w].pc = "idle"
              /\ wk'[w].pc = "create"
              /\ wk'[w].sid = None
           \/ /\ \E s \in Sessions : CreateSession(w, s) /\ wk'[w].sid = s
              /\ wk[w].pc = "create"
              /\ wk'[w].pc = "lease"
           \/ /\ \E s \in Sessions : CloseResolve(w, s) /\ wk'[w].sid = s
              /\ wk[w].pc = "idle"
              /\ wk'[w].pc \in {"release", "close"}
           \/ /\ wk[w].pc \notin {"idle", "create"}
              /\ wk'[w].pc \notin {"idle", "create"}
              /\ wk'[w].pc \in InBirth => wk[w].pc \in InBirth
              /\ wk'[w].sid = wk[w].sid
           \/ /\ MarkLive(w) \/ CloseSession(w) \/ BreaksOff(w)
              /\ wk'[w].pc = "idle"
              /\ wk'[w].sid = None
<1> USE DEF TypeOK
<1>1. ASSUME NEW s \in Sessions, CreateSession(w, s)
      PROVE  wk'[w].pc = "lease" /\ wk'[w].sid = s /\ wk[w].pc = "create"
  BY <1>1 DEF CreateSession, Parked
<1>2. ASSUME NEW t \in Topics, SpinUpCheck(w, t)
      PROVE  /\ wk[w].pc = "idle"
             /\ wk'[w].pc = "create"
             /\ wk'[w].sid = None
             /\ wk'[w].topic = t
  BY <1>2 DEF SpinUpCheck, Parked
<1>3. ASSUME NEW s \in Sessions, CloseResolve(w, s)
      PROVE  /\ wk[w].pc = "idle"
             /\ wk'[w].pc \in {"release", "close"}
             /\ wk'[w].sid = s
  BY <1>3 DEF CloseResolve, Parked
<1>4. ASSUME MarkLive(w) \/ CloseSession(w) \/ BreaksOff(w)
      PROVE  wk'[w].pc = "idle" /\ wk'[w].sid = None
  BY <1>4 DEF MarkLive, CloseSession, BreaksOff, TurnTimeout, StoreRaises,
     CutOff, Parked
<1>5. ASSUME NEW b \in Bots, LeaseSelect(w, b)
      PROVE  /\ wk[w].pc = "lease"
             /\ wk'[w].pc = "commit"
             /\ wk'[w].sid = wk[w].sid
  BY <1>5 DEF LeaseSelect, Jobs
<1>6. ASSUME NEW v \in Sessions, ReclaimPick(w, v)
      PROVE  /\ wk[w].pc = "reclaim"
             /\ wk'[w].pc = "vclose"
             /\ wk'[w].sid = wk[w].sid
  BY <1>6 DEF ReclaimPick, Jobs
<1>7. ASSUME NEW pc \in WorkerPcs \ {"idle", "create"}, Goto(w, pc)
      PROVE  wk'[w].pc = pc /\ wk'[w].sid = wk[w].sid
  BY <1>7 DEF Goto, Jobs
<1>8. CASE LeaseNone(w)
  BY <1>7, <1>8 DEF LeaseNone, WorkerPcs, InBirth, Unleased
<1>9. CASE ReclaimClose(w)
  BY <1>9 DEF ReclaimClose, Jobs, InBirth, Unleased
<1>10. ASSUME ReclaimRelease(w)
       PROVE  /\ wk[w].pc = "vrelease"
              /\ wk'[w].pc = "lease"
              /\ wk'[w].sid = wk[w].sid
  BY <1>10 DEF ReclaimRelease, Jobs
<1>11. CASE LeaseCommit(w)
  BY <1>7, <1>11 DEF LeaseCommit, WorkerPcs, InBirth, Unleased
<1>12. CASE ReclaimNone(w) \/ BirthFails(w)
  BY <1>7, <1>12 DEF ReclaimNone, BirthFails, WorkerPcs, InBirth, Unleased
<1>13. CASE BindBot(w)
  BY <1>7, <1>13 DEF BindBot, WorkerPcs, InBirth, Unleased
<1>14. CASE ReleaseBot(w)
  BY <1>7, <1>14 DEF ReleaseBot, WorkerPcs, InBirth, Unleased
<1> QED
  BY <1>1, <1>2, <1>3, <1>4, <1>5, <1>6, <1>8, <1>9, <1>10, <1>11, <1>12,
     <1>13, <1>14 DEF WorkerStep, WorkerTurn, InBirth, Unleased

\* A process that is not up can only recover, give the recovery up or crash.
LEMMA QuietBoot ==
    ASSUME Quiet, ~Up, Next
    PROVE  RecoverStep \/ RecoverFails \/ Crash
<1>1. ASSUME NEW w \in Workers, WorkerStep(w) \/ WorkerTurn(w) PROVE FALSE
  <2>1. wk[w].pc = "idle"
    BY DEF Quiet, Parked
  <2> QED
    BY <1>1, <2>1 DEF WorkerStep, WorkerTurn, CreateSession, LeaseSelect,
       LeaseNone, LeaseCommit, ReclaimPick, ReclaimNone, ReclaimClose,
       ReclaimRelease, BindBot, MarkLive, BirthFails, CloseResolve,
       ReleaseBot, CloseSession, BreaksOff, TurnTimeout, StoreRaises, CutOff,
       SpinUpCheck
<1>2. ASSUME NEW h \in Hooks, HookStep(h) PROVE FALSE
  <2>1. hook[h].pc = "idle"
    BY DEF Quiet, NoRequest
  <2> QED
    BY <1>2, <2>1 DEF HookStep, HookReopen, HookReturn
<1> QED
  BY <1>1, <1>2 DEF Next, Quiet, SeedBot, HookResolve, ReaperScan, ReaperMark,
     ReaperSkip

\* Nothing but a crash takes a process down.
LEMMA UpStays ==
    ASSUME Up, Next, ~Crash
    PROVE  Up'
BY DEF Up, Next, SeedBot, WorkerStep, WorkerTurn, CreateSession, LeaseSelect,
   LeaseNone, LeaseCommit, ReclaimPick, ReclaimNone, ReclaimClose,
   ReclaimRelease, BindBot, MarkLive, BirthFails, CloseResolve, ReleaseBot,
   CloseSession, BreaksOff, TurnTimeout, StoreRaises, CutOff, SpinUpCheck,
   HookStep, HookReopen, HookReturn,
   HookResolve, ReaperScan, ReaperMark, ReaperSkip, RecoverStep,
   RecoverListBirths, RecoverRelease, RecoverClose, RecoverListLeases,
   RecoverLease, RecoverDone, RecoverFails, system

\* The recovery starts nothing before it is over.
LEMMA QuietKeeps ==
    ASSUME Quiet, [Next]_vars
    PROVE  Quiet'
<1>1. CASE Crash
  BY <1>1 DEF Crash, Quiet
<1>2. CASE Next /\ Up /\ ~Crash
  BY <1>2, UpStays DEF Quiet
<1>3. CASE RecoverStep \/ RecoverFails
  BY <1>3 DEF Quiet, Up, RecoverStep, RecoverListBirths, RecoverRelease,
     RecoverClose, RecoverListLeases, RecoverLease, RecoverDone, RecoverFails,
     procs, system
<1>4. CASE UNCHANGED vars
  BY <1>4 DEF Quiet, Up, vars, procs, system
<1> QED
  BY <1>1, <1>2, <1>3, <1>4, QuietBoot

\* Who writes a session's state, and what to.
LEMMA StateWriters ==
    ASSUME TypeOK, [Next]_vars, NEW s \in Sessions, state'[s] # state[s]
    PROVE  \/ /\ \E w \in Workers : CreateSession(w, s)
              /\ state[s] = "absent"
              /\ state'[s] = "provisioning"
           \/ /\ \E w \in Workers : MarkLive(w) /\ wk[w].sid = s
              /\ state'[s] = "live"
           \/ /\ \E w \in Workers :
                   \/ ReclaimClose(w) /\ wk[w].victim = s
                   \/ CloseSession(w) /\ wk[w].sid = s
              /\ state'[s] = "closed"
           \/ /\ \E h \in Hooks : HookReopen(h) /\ hook[h].sid = s
              /\ state'[s] = "live"
           \/ ReaperMark(s) /\ state'[s] = "dormant"
           \/ RecoverClose(s) /\ state'[s] = "closed"
<1> USE DEF TypeOK, SetState
<1>1. ASSUME NEW w \in Workers, WorkerStep(w) \/ WorkerTurn(w)
      PROVE  \/ /\ CreateSession(w, s)
                /\ state[s] = "absent"
                /\ state'[s] = "provisioning"
             \/ MarkLive(w) /\ wk[w].sid = s /\ state'[s] = "live"
             \/ /\ \/ ReclaimClose(w) /\ wk[w].victim = s
                   \/ CloseSession(w) /\ wk[w].sid = s
                /\ state'[s] = "closed"
  BY <1>1 DEF WorkerStep, WorkerTurn, CreateSession, LeaseSelect, LeaseNone,
     LeaseCommit, ReclaimPick, ReclaimNone, ReclaimClose, ReclaimRelease,
     BindBot, MarkLive, BirthFails, CloseResolve, ReleaseBot, CloseSession,
     BreaksOff, TurnTimeout, StoreRaises, CutOff, SpinUpCheck, rows
<1>2. ASSUME NEW h \in Hooks, HookReopen(h)
      PROVE  hook[h].sid = s /\ state'[s] = "live"
  BY <1>2 DEF HookReopen
<1>3. ASSUME NEW u \in Sessions, ReaperMark(u)
      PROVE  u = s /\ state'[s] = "dormant"
  BY <1>3 DEF ReaperMark
<1>4. ASSUME NEW u \in Sessions, RecoverClose(u)
      PROVE  u = s /\ state'[s] = "closed"
  BY <1>4 DEF RecoverClose
<1> QED
  BY <1>1, <1>2, <1>3, <1>4 DEF Next, SeedBot, HookStep, HookReturn,
     HookResolve, ReaperScan, ReaperSkip, RecoverStep, RecoverListBirths,
     RecoverRelease, RecoverListLeases, RecoverLease, RecoverDone,
     RecoverFails, Crash, rows, vars

\* Only an INSERT makes a row: every other write finds its row there.
LEMMA OnlyInserted ==
    ASSUME IInv, [Next]_vars, NEW s \in Sessions,
           state[s] = "absent", state'[s] # "absent"
    PROVE  \E w \in Workers : CreateSession(w, s)
BY DistinctNone, StateWriters DEF IInv, ReclaimClose, VictimExists, MarkLive,
   SidExists, CloseSession, HookReopen, RevivesBound, RowsExist, ReaperMark,
   RecoverClose

\* What moves a worker is its own step, or a crash.
LEMMA MovedWorker ==
    ASSUME TypeOK, [Next]_vars, NEW w \in Workers, wk'[w] # wk[w]
    PROVE  WorkerStep(w) \/ WorkerTurn(w) \/ Crash
<1>1. ASSUME NEW x \in Workers, WorkerStep(x) \/ WorkerTurn(x)
      PROVE  x = w
  BY <1>1, OthersStay
<1> QED
  BY <1>1 DEF Next, SeedBot, HookStep, HookReopen, HookReturn, HookResolve,
     ReaperScan, ReaperMark, ReaperSkip, RecoverStep, RecoverListBirths,
     RecoverRelease, RecoverClose, RecoverListLeases, RecoverLease,
     RecoverDone, RecoverFails, procs, vars

\* Nothing but an INSERT writes a topic.
LEMMA TopicWriters ==
    ASSUME [Next]_vars, topic' # topic
    PROVE  \E w \in Workers, s \in Sessions : CreateSession(w, s)
BY DEF Next, SeedBot, WorkerStep, WorkerTurn, LeaseSelect, LeaseNone,
   LeaseCommit, ReclaimPick, ReclaimNone, ReclaimClose, ReclaimRelease,
   BindBot, MarkLive, BirthFails, CloseResolve, ReleaseBot, CloseSession,
   BreaksOff, TurnTimeout, StoreRaises, CutOff, SpinUpCheck, HookStep,
   HookReopen, HookReturn, HookResolve,
   ReaperScan, ReaperMark, ReaperSkip, RecoverStep, RecoverListBirths,
   RecoverRelease, RecoverClose, RecoverListLeases, RecoverLease, RecoverDone,
   RecoverFails, Crash, rows, vars

\* An INSERT writes the topic the spin-up was called for.
LEMMA TopicsKeep ==
    ASSUME IInv, TopicsKnown, [Next]_vars
    PROVE  TopicsKnown'
<1> USE DistinctNone DEF IInv, TopicsKnown
<1>1. ASSUME NEW w \in Workers, wk'[w].pc = "create"
      PROVE  wk'[w].topic \in Topics
  BY <1>1, MovedWorker, WorkerMoves DEF Crash, Parked
<1>2. ASSUME NEW w \in Workers, NEW s \in Sessions, CreateSession(w, s)
      PROVE  \A u \in Sessions : state'[u] # "absent" => topic'[u] \in Topics
  BY <1>2 DEF TypeOK, CreateSession, SetState
<1>3. CASE \A w \in Workers, s \in Sessions : ~CreateSession(w, s)
  <2>1. topic' = topic
    BY <1>3, TopicWriters
  <2>2. \A s \in Sessions : state'[s] # "absent" => state[s] # "absent"
    BY <1>3, OnlyInserted
  <2> QED
    BY <1>1, <2>1, <2>2
<1> QED
  BY <1>1, <1>2, <1>3

\* A row leaves the recovery's list only once it is consistent, and nothing
\* spoils one that has left.
LEMMA RecoveringKeeps ==
    ASSUME IInv, Quiet, Recovering, [Next]_vars
    PROVE  Recovering'
<1> USE DEF Recovering
<1>1. CASE Up'
  BY <1>1 DEF Up
<1>2. CASE RecoverListBirths
  BY <1>2 DEF RecoverListBirths, rows, InState
<1>3. ASSUME NEW s \in Sessions, RecoverRelease(s) PROVE Recovering'
  BY <1>3 DEF RecoverRelease, system, InState
<1>4. ASSUME NEW s \in Sessions, RecoverClose(s) PROVE Recovering'
  BY <1>4 DEF IInv, TypeOK, RecoverClose, SetState, InState
<1>5. CASE RecoverListLeases
  BY <1>5 DEF RecoverListLeases, rows, InState, Leased
<1>6. ASSUME NEW b \in Bots, RecoverLease(b) PROVE Recovering'
  <2>1. /\ boot' = "leases" /\ boot = "leases"
        /\ state' = state /\ botOf' = botOf
        /\ todo' = todo \ {b}
    BY <1>6 DEF RecoverLease
  <2>2. InState("provisioning")' = {}
    BY <2>1 DEF InState
  <2>3. ASSUME NEW a \in Leased' \ todo' PROVE ~Orphan(a)'
    <3>1. a \in Bots /\ owner'[a] # None
      BY DEF Leased
    <3>2. owner'[a] = owner[a] /\ (a = b => ~Orphan(b))
      BY <1>6, <3>1 DEF IInv, TypeOK, RecoverLease
    <3>3. ~Orphan(a)
      BY <2>1, <3>1, <3>2 DEF Leased
    <3> QED
      BY <2>1, <3>2, <3>3 DEF Orphan
  <2> QED
    BY <2>1, <2>2, <2>3
<1>7. CASE Crash
  BY <1>7 DEF Crash
<1>8. CASE UNCHANGED vars
  BY <1>8 DEF vars, rows, system, InState, Leased, Orphan
<1> QED
  BY <1>1, <1>2, <1>3, <1>4, <1>5, <1>6, <1>7, <1>8, QuietBoot, UpStays
     DEF RecoverStep, RecoverDone, RecoverFails, Up

\* What the recovery's own argument needs always holds.
LEMMA RecoveryInvariance == Spec => []RInv
<1>1. Init => RInv
  BY Initial DEF Init, RInv, Quiet, TopicsKnown, Recovering, Up, Parked
<1>2. RInv /\ [Next]_vars => RInv'
  BY Inductive, QuietKeeps, TopicsKeep, RecoveringKeeps DEF RInv
<1> QED
  BY <1>1, <1>2, PTL DEF Spec

\* Whatever a crash cut in two, an earlier recovery included, a recovery that
\* runs to its end leaves nothing in birth and every lease an open session's
\* that points back at the bot.
THEOREM RecoveryRestoresConsistency == Spec => RecoveryRestores
<1>1. RInv /\ RecoverDone => Consistent'
  <2> SUFFICES ASSUME RInv, RecoverDone PROVE Consistent'
    OBVIOUS
  <2> USE DEF RInv, IInv
  <2>1. UNCHANGED <<owner, state, topic, botOf>>
    BY DEF RecoverDone, rows
  <2>2. InState("provisioning") = {}
    BY DEF RecoverDone, Recovering
  <2>3. ASSUME NEW b \in Leased
        PROVE  \E t \in Topics : \E s \in Open(t) : owner[b] = s /\ botOf[s] = b
    <3>1. b \in Bots /\ owner[b] \in Sessions
      BY DEF Leased, TypeOK
    <3>2. ~Orphan(b)
      BY <2>3 DEF RecoverDone, Recovering
    <3>3. /\ state[owner[b]] \notin {"absent", "closed"}
          /\ botOf[owner[b]] = b
      BY <3>2 DEF Orphan
    <3>4. topic[owner[b]] \in Topics
      BY <3>1, <3>3 DEF TopicsKnown
    <3>5. owner[b] \in Open(topic[owner[b]])
      BY <3>1, <3>3 DEF Open
    <3> QED
      BY <3>3, <3>4, <3>5
  <2> QED
    BY <2>1, <2>2, <2>3 DEF Consistent, InState, Leased, Open
<1>2. RInv /\ [Next]_vars => [RecoverDone => Consistent']_vars
  BY <1>1
<1> QED
  BY <1>2, RecoveryInvariance, PTL DEF Spec, RecoveryRestores

-----------------------------------------------------------------------------
(* Births.                                                                 *)

\* A worker between two tool calls, or about to INSERT, has no session yet.
NoSidYet == \A w \in Workers : wk[w].pc \in {"idle", "create"}
                                   => wk[w].sid = None

\* A worker that drops its session has it live or closed, or was cut off.
LEMMA DroppedSid ==
    ASSUME TypeOK, NoSidYet, [Next]_vars, NEW w \in Workers,
           wk[w].sid # None, wk'[w].sid # wk[w].sid
    PROVE  MarkLive(w) \/ CloseSession(w) \/ BreaksOff(w) \/ Crash
<1>1. wk[w].pc \notin {"idle", "create"}
  BY DEF NoSidYet
<1> QED
  BY <1>1, MovedWorker, WorkerMoves

\* A session is a worker's from its INSERT, or from its close, on.
LEMMA NoSidKeeps ==
    ASSUME TypeOK, NoSidYet, [Next]_vars
    PROVE  NoSidYet'
<1> SUFFICES ASSUME NEW w \in Workers, wk'[w].pc \in {"idle", "create"}
             PROVE  wk'[w].sid = None
  BY DEF NoSidYet
<1> QED
  BY MovedWorker, WorkerMoves DEF NoSidYet, Crash, Parked

\* Whoever has no row yet is about no session, in every state.
LEMMA NoSidHolds == Spec => []NoSidYet
<1>1. Init => NoSidYet
  BY DEF Init, NoSidYet, Parked
<1>2. RInv => TypeOK
  BY DEF RInv, IInv
<1> QED
  BY <1>1, <1>2, NoSidKeeps, RecoveryInvariance, PTL DEF Spec

\* Only an INSERT puts a session in birth.
LEMMA OnlyBorn ==
    ASSUME TypeOK, [Next]_vars, NEW s \in Sessions,
           state[s] # "provisioning", state'[s] = "provisioning"
    PROVE  \E w \in Workers : CreateSession(w, s)
BY StateWriters

\* A birth is left to nobody only by a cut-off turn or a failing recovery, for
\* any workers, closes of the same session, timeouts, database errors and
\* crashes (sessions.py:83-127, orphan_recovery.py:19).
THEOREM BirthsLeftByCutOffs == Spec => BirthsAreAttended
<1>1. ASSUME RInv, NoSidYet, [Next]_vars, NEW s \in Sessions,
             ~Abandoned(s), Abandoned(s)'
      PROVE  RecoverFails \/ CutOffAt(s)
  <2> USE <1>1, DistinctNone DEF RInv, IInv
  <2>1. Up' /\ state'[s] = "provisioning" /\ \A w \in Workers : wk'[w].sid # s
    BY DEF Abandoned, Up
  <2>2. CASE state[s] # "provisioning"
    <3>1. PICK w \in Workers : CreateSession(w, s)
      BY <2>1, <2>2, OnlyBorn
    <3> QED
      BY <2>1, <3>1 DEF TypeOK, CreateSession, Parked
  <2>3. CASE Up /\ state[s] = "provisioning"
    <3>1. PICK w \in Workers : wk[w].sid = s
      BY <2>3 DEF Abandoned
    <3>2. ~MarkLive(w) /\ ~CloseSession(w)
      BY <2>1, <3>1 DEF TypeOK, MarkLive, CloseSession, SetState
    <3>3. ~Crash
      BY <2>1 DEF Crash, Up
    <3>4. BreaksOff(w)
      BY <2>1, <3>1, <3>2, <3>3, DroppedSid
    <3> QED
      BY <3>1, <3>4 DEF CutOffAt
  <2>4. CASE ~Up /\ state[s] = "provisioning" /\ ~RecoverFails
    <3>1. Next /\ RecoverDone
      BY <2>1, <2>4, QuietBoot DEF Up, RecoverStep, RecoverListBirths,
         RecoverRelease, RecoverClose, RecoverListLeases, RecoverLease,
         Crash, system, vars
    <3> QED
      BY <2>1, <2>4, <3>1 DEF RecoverDone, Recovering, InState
  <2> QED
    BY <2>2, <2>3, <2>4
<1>2. RInv /\ NoSidYet /\ [Next]_vars =>
          [\A s \in Sessions : ~Abandoned(s) /\ Abandoned(s)' =>
              RecoverFails \/ CutOffAt(s)]_vars
  BY <1>1
<1> QED
  BY <1>2, RecoveryInvariance, NoSidHolds, PTL DEF Spec, BirthsAreAttended

\* Every session in birth has a turn at it (or a recovery to come).
BirthHasDriver ==
    Up => \A s \in InState("provisioning") :
              \E w \in Workers : wk[w].sid = s

\* Where no turn is cut off and the recovery never fails, that is so.
LEMMA BirthsHaveDrivers ==
    ASSUME ~TurnTimeouts, ~StoreErrors
    PROVE  Spec => []BirthHasDriver
<1>1. Init => NoSidYet /\ BirthHasDriver
  BY DEF Init, NoSidYet, BirthHasDriver, InState, Parked
<1>2. RInv /\ NoSidYet /\ BirthHasDriver /\ [Next]_vars
          => NoSidYet' /\ BirthHasDriver'
  <2> SUFFICES ASSUME RInv, NoSidYet, BirthHasDriver, [Next]_vars, Up',
                      NEW s \in Sessions, state'[s] = "provisioning"
               PROVE  \E w \in Workers : wk'[w].sid = s
    BY NoSidKeeps DEF RInv, IInv, BirthHasDriver, InState
  <2> USE DistinctNone DEF RInv, IInv
  <2>1. CASE state[s] # "provisioning"
    <3>1. PICK w \in Workers : CreateSession(w, s)
      BY <2>1, OnlyBorn
    <3> QED
      BY <3>1 DEF TypeOK, CreateSession, Parked
  <2>2. CASE Up /\ state[s] = "provisioning"
    <3>1. PICK w \in Workers : wk[w].sid = s
      BY <2>2 DEF BirthHasDriver, InState
    <3>2. ~MarkLive(w) /\ ~CloseSession(w)
      BY <3>1 DEF TypeOK, MarkLive, CloseSession, SetState
    <3>3. ~BreaksOff(w) /\ ~Crash
      BY DEF BreaksOff, TurnTimeout, StoreRaises, CutOff, Crash, Up
    <3> QED
      BY <3>1, <3>2, <3>3, DroppedSid
  <2>3. CASE ~Up /\ state[s] = "provisioning"
    <3>1. Next /\ RecoverDone
      BY <2>3, QuietBoot DEF Up, RecoverStep, RecoverListBirths,
         RecoverRelease, RecoverClose, RecoverListLeases, RecoverLease,
         RecoverFails, Crash, system, vars
    <3> QED
      BY <2>3, <3>1 DEF RecoverDone, Recovering, InState
  <2> QED
    BY <2>1, <2>2, <2>3
<1> QED
  BY <1>1, <1>2, RecoveryInvariance, PTL DEF Spec

-----------------------------------------------------------------------------
(* One worker, and sessions that never idle.                               *)

\* A session no reaper ever marks is never reopened, nor reclaimed.
NoneDormant ==
    /\ idle = {}
    /\ InState("dormant") = {}
    /\ \A h \in Hooks : hook[h].pc # "reopen"
    /\ \A w \in Workers : wk[w].pc # "vclose"

\* Without the reaper no session is ever dormant.
LEMMA NoneDormantKeeps ==
    ASSUME TypeOK, NoneDormant, ~Reaping, [Next]_vars
    PROVE  NoneDormant'
<1> USE DEF NoneDormant
<1>1. idle' = {}
  BY DEF Next, SeedBot, WorkerStep, WorkerTurn, CreateSession, LeaseSelect,
     LeaseNone, LeaseCommit, ReclaimPick, ReclaimNone, ReclaimClose,
     ReclaimRelease, BindBot, MarkLive, BirthFails, CloseResolve, ReleaseBot,
     CloseSession, BreaksOff, TurnTimeout, StoreRaises, CutOff, SpinUpCheck,
     HookStep, HookReopen, HookReturn,
     HookResolve, ReaperScan, ReaperMark, ReaperSkip, RecoverStep,
     RecoverListBirths, RecoverRelease, RecoverClose, RecoverListLeases,
     RecoverLease, RecoverDone, RecoverFails, Crash, procs, vars
<1>2. InState("dormant")' = {}
  BY StateWriters DEF InState, ReaperMark
<1>3. ASSUME NEW h \in Hooks PROVE hook'[h].pc # "reopen"
  <2>1. CASE hook' = hook
    BY <2>1
  <2>2. ASSUME NEW g \in Hooks, NEW b \in Bots, NEW t \in Topics,
               HookResolve(g, b, t)
        PROVE  hook'[h].pc # "reopen"
    BY <2>2 DEF TypeOK, HookResolve, InState
  <2>3. ASSUME NEW g \in Hooks, HookStep(g)
        PROVE  hook'[h].pc # "reopen"
    BY <2>3 DEF TypeOK, HookStep, HookReopen, HookReturn, NoRequest
  <2>4. CASE Crash
    BY <2>4 DEF Crash, NoRequest
  <2> QED
    BY <2>1, <2>2, <2>3, <2>4 DEF Next, SeedBot, WorkerStep, WorkerTurn,
       CreateSession, LeaseSelect, LeaseNone, LeaseCommit, ReclaimPick,
       ReclaimNone, ReclaimClose, ReclaimRelease, BindBot, MarkLive,
       BirthFails, CloseResolve, ReleaseBot, CloseSession, BreaksOff,
       TurnTimeout, StoreRaises, CutOff,
       SpinUpCheck, ReaperScan, ReaperMark, ReaperSkip, RecoverStep,
       RecoverListBirths, RecoverRelease, RecoverClose, RecoverListLeases,
       RecoverLease, RecoverDone, RecoverFails, procs, vars
<1>4. ASSUME NEW w \in Workers PROVE wk'[w].pc # "vclose"
  <2>1. CASE WorkerStep(w)
    <3>1. ASSUME NEW pc \in WorkerPcs \ {"vclose"}, Goto(w, pc)
          PROVE  wk'[w].pc # "vclose"
      BY <3>1 DEF TypeOK, Goto
    <3>2. ~(\E v \in Sessions : ReclaimPick(w, v)) /\ ~ReclaimClose(w)
      BY DEF ReclaimPick, InState, ReclaimClose
    <3>3. ASSUME NEW s \in Sessions, CreateSession(w, s)
          PROVE  wk'[w].pc # "vclose"
      BY <3>3 DEF TypeOK, CreateSession, Parked
    <3>4. ASSUME NEW b \in Bots, LeaseSelect(w, b)
          PROVE  wk'[w].pc # "vclose"
      BY <3>4 DEF TypeOK, LeaseSelect, Jobs
    <3>5. ASSUME ReclaimRelease(w) PROVE wk'[w].pc # "vclose"
      BY <3>5 DEF TypeOK, ReclaimRelease, Jobs
    <3>6. ASSUME MarkLive(w) \/ CloseSession(w) PROVE wk'[w].pc # "vclose"
      BY <3>6 DEF TypeOK, MarkLive, CloseSession, Parked
    <3> QED
      BY <2>1, <3>1, <3>2, <3>3, <3>4, <3>5, <3>6 DEF WorkerStep, LeaseNone,
         LeaseCommit, ReclaimNone, BindBot, ReleaseBot, WorkerPcs
  <2>2. CASE WorkerTurn(w)
    <3>1. ASSUME BirthFails(w) PROVE wk'[w].pc # "vclose"
      BY <3>1 DEF TypeOK, BirthFails, Goto
    <3>2. ASSUME NEW t \in Topics, SpinUpCheck(w, t)
          PROVE  wk'[w].pc # "vclose"
      BY <3>2 DEF TypeOK, SpinUpCheck, Parked
    <3>3. ASSUME NEW s \in Sessions, CloseResolve(w, s)
          PROVE  wk'[w].pc # "vclose"
      BY <3>3 DEF TypeOK, CloseResolve, Parked
    <3>4. ASSUME BreaksOff(w) PROVE wk'[w].pc # "vclose"
      BY <3>4 DEF TypeOK, BreaksOff, TurnTimeout, StoreRaises, CutOff, Parked
    <3> QED
      BY <2>2, <3>1, <3>2, <3>3, <3>4 DEF WorkerTurn
  <2>3. CASE Crash
    BY <2>3 DEF Crash, Parked
  <2>4. CASE wk'[w] = wk[w]
    BY <2>4
  <2> QED
    BY <2>1, <2>2, <2>3, <2>4, MovedWorker
<1> QED
  BY <1>1, <1>2, <1>3, <1>4

\* A spin-up's topic stays free until its INSERT and its session in birth
\* until it says otherwise; so each topic has one open session.
SoleTurn ==
    /\ \A w \in Workers : wk[w].pc = "create" => Open(wk[w].topic) = {}
    /\ \A w \in Workers : wk[w].pc \in InBirth =>
           state[wk[w].sid] = "provisioning"
    /\ \A t \in Topics : \A r, s \in Open(t) : r = s

OneWorkerInv == RInv /\ NoneDormant /\ SoleTurn

\* Nothing that takes turns alone writes to a session once it is closed.
LEMMA ClosedStays ==
    ASSUME OneWorkerInv, [Next]_vars, NEW s \in Sessions, state[s] = "closed"
    PROVE  state'[s] = "closed"
<1> USE DEF OneWorkerInv, RInv, IInv
<1>1. ASSUME NEW w \in Workers, MarkLive(w) PROVE wk[w].sid # s
  BY <1>1 DEF MarkLive, SoleTurn, InBirth
<1> QED
  BY <1>1, StateWriters DEF NoneDormant, HookReopen, ReaperMark

\* So only an INSERT opens a session.
LEMMA OpenGrows ==
    ASSUME OneWorkerInv, [Next]_vars, NEW t, NEW s \in Open(t)',
           s \notin Open(t)
    PROVE  \E w \in Workers :
               CreateSession(w, s) /\ wk[w].pc = "create" /\ wk[w].topic = t
<1> USE DEF OneWorkerInv, RInv, IInv
<1>1. s \in Sessions /\ topic'[s] = t /\ state'[s] \notin {"absent", "closed"}
  BY DEF Open
<1>2. state[s] # "closed"
  BY <1>1, ClosedStays
<1>3. ASSUME NEW w \in Workers, CreateSession(w, s)
      PROVE  wk[w].pc = "create" /\ topic'[s] = wk[w].topic
  BY <1>1, <1>3 DEF TypeOK, CreateSession
<1>4. CASE state[s] = "absent"
  BY <1>1, <1>3, <1>4, OnlyInserted
<1>5. CASE state[s] # "absent"
  <2>1. topic[s] # topic'[s]
    BY <1>1, <1>2, <1>5 DEF Open
  <2>2. ASSUME NEW w \in Workers, NEW u \in Sessions, CreateSession(w, u)
        PROVE  topic'[s] = topic[s]
    BY <1>5, <2>2 DEF TypeOK, CreateSession
  <2> QED
    BY <2>1, <2>2, TopicWriters
<1> QED
  BY <1>4, <1>5

\* With a single worker nobody comes between a spin-up's check and its INSERT,
\* nor between the INSERT and the end of the birth.
LEMMA SoleTurnKeeps ==
    ASSUME OneWorkerInv, [Next]_vars, \A v, w \in Workers : v = w
    PROVE  SoleTurn'
<1> USE DEF OneWorkerInv, RInv, IInv
<1>1. ASSUME NEW w \in Workers, wk'[w].pc = "create",
             NEW t, t = wk'[w].topic
      PROVE  Open(t)' = {}
  <2>1. CASE wk'[w] = wk[w]
    <3>1. ASSUME NEW v \in Workers, NEW s \in Sessions, CreateSession(v, s)
          PROVE  FALSE
      <4>1. v = w
        OBVIOUS
      <4> QED
        BY <1>1, <3>1, <4>1 DEF TypeOK, CreateSession, Parked
    <3>2. Open(t) = {}
      BY <1>1, <2>1 DEF SoleTurn
    <3>3. \A s \in Open(t)' : s \in Sessions
      BY DEF Open
    <3> QED
      BY <3>1, <3>2, <3>3, OpenGrows
  <2>2. ASSUME NEW u \in Topics, SpinUpCheck(w, u), wk'[w].topic = u
        PROVE  Open(t)' = {}
    BY <1>1, <2>2 DEF SpinUpCheck, rows, Open
  <2> QED
    BY <1>1, <2>1, <2>2, MovedWorker, WorkerMoves DEF Crash, Parked
<1>2. ASSUME NEW w \in Workers, wk'[w].pc \in InBirth
      PROVE  state'[wk'[w].sid] = "provisioning"
  <2>1. CASE wk[w].pc \in InBirth /\ wk'[w].sid = wk[w].sid
    <3>1. wk[w].sid \in Sessions /\ state[wk[w].sid] = "provisioning"
      BY <2>1 DEF TypeOK, Jobs, OwnBirth, SoleTurn
    <3>2. ~MarkLive(w) /\ ~CloseSession(w)
      BY <1>2 DEF TypeOK, MarkLive, CloseSession, Parked, InBirth, Unleased
    <3>3. ~RecoverClose(wk[w].sid)
      BY <2>1 DEF RecoverClose, Quiet, Up, Parked, InBirth, Unleased
    <3> QED
      BY <2>1, <3>1, <3>2, <3>3, StateWriters DEF NoneDormant, HookReopen,
         ReaperMark, ReclaimClose
  <2>2. ASSUME NEW s \in Sessions, CreateSession(w, s), wk'[w].sid = s
        PROVE  state'[wk'[w].sid] = "provisioning"
    BY <2>2 DEF TypeOK, CreateSession, SetState
  <2> QED
    BY <1>2, <2>1, <2>2, MovedWorker, WorkerMoves DEF Crash, Parked, InBirth,
       Unleased
<1>3. ASSUME NEW t \in Topics, NEW r \in Open(t)', NEW s \in Open(t)'
      PROVE  r = s
  <2>1. CASE r \in Open(t) /\ s \in Open(t)
    BY <2>1 DEF SoleTurn
  <2>2. CASE r \notin Open(t) \/ s \notin Open(t)
    <3>1. PICK w \in Workers : wk[w].pc = "create" /\ wk[w].topic = t
      BY <2>2, OpenGrows
    <3>2. Open(t) = {}
      BY <3>1 DEF SoleTurn
    <3>3. CreateSession(w, r) /\ CreateSession(w, s)
      BY <3>1, <3>2, OpenGrows
    <3>4. r \in Sessions /\ s \in Sessions
      BY DEF Open
    <3>5. ASSUME NEW u \in Sessions, CreateSession(w, u)
          PROVE  wk'[w].sid = u
      BY <3>5 DEF TypeOK, CreateSession, Parked
    <3> QED
      BY <3>3, <3>4, <3>5
  <2> QED
    BY <2>1, <2>2
<1> QED
  <2>1. \A w \in Workers : wk'[w].pc = "create" => Open(wk[w].topic)' = {}
    BY <1>1 DEF Open
  <2> QED
    BY <1>2, <1>3, <2>1 DEF SoleTurn

\* With one worker and no reaper at work both arguments hold.
LEMMA OneWorkerInvariance ==
    ASSUME \A v, w \in Workers : v = w, ~Reaping
    PROVE  Spec => []OneWorkerInv
<1>1. Init => NoneDormant /\ SoleTurn
  BY DEF Init, NoneDormant, SoleTurn, InState, Open, Parked, NoRequest,
     InBirth, Unleased
<1>2. RInv /\ NoneDormant /\ SoleTurn /\ [Next]_vars
          => NoneDormant' /\ SoleTurn'
  BY NoneDormantKeeps, SoleTurnKeeps DEF OneWorkerInv, RInv, IInv
<1>3. RInv /\ NoneDormant /\ SoleTurn => OneWorkerInv
  BY DEF OneWorkerInv
<1> QED
  BY <1>1, <1>2, <1>3, RecoveryInvariance, PTL DEF Spec

\* With one job worker and no session idle, resolve_for_topic never finds two
\* rows, whatever turns are cut off and whenever the process crashes.
THEOREM TopicsHaveOneSession ==
    ASSUME \A v, w \in Workers : v = w, ~Reaping
    PROVE  Spec => []OneOpenPerTopic
<1>1. OneWorkerInv => OneOpenPerTopic
  <2> SUFFICES ASSUME OneWorkerInv, NEW t \in Topics
               PROVE  Cardinality(Open(t)) <= 1
    BY DEF OneOpenPerTopic
  <2>1. CASE Open(t) = {}
    BY <2>1, FS_EmptySet
  <2>2. CASE Open(t) # {}
    <3>1. PICK s \in Open(t) : TRUE
      BY <2>2
    <3>2. Open(t) = {s}
      BY <3>1 DEF OneWorkerInv, SoleTurn
    <3> QED
      <4>1. Cardinality({s}) = 1
        BY FS_Singleton
      <4> QED
        BY <3>2, <4>1
  <2> QED
    BY <2>1, <2>2
<1> QED
  BY <1>1, OneWorkerInvariance, PTL

-----------------------------------------------------------------------------
(* What becomes of a closed session.                                        *)

\* Nobody takes up a closed session to write its state.
LEMMA LateShrinks ==
    ASSUME IInv, [Next]_vars, NEW s \in Sessions, state[s] = "closed"
    PROVE  /\ s \in idle' => s \in idle
           /\ \A h \in Hooks : hook'[h].pc = "reopen" /\ hook'[h].sid = s =>
                 hook[h].pc = "reopen" /\ hook[h].sid = s
           /\ \A w \in Workers : wk'[w].pc \in InBirth /\ wk'[w].sid = s =>
                 wk[w].pc \in InBirth /\ wk[w].sid = s
<1> USE DEF IInv
<1>1. ASSUME s \in idle' PROVE s \in idle
  <2>1. ASSUME NEW S \in SUBSET Sessions, ReaperScan(S) PROVE s \notin idle'
    BY <2>1 DEF ReaperScan, InState
  <2> QED
    BY <1>1, <2>1 DEF Next, SeedBot, WorkerStep, WorkerTurn, CreateSession,
       LeaseSelect, LeaseNone, LeaseCommit, ReclaimPick, ReclaimNone,
       ReclaimClose, ReclaimRelease, BindBot, MarkLive, BirthFails,
       CloseResolve, ReleaseBot, CloseSession, BreaksOff, TurnTimeout,
       StoreRaises, CutOff, SpinUpCheck, HookStep, HookReopen, HookReturn,
       HookResolve, ReaperMark, ReaperSkip, RecoverStep, RecoverListBirths,
       RecoverRelease, RecoverClose, RecoverListLeases, RecoverLease,
       RecoverDone, RecoverFails, Crash, procs, vars
<1>2. ASSUME NEW h \in Hooks, hook'[h].pc = "reopen", hook'[h].sid = s
      PROVE  hook[h].pc = "reopen" /\ hook[h].sid = s
  <2>1. ASSUME NEW g \in Hooks, NEW b \in Bots, NEW t \in Topics,
               HookResolve(g, b, t)
        PROVE  hook'[h] = hook[h]
    BY <1>2, <2>1 DEF TypeOK, HookResolve
  <2>2. ASSUME NEW g \in Hooks, HookStep(g) PROVE hook'[h] = hook[h]
    BY <1>2, <2>2 DEF TypeOK, HookStep, HookReopen, HookReturn, NoRequest,
       Requests
  <2>3. ~Crash
    BY <1>2 DEF Crash, NoRequest
  <2>4. hook'[h] = hook[h]
    BY <2>1, <2>2, <2>3 DEF Next, SeedBot, WorkerStep, WorkerTurn,
       CreateSession, LeaseSelect, LeaseNone, LeaseCommit, ReclaimPick,
       ReclaimNone, ReclaimClose, ReclaimRelease, BindBot, MarkLive,
       BirthFails, CloseResolve, ReleaseBot, CloseSession, BreaksOff,
       TurnTimeout, StoreRaises, CutOff, SpinUpCheck, ReaperScan, ReaperMark,
       ReaperSkip, RecoverStep, RecoverListBirths, RecoverRelease,
       RecoverClose, RecoverListLeases, RecoverLease, RecoverDone,
       RecoverFails, procs, vars
  <2> QED
    BY <1>2, <2>4
<1>3. ASSUME NEW w \in Workers, wk'[w].pc \in InBirth, wk'[w].sid = s
      PROVE  wk[w].pc \in InBirth /\ wk[w].sid = s
  <2>1. ~\E u \in Sessions : CreateSession(w, u) /\ wk'[w].sid = u
    BY <1>3 DEF CreateSession
  <2>2. CASE wk'[w] = wk[w]
    BY <1>3, <2>2
  <2>3. CASE WorkerStep(w) \/ WorkerTurn(w)
    BY <1>3, <2>1, <2>3, WorkerMoves DEF InBirth, Unleased
  <2>4. ~Crash
    BY <1>3 DEF Crash, Parked, InBirth, Unleased
  <2> QED
    BY <2>2, <2>3, <2>4, MovedWorker
<1> QED
  BY <1>1, <1>2, <1>3

\* A closed session comes back only by a task that had read it before, once
\* for each, with any workers, mentions, idling, timeouts and crashes.
THEOREM ClosedComesBackLate == Spec => ClosedRevivedLate
<1>1. ASSUME IInv, [Next]_vars, NEW s \in Sessions, state[s] = "closed"
      PROVE  Late(s)' \subseteq Late(s)
  BY <1>1, LateShrinks DEF Late
<1>2. ASSUME IInv, [Next]_vars, NEW s \in Sessions, state[s] = "closed",
             state'[s] # "closed"
      PROVE  Late(s)' # Late(s)
  <2> USE <1>2 DEF IInv
  <2>1. ASSUME NEW w \in Workers, MarkLive(w), wk[w].sid = s
        PROVE  <<"birth", w>> \in Late(s) /\ <<"birth", w>> \notin Late(s)'
    <3>1. wk[w].pc \in InBirth /\ wk'[w].pc \notin InBirth
      BY <2>1 DEF MarkLive, Parked, TypeOK, InBirth, Unleased
    <3> QED
      BY <2>1, <3>1 DEF Late
  <2>2. ASSUME NEW h \in Hooks, HookReopen(h), hook[h].sid = s
        PROVE  <<"reopen", h>> \in Late(s) /\ <<"reopen", h>> \notin Late(s)'
    <3>1. hook[h].pc = "reopen" /\ hook'[h].pc # "reopen"
      BY <2>2 DEF HookReopen, TypeOK, Requests
    <3> QED
      BY <2>2, <3>1 DEF Late
  <2>3. ASSUME ReaperMark(s)
        PROVE  <<"mark", s>> \in Late(s) /\ <<"mark", s>> \notin Late(s)'
    BY <2>3 DEF ReaperMark, Late
  <2> QED
    BY <2>1, <2>2, <2>3, StateWriters
<1>3. IInv /\ [Next]_vars =>
          [\A s \in Sessions : state[s] = "closed" =>
              /\ Late(s)' \subseteq Late(s)
              /\ state'[s] # "closed" => Late(s)' # Late(s)]_vars
  BY <1>1, <1>2
<1> QED
  BY <1>3, Invariance, PTL DEF Spec, ClosedRevivedLate

-----------------------------------------------------------------------------
(* The recovery and the sessions that take turns.                           *)

\* Who writes a bot's lease, and what to.
LEMMA OwnerWriters ==
    ASSUME TypeOK, [Next]_vars, NEW b \in Bots, owner'[b] # owner[b]
    PROVE  \/ \E w \in Workers :
                 LeaseCommit(w) /\ wk[w].bot = b /\ owner'[b] = wk[w].sid
           \/ /\ \E w \in Workers :
                    (ReclaimRelease(w) \/ ReleaseBot(w)) /\ wk[w].bot = b
              /\ owner'[b] = None
           \/ /\ \E s \in Sessions : RecoverRelease(s) /\ owner[b] = s
              /\ owner'[b] = None
           \/ RecoverLease(b) /\ Orphan(b) /\ owner'[b] = None
<1> USE DEF TypeOK
<1>1. ASSUME NEW w \in Workers, WorkerStep(w) \/ WorkerTurn(w)
      PROVE  \/ LeaseCommit(w) /\ wk[w].bot = b /\ owner'[b] = wk[w].sid
             \/ /\ (ReclaimRelease(w) \/ ReleaseBot(w)) /\ wk[w].bot = b
                /\ owner'[b] = None
  BY <1>1 DEF WorkerStep, WorkerTurn, CreateSession, LeaseSelect, LeaseNone,
     LeaseCommit, ReclaimPick, ReclaimNone, ReclaimClose, ReclaimRelease,
     BindBot, MarkLive, BirthFails, CloseResolve, ReleaseBot, CloseSession,
     BreaksOff, TurnTimeout, StoreRaises, CutOff, SpinUpCheck, Disown, rows
<1>2. ASSUME NEW s \in Sessions, RecoverRelease(s)
      PROVE  owner[b] = s /\ owner'[b] = None
  BY <1>2 DEF RecoverRelease
<1>3. ASSUME NEW a \in Bots, RecoverLease(a)
      PROVE  a = b /\ Orphan(b) /\ owner'[b] = None
  BY <1>3 DEF RecoverLease
<1> QED
  BY <1>1, <1>2, <1>3 DEF Next, SeedBot, HookStep, HookReopen, HookReturn,
     HookResolve, ReaperScan, ReaperMark, ReaperSkip, RecoverStep,
     RecoverListBirths, RecoverClose, RecoverListLeases, RecoverDone,
     RecoverFails, Crash, rows, vars

\* Only a spin-up's bind writes which bot a session has.
LEMMA BotOfWriters ==
    ASSUME TypeOK, [Next]_vars, NEW s \in Sessions, botOf'[s] # botOf[s]
    PROVE  \E w \in Workers : BindBot(w) /\ wk[w].sid = s
<1> USE DEF TypeOK
<1>1. ASSUME NEW w \in Workers, WorkerStep(w) \/ WorkerTurn(w)
      PROVE  BindBot(w) /\ wk[w].sid = s
  BY <1>1 DEF WorkerStep, WorkerTurn, CreateSession, LeaseSelect, LeaseNone,
     LeaseCommit, ReclaimPick, ReclaimNone, ReclaimClose, ReclaimRelease,
     BindBot, MarkLive, BirthFails, CloseResolve, ReleaseBot, CloseSession,
     BreaksOff, TurnTimeout, StoreRaises, CutOff, SpinUpCheck, rows
<1> QED
  BY <1>1 DEF Next, SeedBot, HookStep, HookReopen, HookReturn, HookResolve,
     ReaperScan, ReaperMark, ReaperSkip, RecoverStep, RecoverListBirths,
     RecoverRelease, RecoverClose, RecoverListLeases, RecoverLease,
     RecoverDone, RecoverFails, Crash, rows, vars

\* What the recovery closes is still in birth.
OnlyBirths == boot = "births" => todo \subseteq InState("provisioning")

\* A step keeps what is to be closed in birth.
LEMMA OnlyBirthsKeeps ==
    ASSUME TypeOK, Quiet, OnlyBirths, [Next]_vars
    PROVE  OnlyBirths'
<1> SUFFICES ASSUME boot' = "births" PROVE OnlyBirths'
  BY DEF OnlyBirths
<1>1. CASE RecoverListBirths
  BY <1>1 DEF RecoverListBirths, OnlyBirths, InState, rows
<1>2. ASSUME NEW s \in Sessions, RecoverRelease(s) PROVE OnlyBirths'
  BY <1>2 DEF RecoverRelease, OnlyBirths, InState, system
<1>3. ASSUME NEW s \in Sessions, RecoverClose(s) PROVE OnlyBirths'
  BY <1>3 DEF RecoverClose, OnlyBirths, InState, SetState, TypeOK
<1>4. CASE UNCHANGED vars
  BY <1>4 DEF vars, rows, system, OnlyBirths, InState
<1>5. CASE Next /\ Up
  <2>1. Up'
    BY <1>5, UpStays DEF Crash
  <2> QED
    BY <2>1 DEF Up
<1> QED
  BY <1>1, <1>2, <1>3, <1>4, <1>5, QuietBoot DEF RecoverStep,
     RecoverListLeases, RecoverLease, RecoverDone, RecoverFails, Crash

\* ... so it always is.
LEMMA OnlyBirthsHolds == Spec => []OnlyBirths
<1>1. Init => OnlyBirths
  BY DEF Init, OnlyBirths
<1>2. RInv => TypeOK /\ Quiet
  BY DEF RInv, IInv
<1> QED
  BY <1>1, <1>2, OnlyBirthsKeeps, RecoveryInvariance, PTL DEF Spec

\* A session that takes turns keeps its state, its bot and its lease.
Spared(s) ==
    /\ state'[s] = state[s]
    /\ botOf'[s] = botOf[s]
    /\ owner[botOf[s]] = s => owner'[botOf[s]] = s

\* The recovery, whether it ends, fails or is cut in two by another crash,
\* does no harm to a session that was live or dormant when the process died
\* (session_store.py, pool_store.py).
THEOREM RecoveryIsHarmless ==
    Spec => [][~Up => \A s \in InState("live") \cup InState("dormant") :
                          Spared(s)]_vars
<1>1. ASSUME RInv, OnlyBirths, [Next]_vars, ~Up,
             NEW s \in Sessions, state[s] \in {"live", "dormant"}
      PROVE  Spared(s)
  <2> USE <1>1 DEF RInv, IInv
  <2>1. Next => RecoverStep \/ RecoverFails \/ Crash
    BY QuietBoot
  <2>2. /\ \A w \in Workers : wk[w].pc = "idle"
        /\ \A h \in Hooks : hook[h].pc = "idle"
        /\ idle = {}
    BY DEF Quiet, Parked, NoRequest
  <2>3. ASSUME NEW w \in Workers
        PROVE  /\ ~MarkLive(w) /\ ~ReclaimClose(w) /\ ~CloseSession(w)
               /\ ~BindBot(w) /\ ~LeaseCommit(w) /\ ~ReclaimRelease(w)
               /\ ~ReleaseBot(w)
    BY <2>2 DEF MarkLive, ReclaimClose, CloseSession, BindBot, LeaseCommit,
       ReclaimRelease, ReleaseBot
  <2>4. ~RecoverClose(s) /\ ~RecoverRelease(s)
    BY DEF RecoverClose, RecoverRelease, OnlyBirths, InState
  <2>5. state'[s] = state[s]
    BY <2>2, <2>3, <2>4, StateWriters DEF HookReopen, ReaperMark
  <2>6. botOf'[s] = botOf[s]
    BY <2>3, BotOfWriters
  <2>7. ASSUME owner[botOf[s]] = s PROVE owner'[botOf[s]] = s
    <3>1. botOf[s] \in Bots
      BY DEF LiveIsBound, TypeOK
    <3>2. ~Orphan(botOf[s])
      BY <2>7, DistinctNone DEF Orphan
    <3> QED
      BY <2>3, <2>4, <2>7, <3>1, <3>2, OwnerWriters
  <2> QED
    BY <2>5, <2>6, <2>7 DEF Spared
<1>2. RInv /\ OnlyBirths /\ [Next]_vars
        => [~Up => \A s \in InState("live") \cup InState("dormant") :
                          Spared(s)]_vars
  BY <1>1 DEF InState
<1> QED
  BY <1>2, RecoveryInvariance, OnlyBirthsHolds, PTL DEF Spec

-----------------------------------------------------------------------------
(* Why a live session may be without its bot.                               *)

\* The session's bot is leased for it.
Holds(s) == botOf[s] # None /\ owner[botOf[s]] = s

\* A live session has its bot until a close has released it ...
LiveOwns ==
    \A s \in InState("live") :
        Holds(s) \/ \E w \in Workers : wk[w].pc = "close" /\ wk[w].sid = s

\* ... and who is about to bind a bot, to go live with it or to release it has
\* it leased for the session it is about.
TurnsOwn ==
    \A w \in Workers :
        /\ wk[w].pc # "vrelease"
        /\ wk[w].pc \in {"bind", "mark_live", "release"} =>
               wk[w].bot # None /\ owner[wk[w].bot] = wk[w].sid
        /\ wk[w].pc = "mark_live" => botOf[wk[w].sid] = wk[w].bot

\* No session that takes turns has lost its bot to a close still under way.
NotMidClose ==
    \A w \in Workers :
        wk[w].pc = "close" => state[wk[w].sid] \notin {"live", "dormant"}

\* What holds of one worker whose reaper is off.
LoneInv == OneWorkerInv /\ NoSidYet /\ OnlyBirths /\ BirthHasDriver

\* No step takes a live session's bot but a close of it.
LEMMA LiveOwnsKeeps ==
    ASSUME LoneInv, LiveOwns, TurnsOwn, [Next]_vars,
           Crash => NotMidClose, ~TurnTimeouts, ~StoreErrors
    PROVE  LiveOwns'
<1> USE DistinctNone DEF LoneInv, OneWorkerInv, RInv, IInv
<1> SUFFICES ASSUME NEW s \in Sessions, state'[s] = "live"
             PROVE  \/ Holds(s)'
                    \/ \E w \in Workers : wk'[w].pc = "close" /\ wk'[w].sid = s
  BY DEF LiveOwns, InState
<1>1. CASE state[s] # "live"
  <2>1. PICK w \in Workers : MarkLive(w) /\ wk[w].sid = s
    BY <1>1, StateWriters DEF HookReopen, NoneDormant
  <2>2. Holds(s)
    BY <2>1 DEF MarkLive, TurnsOwn, Holds
  <2> QED
    BY <2>1, <2>2 DEF MarkLive, Holds
<1>2. CASE state[s] = "live" /\ Holds(s)
  <2> DEFINE b == botOf[s]
  <2>1. b \in Bots /\ owner[b] = s
    BY <1>2 DEF Holds, TypeOK
  <2>2. botOf'[s] = b
    BY <1>2, BotOfWriters DEF BindBot, SoleTurn, InBirth
  <2>3. CASE owner'[b] = owner[b]
    BY <1>2, <2>1, <2>2, <2>3 DEF Holds
  <2>4. CASE owner'[b] # owner[b]
    <3>1. \A w \in Workers : ~(LeaseCommit(w) /\ wk[w].bot = b)
      BY <2>1 DEF LeaseCommit, LockHeld
    <3>2. \A w \in Workers : ~ReclaimRelease(w)
      BY DEF ReclaimRelease, TurnsOwn
    <3>3. ~RecoverRelease(s)
      BY <1>2 DEF RecoverRelease, OnlyBirths, InState
    <3>4. ~Orphan(b)
      BY <1>2, <2>1 DEF Orphan
    <3>5. PICK w \in Workers : ReleaseBot(w) /\ wk[w].bot = b
      BY <2>1, <2>4, <3>1, <3>2, <3>3, <3>4, OwnerWriters
    <3>6. wk[w].sid = s
      BY <2>1, <3>5 DEF ReleaseBot, TurnsOwn
    <3>7. wk'[w].pc = "close" /\ wk'[w].sid = s
      BY <3>5, <3>6 DEF ReleaseBot, Goto, TypeOK, Jobs
    <3> QED
      BY <3>7
  <2> QED
    BY <2>3, <2>4
<1>3. ASSUME NEW w \in Workers, wk[w].pc = "close", wk[w].sid = s,
             state[s] = "live"
      PROVE  wk'[w].pc = "close" /\ wk'[w].sid = s
  <2>1. ~CloseSession(w)
    BY <1>3 DEF CloseSession, SetState, TypeOK
  <2>2. ~Crash
    BY <1>3 DEF NotMidClose
  <2>3. ~(WorkerStep(w) \/ WorkerTurn(w))
    BY <1>3, <2>1 DEF WorkerStep, WorkerTurn, CreateSession, LeaseSelect,
       LeaseNone, LeaseCommit, ReclaimPick, ReclaimNone, ReclaimClose,
       ReclaimRelease, BindBot, MarkLive, BirthFails, CloseResolve,
       ReleaseBot, BreaksOff, TurnTimeout, StoreRaises, CutOff, SpinUpCheck
  <2> QED
    BY <1>3, <2>2, <2>3, MovedWorker
<1> QED
  BY <1>1, <1>2, <1>3 DEF LiveOwns, InState

\* No step takes a bot from the turn that has leased it.
LEMMA TurnsOwnKeeps ==
    ASSUME LoneInv, LiveOwns, TurnsOwn, [Next]_vars,
           \A v, w \in Workers : v = w
    PROVE  TurnsOwn'
<1> USE DistinctNone DEF LoneInv, OneWorkerInv, RInv, IInv
<1> SUFFICES ASSUME NEW w \in Workers
             PROVE  /\ wk'[w].pc # "vrelease"
                    /\ wk'[w].pc \in {"bind", "mark_live", "release"} =>
                         wk'[w].bot # None /\ owner'[wk'[w].bot] = wk'[w].sid
                    /\ wk'[w].pc = "mark_live" =>
                         botOf'[wk'[w].sid] = wk'[w].bot
  BY DEF TurnsOwn
<1> DEFINE Claim ==
             /\ wk'[w].pc # "vrelease"
             /\ wk'[w].pc \in {"bind", "mark_live", "release"} =>
                  wk'[w].bot # None /\ owner'[wk'[w].bot] = wk'[w].sid
             /\ wk'[w].pc = "mark_live" => botOf'[wk'[w].sid] = wk'[w].bot
<1>0. /\ wk[w] \in Jobs
      /\ wk[w].pc # "vrelease" /\ wk[w].pc # "vclose"
  BY DEF TypeOK, TurnsOwn, NoneDormant
<1>1. CASE Crash
  BY <1>1 DEF Crash, Parked
<1>2. CASE LeaseCommit(w)
  <2>1. /\ wk[w].bot \in pool /\ pool \subseteq Bots
        /\ owner' = [owner EXCEPT ![wk[w].bot] = wk[w].sid]
        /\ wk' = [wk EXCEPT ![w].pc = "bind"]
    BY <1>2 DEF LeaseCommit, LockHeld, TypeOK, Goto
  <2>2. wk'[w].pc = "bind" /\ wk'[w].bot = wk[w].bot /\ wk'[w].sid = wk[w].sid
    BY <1>0, <2>1 DEF TypeOK, Jobs
  <2> QED
    BY <2>1, <2>2 DEF TypeOK
<1>3. CASE BindBot(w)
  <2>1. /\ wk[w].pc = "bind" /\ wk[w].sid \in Sessions
        /\ botOf' = [botOf EXCEPT ![wk[w].sid] = wk[w].bot]
        /\ wk' = [wk EXCEPT ![w].pc = "mark_live"] /\ owner' = owner
    BY <1>0, <1>3 DEF BindBot, OwnBirth, InBirth, Goto, Jobs
  <2>2. /\ wk'[w].pc = "mark_live" /\ wk'[w].bot = wk[w].bot
        /\ wk'[w].sid = wk[w].sid
    BY <1>0, <2>1 DEF TypeOK, Jobs
  <2> QED
    BY <2>1, <2>2 DEF TypeOK, TurnsOwn
<1>4. CASE BirthFails(w)
  <2>1. /\ wk[w].pc \in {"bind", "mark_live"} /\ owner' = owner
        /\ wk' = [wk EXCEPT ![w].pc = "release"]
    BY <1>4 DEF BirthFails, Goto, rows
  <2>2. /\ wk'[w].pc = "release" /\ wk'[w].bot = wk[w].bot
        /\ wk'[w].sid = wk[w].sid
    BY <1>0, <2>1 DEF TypeOK, Jobs
  <2> QED
    BY <2>1, <2>2 DEF TurnsOwn
<1>5. ASSUME NEW s \in Sessions, CloseResolve(w, s) PROVE Claim
  <2>1. /\ Up /\ wk[w].pc = "idle" /\ owner' = owner
        /\ wk'[w].pc = IF botOf[s] = None THEN "close" ELSE "release"
        /\ wk'[w].sid = s /\ wk'[w].bot = botOf[s]
    BY <1>0, <1>5 DEF CloseResolve, Parked, TypeOK, rows
  <2>2. state[s] \notin {"absent", "closed", "dormant"}
    BY <1>5 DEF CloseResolve, Open, NoneDormant, InState
  <2>3. state[s] # "provisioning"
    BY <2>1 DEF BirthHasDriver, InState, NoSidYet
  <2>4. state[s] = "live"
    BY <2>2, <2>3 DEF TypeOK, SessionStates
  <2>5. Holds(s)
    BY <2>1, <2>4 DEF LiveOwns, InState
  <2> QED
    BY <2>1, <2>5 DEF Holds
<1>6. CASE \/ \E s \in Sessions : CreateSession(w, s)
           \/ \E b \in Bots : LeaseSelect(w, b)
           \/ \E t \in Topics : SpinUpCheck(w, t)
           \/ LeaseNone(w) \/ ReclaimNone(w) \/ MarkLive(w)
           \/ ReleaseBot(w) \/ CloseSession(w) \/ BreaksOff(w)
           \/ \E v \in Sessions : ReclaimPick(w, v)
  <2>1. wk'[w].pc \in {"lease", "commit", "create", "close", "reclaim", "idle",
                       "vclose"}
    <3> DEFINE P == wk'[w].pc \in {"lease", "commit", "create", "close",
                                   "reclaim", "idle", "vclose"}
    <3>1. ASSUME NEW s \in Sessions, CreateSession(w, s) PROVE P
      BY <3>1 DEF TypeOK, CreateSession, Parked
    <3>2. ASSUME NEW t \in Topics, SpinUpCheck(w, t) PROVE P
      BY <3>2 DEF TypeOK, SpinUpCheck, Parked
    <3>3. CASE MarkLive(w) \/ CloseSession(w)
      BY <3>3 DEF TypeOK, MarkLive, CloseSession, Parked
    <3>4. CASE BreaksOff(w)
      BY <3>4 DEF TypeOK, BreaksOff, TurnTimeout, StoreRaises, CutOff, Parked
    <3>5. CASE LeaseNone(w) \/ ReclaimNone(w) \/ ReleaseBot(w)
      BY <1>0, <3>5 DEF LeaseNone, ReclaimNone, ReleaseBot, Goto, TypeOK, Jobs
    <3>6. ASSUME NEW b \in Bots, LeaseSelect(w, b) PROVE P
      BY <1>0, <3>6 DEF LeaseSelect, TypeOK, Jobs
    <3>7. ASSUME NEW v \in Sessions, ReclaimPick(w, v) PROVE P
      BY <1>0, <3>7 DEF ReclaimPick, TypeOK, Jobs
    <3> QED
      BY <1>6, <3>1, <3>2, <3>3, <3>4, <3>5, <3>6, <3>7
  <2> QED
    BY <2>1
<1>7. ~ReclaimClose(w) /\ ~ReclaimRelease(w)
  BY <1>0 DEF ReclaimClose, ReclaimRelease
<1>8. CASE wk'[w] = wk[w] /\ ~(WorkerStep(w) \/ WorkerTurn(w))
  <2>1. CASE Up
    <3>1. \A v \in Workers : ~(WorkerStep(v) \/ WorkerTurn(v))
      BY <1>8
    <3>2. \A v \in Workers : ~LeaseCommit(v) /\ ~ReclaimRelease(v)
                             /\ ~ReleaseBot(v) /\ ~BindBot(v)
      BY <3>1 DEF WorkerStep
    <3>3. \A s \in Sessions : ~RecoverRelease(s)
      BY <2>1 DEF RecoverRelease, Up
    <3>4. \A b \in Bots : ~RecoverLease(b)
      BY <2>1 DEF RecoverLease, Up
    <3>5. \A b \in Bots : owner'[b] = owner[b]
      BY <3>2, <3>3, <3>4, OwnerWriters
    <3>6. \A s \in Sessions : botOf'[s] = botOf[s]
      BY <3>2, BotOfWriters
    <3>7. wk[w].bot \in Bots \cup {None} /\ wk[w].sid \in Sessions \cup {None}
      BY <1>0 DEF Jobs
    <3>8. wk[w].pc = "mark_live" => wk[w].sid \in Sessions
      BY <3>7 DEF RevivesBound
    <3> QED
      BY <1>8, <3>5, <3>6, <3>7, <3>8 DEF TurnsOwn
  <2>2. CASE ~Up
    BY <1>8, <2>2 DEF Quiet, Parked
  <2> QED
    BY <2>1, <2>2
<1>9. WorkerStep(w) \/ WorkerTurn(w) => Claim
  BY <1>2, <1>3, <1>4, <1>5, <1>6, <1>7 DEF WorkerStep, WorkerTurn
<1> QED
  BY <1>1, <1>8, <1>9, MovedWorker

\* What a crash must hit for a restart to leave a live session without its
\* bot is a close between its two writes, and nothing else: with one job
\* worker, no session idle, no turn cut off and a recovery that does not fail,
\* a session keeps its bot as long as it lives, however often the process
\* crashes elsewhere (tools.py close_session, pool_store.py).
THEOREM OnlyMidCloseLosesBot ==
    ASSUME \A v, w \in Workers : v = w, ~Reaping, ~TurnTimeouts, ~StoreErrors
    PROVE  Spec /\ [][Crash => NotMidClose]_vars
               => []LiveHoldsBot /\ RecoveredHoldsBot
<1>1. Init => LiveOwns /\ TurnsOwn
  BY DEF Init, LiveOwns, TurnsOwn, InState, Parked
<1>2. LoneInv /\ LiveOwns /\ TurnsOwn /\ [Next]_vars
        /\ [Crash => NotMidClose]_vars => LiveOwns' /\ TurnsOwn'
  <2> SUFFICES ASSUME LoneInv, LiveOwns, TurnsOwn, [Next]_vars,
                      [Crash => NotMidClose]_vars
               PROVE  LiveOwns' /\ TurnsOwn'
    OBVIOUS
  <2>1. CASE UNCHANGED vars
    BY <2>1 DEF vars, rows, procs, LiveOwns, TurnsOwn, InState, Holds
  <2>2. CASE Crash => NotMidClose
    BY <2>2, LiveOwnsKeeps, TurnsOwnKeeps
  <2> QED
    BY <2>1, <2>2
<1>3. LoneInv /\ LiveOwns => LiveHoldsBot
  BY DEF LoneInv, OneWorkerInv, NoneDormant, LiveOwns, LiveHoldsBot, Holds,
     InState
<1>4. OneWorkerInv /\ NoSidYet /\ OnlyBirths /\ BirthHasDriver => LoneInv
  BY DEF LoneInv
<1>5. Spec => []LoneInv
  BY <1>4, OneWorkerInvariance, NoSidHolds, OnlyBirthsHolds, BirthsHaveDrivers,
     PTL
<1>6. Spec /\ [][Crash => NotMidClose]_vars => [](LoneInv /\ LiveOwns)
  BY <1>1, <1>2, <1>5, PTL DEF Spec
<1>7. LiveHoldsBot' => [RecoverDone => LiveHoldsBot']_vars
  OBVIOUS
<1> QED
  BY <1>3, <1>6, <1>7, PTL DEF RecoveredHoldsBot

=============================================================================
