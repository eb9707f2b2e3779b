-------------------------- MODULE CodexTurnProofs --------------------------
(***************************************************************************)
(* Theorems about CodexTurn, for any turns, workspaces and skills.         *)
(***************************************************************************)
EXTENDS CodexTurn, FiniteSetTheorems, TLAPS

\* Every turn has its topic's workspace and a list of skills.
Parameters ==
    /\ SpaceOf \in [Turns -> Spaces]
    /\ Wanted \in [Turns -> SUBSET Skills]
    /\ None \notin Turns

-----------------------------------------------------------------------------
(* The invariant.                                                          *)

\* A turn that runs, or reaps its process, has its workspace's lock.
RunsLocked ==
    \A t \in Turns : turn[t] \in {"run", "reap"} => holder[SpaceOf[t]] = t

\* A process lives inside its turn, unless that turn lost its output.
LivesInTurn ==
    \A t \in Turns : child[t] = "alive" /\ t \notin broken => turn[t] = "run"

\* A turn that lost its output is over, and so is its token.
BrokenIsOver == \A t \in broken : turn[t] = "done"

IInv == TypeOK /\ RunsLocked /\ LivesInTurn /\ BrokenIsOver /\ OwnSkillsOnly

LEMMA InitIInv == ASSUME Parameters PROVE Init => IInv
BY DEF Parameters, Init, IInv, TypeOK, RunsLocked, LivesInTurn, BrokenIsOver,
       OwnSkillsOnly

\* The steps that leave the folders alone and take no lock.
LEMMA QuietStep ==
    ASSUME Parameters, IInv, NEW t \in Turns,
           \/ Ensure(t) \/ GitInit(t) \/ Mint(t) \/ Exit(t)
           \/ BridgeCall(t) \/ BridgeReturn(t) \/ CancelRun(t)
    PROVE  IInv'
<1> USE DEF Parameters, IInv, RunsLocked, LivesInTurn, BrokenIsOver,
            OwnSkillsOnly, Managed, Goto, tree
<1>1. CASE Ensure(t)
    <2>1. /\ turn[t] = "idle"
          /\ \/ git' = [git EXCEPT ![SpaceOf[t]] = "init"]
             \/ git' = git
          /\ \/ turn' = [turn EXCEPT ![t] = "init"]
             \/ turn' = [turn EXCEPT ![t] = "load"]
          /\ UNCHANGED <<folder, holder, tokens, child, call, broken>>
        BY <1>1 DEF Ensure
    <2>2. TypeOK'
        BY ZenonT(40), <2>1 DEF TypeOK
    <2> QED BY <2>1, <2>2 DEF TypeOK
<1>2. CASE GitInit(t)
    BY <1>2 DEF GitInit, TypeOK
<1>3. CASE Mint(t)
    BY <1>3 DEF Mint, TypeOK
<1>4. CASE Exit(t)
    BY <1>4 DEF Exit, TypeOK
<1>5. CASE BridgeCall(t)
    BY <1>5 DEF BridgeCall, TypeOK
<1>6. CASE BridgeReturn(t)
    BY <1>6 DEF BridgeReturn, TypeOK
<1>7. CASE CancelRun(t)
    BY <1>7 DEF CancelRun, TypeOK
<1> QED BY <1>1, <1>2, <1>3, <1>4, <1>5, <1>6, <1>7

\* The steps that end a turn without touching the folders.
LEMMA LeavingStep ==
    ASSUME Parameters, IInv, NEW t \in Turns,
           Finish(t) \/ ReadFails(t) \/ Reap(t) \/ CancelEarly(t)
    PROVE  IInv'
<1> USE DEF Parameters, IInv, RunsLocked, LivesInTurn, BrokenIsOver,
            OwnSkillsOnly, Managed, Goto, Leave, tree
<1>1. CASE Finish(t)
    BY <1>1 DEF Finish, TypeOK
<1>2. CASE ReadFails(t)
    BY <1>2 DEF ReadFails, TypeOK
<1>3. CASE Reap(t)
    BY <1>3 DEF Reap, TypeOK
<1>4. CASE CancelEarly(t)
    BY <1>4 DEF CancelEarly, TypeOK
<1> QED BY <1>1, <1>2, <1>3, <1>4

\* Only the skills the turn wants, and the folders codex made, are there once
\* it has mounted its own.
LEMMA MountedIsWanted ==
    ASSUME Parameters, TypeOK, NEW t \in Turns
    PROVE  /\ Mounted(t) \in [Skills -> {"absent", "managed", "own"}]
           /\ {k \in Skills : Mounted(t)[k] = "managed"} = Wanted[t]
BY DEF Parameters, TypeOK, Mounted

LEMMA StartStep ==
    ASSUME Parameters, IInv, NEW t \in Turns, Start(t)
    PROVE  IInv'
<1> USE DEF Parameters, IInv
<1> DEFINE s == SpaceOf[t]
<1>1. /\ turn[t] = "wait" /\ holder[s] = None /\ s \in Spaces
      /\ folder' = [folder EXCEPT ![s] = Mounted(t)]
      /\ holder' = [holder EXCEPT ![s] = t]
      /\ child' = [child EXCEPT ![t] = "alive"]
      /\ turn' = [turn EXCEPT ![t] = "run"]
      /\ UNCHANGED <<git, tokens, call, broken>>
    BY DEF Start, Goto
<1>2. Mounted(t) \in [Skills -> {"absent", "managed", "own"}]
    BY MountedIsWanted
<1>3. TypeOK'
    BY <1>1, <1>2 DEF TypeOK
<1>4. \A u \in Turns \ {t} : turn'[u] \in {"run", "reap"} => SpaceOf[u] # s
    BY <1>1 DEF RunsLocked, TypeOK
<1>5. RunsLocked'
    BY <1>1, <1>4 DEF RunsLocked, TypeOK
<1>6. LivesInTurn'
    BY <1>1 DEF LivesInTurn, TypeOK
<1>7. BrokenIsOver'
    BY <1>1 DEF BrokenIsOver, TypeOK
<1>8. OwnSkillsOnly'
    <2> SUFFICES ASSUME NEW u \in Turns, turn'[u] = "run"
                 PROVE  Managed(SpaceOf[u])' = Wanted[u]
        BY DEF OwnSkillsOnly
    <2>1. CASE u = t
        BY <1>1, <2>1, MountedIsWanted DEF Managed, TypeOK
    <2>2. CASE u # t
        BY <1>1, <1>4, <2>2 DEF Managed, OwnSkillsOnly, TypeOK
    <2> QED BY <2>1, <2>2
<1> QED BY <1>3, <1>5, <1>6, <1>7, <1>8

LEMMA MountRefusedStep ==
    ASSUME Parameters, IInv, NEW t \in Turns, MountRefused(t)
    PROVE  IInv'
<1> USE DEF Parameters, IInv
<1> DEFINE s == SpaceOf[t]
<1>1. PICK done \in SUBSET (Wanted[t] \ Blocked(t)) :
          folder' = [folder EXCEPT ![s] = [k \in Skills |->
              IF k \in done THEN "managed"
              ELSE IF k \in Wanted[t] THEN folder[s][k] ELSE Mounted(t)[k]]]
    BY DEF MountRefused
<1>2. /\ turn[t] = "wait" /\ holder[s] = None /\ s \in Spaces
      /\ holder' = [r \in Spaces |-> IF holder[r] = t THEN None ELSE holder[r]]
      /\ tokens' = tokens \ {t}
      /\ turn' = [turn EXCEPT ![t] = "done"]
      /\ UNCHANGED <<git, child, call, broken>>
    BY DEF MountRefused, Leave, Goto
<1>3. folder' \in [Spaces -> [Skills -> {"absent", "managed", "own"}]]
    BY <1>1, <1>2, MountedIsWanted DEF TypeOK
<1>4. TypeOK'
    BY <1>2, <1>3 DEF TypeOK
<1>5. \A u \in Turns : turn'[u] \in {"run", "reap"} => SpaceOf[u] # s
    BY <1>2 DEF RunsLocked, TypeOK
<1>6. RunsLocked'
    BY <1>2 DEF RunsLocked, TypeOK
<1>7. LivesInTurn' /\ BrokenIsOver'
    BY <1>2 DEF LivesInTurn, BrokenIsOver, TypeOK
<1>8. OwnSkillsOnly'
    BY <1>1, <1>2, <1>5 DEF OwnSkillsOnly, Managed, TypeOK
<1> QED BY <1>4, <1>6, <1>7, <1>8

LEMMA OwnFolderStep ==
    ASSUME Parameters, IInv, NEW t \in Turns, NEW k \in Skills,
           OwnFolder(t, k)
    PROVE  IInv'
<1> USE DEF Parameters, IInv, OwnFolder
<1>1. TypeOK'
    BY DEF TypeOK
<1>2. \A r \in Spaces : Managed(r)' = Managed(r)
    BY DEF Managed, TypeOK
<1> QED BY <1>1, <1>2 DEF RunsLocked, LivesInTurn, BrokenIsOver, OwnSkillsOnly

LEMMA StepIInv == ASSUME Parameters PROVE IInv /\ [Next]_vars => IInv'
<1> SUFFICES ASSUME IInv, [Next]_vars PROVE IInv'
    OBVIOUS
<1>1. CASE Next
    <2> PICK t \in Turns :
            \/ Ensure(t) \/ TurnStep(t)
            \/ CancelRun(t) \/ CancelEarly(t) \/ ReadFails(t)
            \/ Exit(t) \/ BridgeCall(t) \/ BridgeReturn(t)
            \/ \E k \in Skills : OwnFolder(t, k)
        BY <1>1 DEF Next
    <2> QED BY QuietStep, LeavingStep, StartStep, MountRefusedStep,
               OwnFolderStep DEF TurnStep
<1>2. CASE UNCHANGED vars
    BY <1>2 DEF vars, IInv, TypeOK, RunsLocked, LivesInTurn, BrokenIsOver,
                OwnSkillsOnly, Managed
<1> QED BY <1>1, <1>2

LEMMA Invariance == ASSUME Parameters PROVE Spec => []IInv
BY InitIInv, StepIInv, PTL DEF Spec

-----------------------------------------------------------------------------
(* The theorems.                                                           *)

\* What a running codex process finds in its workspace is its own turn's: the
\* lock and the skills, for every number of turns and workspaces.
THEOREM WorkspacesHold == ASSUME Parameters PROVE Spec => []WorkspaceHolds
<1>1. IInv => WorkspaceHolds
    BY DEF Parameters, IInv, WorkspaceHolds, TreeHasOwner, RunsLocked,
           LivesInTurn
<1> QED BY <1>1, Invariance, PTL

\* Folders codex made survive every mount.
LEMMA OwnFoldersStay ==
    ASSUME Parameters, IInv, Next,
           NEW s \in Spaces, NEW k \in Skills, folder[s][k] = "own"
    PROVE  folder'[s][k] = "own"
<1> USE DEF Parameters, IInv, TypeOK
<1> PICK t \in Turns :
        \/ Ensure(t) \/ TurnStep(t)
        \/ CancelRun(t) \/ CancelEarly(t) \/ ReadFails(t)
        \/ Exit(t) \/ BridgeCall(t) \/ BridgeReturn(t)
        \/ \E j \in Skills : OwnFolder(t, j)
    BY DEF Next
<1>1. CASE Start(t)
    BY <1>1 DEF Start, Blocked, Mounted
<1>2. CASE MountRefused(t)
    BY <1>2 DEF MountRefused, Blocked, Mounted
<1>3. CASE \E j \in Skills : OwnFolder(t, j)
    BY <1>3 DEF OwnFolder
<1>4. CASE UNCHANGED folder
    BY <1>4
<1> QED BY <1>1, <1>2, <1>3, <1>4 DEF TurnStep, Ensure, GitInit, Mint,
           Finish, Reap, CancelRun, CancelEarly, ReadFails, Exit, BridgeCall,
           BridgeReturn, tree

\* A bridged call begins only for a turn that has its workspace.
LEMMA CallsAreHeld ==
    ASSUME Parameters, IInv, Next,
           NEW u \in Turns, call[u] = "none", call'[u] = "running"
    PROVE  holder[SpaceOf[u]] = u
<1> USE DEF Parameters, IInv, TypeOK
<1> PICK t \in Turns :
        \/ Ensure(t) \/ TurnStep(t)
        \/ CancelRun(t) \/ CancelEarly(t) \/ ReadFails(t)
        \/ Exit(t) \/ BridgeCall(t) \/ BridgeReturn(t)
        \/ \E j \in Skills : OwnFolder(t, j)
    BY DEF Next
<1>1. CASE BridgeCall(t)
    BY <1>1 DEF BridgeCall, LivesInTurn, BrokenIsOver, RunsLocked
<1>2. CASE BridgeReturn(t)
    BY <1>2 DEF BridgeReturn
<1>3. CASE UNCHANGED call
    BY <1>3
<1> QED BY <1>1, <1>2, <1>3 DEF TurnStep, Ensure, GitInit, Mint, Start,
           MountRefused, Finish, Reap, CancelRun, CancelEarly, ReadFails,
           Exit, OwnFolder

\* No step replaces a folder codex made, and none begins a bridged call for a
\* turn that is over, although its process may have survived it.
THEOREM NothingFollowsTurn == ASSUME Parameters PROVE Spec => NothingAfterTurn
<1>1. ASSUME IInv, [Next]_vars
      PROVE  [/\ \A s \in Spaces, k \in Skills :
                    folder[s][k] = "own" => folder'[s][k] = "own"
              /\ \A t \in Turns :
                    call[t] = "none" /\ call'[t] = "running" =>
                        holder[SpaceOf[t]] = t]_vars
    BY <1>1, OwnFoldersStay, CallsAreHeld
<1> QED BY <1>1, Invariance, PTL DEF NothingAfterTurn, Spec

\* "two `codex exec` runs never share one git working tree" as long as every
\* turn can read its process's output: while the control plane runs, a read
\* that fails is the only thing that lets a second process into the workspace
\* (run_codex_exec).
THEOREM SharedOnlyIfOutputLost ==
    ASSUME Parameters PROVE Spec => [](broken = {} => NeverShared)
<1>1. ASSUME IInv, broken = {}, NEW s \in Spaces
      PROVE  Cardinality({t \in Turns : SpaceOf[t] = s
                                        /\ child[t] = "alive"}) <= 1
  <2> DEFINE S == {t \in Turns : SpaceOf[t] = s /\ child[t] = "alive"}
  <2>1. S \subseteq {holder[s]}
      BY <1>1 DEF IInv, LivesInTurn, RunsLocked
  <2>2. IsFiniteSet({holder[s]}) /\ Cardinality({holder[s]}) = 1
      BY FS_Singleton
  <2>3. IsFiniteSet(S) /\ Cardinality(S) <= Cardinality({holder[s]})
      BY <2>1, <2>2, FS_Subset
  <2> QED BY <2>2, <2>3
<1>2. IInv => (broken = {} => NeverShared)
    BY <1>1 DEF NeverShared
<1> QED BY <1>2, Invariance, PTL
=============================================================================
