-------------------------- MODULE RestoreSwapProofs --------------------------
(***************************************************************************)
(* Theorems about RestoreSwap, for any number of backups of a workspace    *)
(* and any sequence of attempts, failures and crashes.                     *)
(***************************************************************************)
EXTENDS RestoreSwap, TLAPS

LEMMA InitSwap == Init => TypeOK /\ SwapInv
  BY NoneIsNoPath DEF Init, TypeOK, SwapInv, ToCommit, Committed, CleanedUp, Cleaning, Writing,
     Discarding, WasStocked, MissingIsRecoverable, HasLive, HasRestored, Trees, Whole, Stages

LEMMA StepKeepsType ==
  ASSUME TypeOK, SwapInv, [Next]_vars
  PROVE  TypeOK'
<1> USE DEF TypeOK, Trees, Whole, Stages
<1>1. ASSUME NEW b \in Backups, Begin(b) PROVE TypeOK'
  BY <1>1 DEF Begin
<1>2. CASE Recover
  BY <1>2 DEF Recover, Goto, Stock
<1>3. CASE RemovePrevious
  BY <1>3 DEF RemovePrevious, Goto
<1>4. CASE CleanTmp \/ ResticWrites \/ ResticEnds \/ Finish
  BY <1>4 DEF CleanTmp, ResticWrites, ResticEnds, Finish, Goto
<1>5. CASE MoveAside
  BY <1>5 DEF MoveAside, Goto
<1>6. CASE Swap
  BY <1>6 DEF Swap, Goto, Stock, SwapInv, ToCommit
<1>7. CASE SwapFails
  BY <1>7 DEF SwapFails, Stock
<1>8. CASE StopsShort
  BY <1>8 DEF StopsShort
<1>9. CASE Boot \/ Upgrade \/ RemoveVm
  BY <1>9 DEF Boot, Upgrade, RemoveVm
<1>10. CASE UNCHANGED vars
  BY <1>10 DEF vars
<1> QED
  BY <1>1, <1>2, <1>3, <1>4, <1>5, <1>6, <1>7, <1>8, <1>9, <1>10 DEF Next, Restore
(* Between two attempts the directory only turns from missing to fresh. *)
LEMMA BetweenRestores ==
  ASSUME TypeOK, SwapInv, Boot \/ Upgrade \/ RemoveVm
  PROVE  SwapInv'
<1>1. /\ pc = "idle" /\ pc' = "idle" /\ tmp' = tmp /\ prev' = prev /\ stocked' = stocked
      /\ ws' \in {ws, "fresh", "live"}
      /\ ws = None => ws' \in {None, "fresh"}
      /\ ws' = "live" => ws \in Whole
  <2>1. CASE Boot
    BY <2>1, NoneIsNoPath DEF Boot, Whole, Trees
  <2>2. CASE Upgrade
    BY <2>2, NoneIsNoPath DEF Upgrade, Whole, Trees
  <2>3. CASE RemoveVm
    BY <2>3, NoneIsNoPath DEF RemoveVm, Whole, Trees
  <2> QED
    BY <2>1, <2>2, <2>3
<1>2. /\ ToCommit' /\ Committed' /\ CleanedUp' /\ Cleaning' /\ Writing' /\ Discarding'
  BY <1>1 DEF ToCommit, Committed, CleanedUp, Cleaning, Writing, Discarding
<1>3. WasStocked'
  BY <1>1 DEF SwapInv, WasStocked, HasLive, Whole
<1>4. MissingIsRecoverable'
  BY <1>1, NoneIsNoPath DEF SwapInv, MissingIsRecoverable, Trees, Whole
<1> QED
  BY <1>2, <1>3, <1>4 DEF SwapInv

LEMMA RecoverKeepsSwap ==
  ASSUME TypeOK, SwapInv, Recover
  PROVE  SwapInv'
<1>1. CASE /\ ws = None
           /\ tmp[bk] \in {"part", "restored"}
           /\ ws' = tmp[bk]
           /\ tmp' = [tmp EXCEPT ![bk] = "empty"]
           /\ UNCHANGED prev
           /\ Goto("discard")
  <2>1. ws' # None /\ bk' = bk /\ pc' = "discard" /\ (stocked => HasRestored')
    <3>1. ws' # None
      BY <1>1, NoneIsNoPath DEF Trees, Whole
    <3>2. ASSUME stocked, tmp[bk] # "restored" PROVE HasRestored'
      <4>1. PICK b \in Backups : tmp[b] = "restored"
        BY <1>1, <3>2 DEF SwapInv, MissingIsRecoverable
      <4>2. tmp'[b] = "restored"
        BY <1>1, <3>2, <4>1 DEF TypeOK
      <4> QED
        BY <4>2 DEF HasRestored
    <3>3. ASSUME tmp[bk] = "restored" PROVE HasRestored'
      BY <1>1, <3>3 DEF HasRestored
    <3> QED
      BY <1>1, <3>1, <3>2, <3>3 DEF Goto
  <2>2. Discarding'
    <3>1. CASE stocked
      BY <2>1, <3>1 DEF Discarding
    <3>2. CASE ~stocked
      BY <1>1, <2>1, <3>2 DEF Discarding, Recover, Stock, HasRestored, Whole
    <3> QED
      BY <3>1, <3>2
  <2>3. WasStocked'
    BY <1>1 DEF Recover, Stock, SwapInv, WasStocked, HasLive, Whole
  <2> QED
    BY <2>1, <2>2, <2>3 DEF SwapInv, ToCommit, Committed, CleanedUp, Cleaning, Writing,
       MissingIsRecoverable
<1>2. CASE /\ ws = None
           /\ tmp[bk] \in {None, "empty"}
           /\ prev[bk] # None
           /\ ws' = prev[bk]
           /\ prev' = [prev EXCEPT ![bk] = None]
           /\ UNCHANGED tmp
           /\ Goto("clean")
  BY <1>2, NoneIsNoPath DEF Recover, Goto, Stock, TypeOK, SwapInv, ToCommit, Committed, CleanedUp,
     Cleaning, Writing, Discarding, WasStocked, HasLive, MissingIsRecoverable, Trees, Whole
<1>3. CASE /\ ws # None \/ (tmp[bk] \in {None, "empty"} /\ prev[bk] = None)
           /\ UNCHANGED <<ws, tmp, prev>>
           /\ Goto("clean")
  BY <1>3, NoneIsNoPath DEF Recover, Goto, Stock, SwapInv, ToCommit, Committed, CleanedUp,
     Cleaning, Writing, Discarding, WasStocked, HasLive, MissingIsRecoverable, Trees, Whole
<1> QED
  BY <1>1, <1>2, <1>3 DEF Recover

LEMMA PrepareKeepsSwap ==
  ASSUME TypeOK, SwapInv
  PROVE  /\ \A b \in Backups : Begin(b) => SwapInv'
         /\ RemovePrevious => SwapInv'
         /\ CleanTmp => SwapInv'
         /\ ResticWrites => SwapInv'
         /\ ResticEnds => SwapInv'
<1> USE DEF SwapInv, ToCommit, Committed, CleanedUp, Cleaning, Writing, Discarding, WasStocked,
        MissingIsRecoverable, HasLive, HasRestored, Whole
<1>1. ASSUME NEW b \in Backups, Begin(b) PROVE SwapInv'
  BY <1>1 DEF Begin
<1>2. ASSUME RemovePrevious PROVE SwapInv'
  <2>1. /\ bk' = bk /\ ws' = ws /\ tmp' = tmp /\ stocked' = stocked /\ prev'[bk] = None
        /\ \A b \in Backups : prev'[b] \in {prev[b], None}
        /\ \/ pc = "discard" /\ pc' = "clean"
           \/ pc = "stale" /\ pc' = "aside"
           \/ pc = "old" /\ pc' = "finish"
    BY <1>2 DEF RemovePrevious, Goto, TypeOK
  <2>2. WasStocked' /\ MissingIsRecoverable'
    BY <2>1, NoneIsNoPath DEF Trees
  <2> QED
    BY <2>1, <2>2
<1>3. ASSUME CleanTmp PROVE SwapInv'
  <2>1. /\ bk' = bk /\ pc' = "restic" /\ ws' = ws /\ prev' = prev /\ stocked' = stocked
        /\ tmp'[bk] = "empty" /\ \A b \in Backups \ {bk} : tmp'[b] = tmp[b]
    BY <1>3 DEF CleanTmp, Goto, TypeOK
  <2>2. MissingIsRecoverable'
    <3> SUFFICES ASSUME stocked, ws = None PROVE \E b \in Backups : tmp'[b] = "restored"
      BY <2>1
    <3>1. PICK b \in Backups : tmp[b] = "restored"
      OBVIOUS
    <3>2. b # bk
      BY <1>3, <3>1 DEF CleanTmp
    <3> QED
      BY <2>1, <3>1, <3>2
  <2> QED
    BY <2>1, <2>2
<1>4. ASSUME ResticWrites PROVE SwapInv'
  BY <1>4 DEF ResticWrites, TypeOK
<1>5. ASSUME ResticEnds PROVE SwapInv'
  BY <1>5 DEF ResticEnds, Goto, TypeOK
<1> QED
  BY <1>1, <1>2, <1>3, <1>4, <1>5

LEMMA CommitKeepsSwap ==
  ASSUME TypeOK, SwapInv
  PROVE  /\ MoveAside => SwapInv'
         /\ Swap => SwapInv'
         /\ SwapFails => SwapInv'
         /\ Finish => SwapInv'
         /\ StopsShort => SwapInv'
<1> USE DEF SwapInv, ToCommit, Committed, CleanedUp, Cleaning, Writing, Discarding, WasStocked,
        MissingIsRecoverable, HasLive, HasRestored, Whole
<1>1. ASSUME MoveAside PROVE SwapInv'
  <2>1. /\ bk' = bk /\ pc' = "swap" /\ ws' = None /\ tmp' = tmp /\ stocked' = stocked
        /\ bk \in Backups /\ tmp[bk] = "restored"
        /\ prev'[bk] = ws /\ \A b \in Backups \ {bk} : prev'[b] = prev[b]
    BY <1>1 DEF MoveAside, Goto, TypeOK
  <2>2. WasStocked'
    BY <2>1, NoneIsNoPath DEF Trees
  <2>3. MissingIsRecoverable'
    BY <2>1
  <2> QED
    BY <2>1, <2>2, <2>3
<1>2. ASSUME Swap PROVE SwapInv'
  <2>1. /\ bk' = bk /\ pc' = "old" /\ prev' = prev /\ ws' = "restored" /\ stocked'
        /\ tmp'[bk] = "empty"
    BY <1>2 DEF Swap, Goto, Stock, TypeOK
  <2> QED
    BY <2>1, NoneIsNoPath DEF Trees
<1>3. ASSUME SwapFails PROVE SwapInv'
  <2>1. /\ bk' = bk /\ pc' = "idle" /\ tmp' = tmp /\ ws' = prev[bk]
        /\ stocked' = (stocked \/ prev[bk] \in Whole)
        /\ \A b \in Backups : prev'[b] \in {prev[b], None}
        /\ bk \in Backups /\ tmp[bk] = "restored"
    BY <1>3 DEF SwapFails, Stock, TypeOK
  <2>2. WasStocked'
    BY <2>1, NoneIsNoPath DEF Trees
  <2> QED
    BY <2>1, <2>2
<1>4. ASSUME Finish PROVE SwapInv'
  <2>1. bk' = bk /\ pc' = "idle" /\ prev' = prev /\ ws' = ws /\ stocked' = stocked /\ ws = "restored"
    BY <1>4 DEF Finish
  <2> QED
    BY <2>1, NoneIsNoPath DEF Trees
<1>5. ASSUME StopsShort PROVE SwapInv'
  <2>1. bk' = bk /\ pc' = "idle" /\ ws' = ws /\ stocked' = stocked
    BY <1>5 DEF StopsShort
  <2>2. WasStocked'
    <3>1. \A b \in Backups : prev'[b] = "live" => prev[b] = "live"
      BY <1>5 DEF StopsShort, TypeOK
    <3> QED
      BY <2>1, <3>1
  <2>3. MissingIsRecoverable'
    <3>1. \A b \in Backups : tmp[b] = "restored" /\ ws = None => tmp'[b] = "restored"
      BY <1>5, NoneIsNoPath DEF StopsShort, TypeOK, Trees
    <3> QED
      BY <2>1, <3>1
  <2> QED
    BY <2>1, <2>2, <2>3
<1> QED
  BY <1>1, <1>2, <1>3, <1>4, <1>5

LEMMA StepKeepsSwap ==
  ASSUME TypeOK, SwapInv, [Next]_vars
  PROVE  SwapInv'
<1>1. CASE UNCHANGED vars
  BY <1>1 DEF vars, SwapInv, ToCommit, Committed, CleanedUp, Cleaning, Writing, Discarding,
     WasStocked, MissingIsRecoverable, HasLive, HasRestored
<1> QED
  BY <1>1, BetweenRestores, RecoverKeepsSwap, PrepareKeepsSwap, CommitKeepsSwap DEF Next, Restore

(* Type and stages together: that only trees are renamed into place is known *)
(* from the stages.                                                          *)
THEOREM SwapInvariant == Spec => [](TypeOK /\ SwapInv)
<1>1. TypeOK /\ SwapInv /\ [Next]_vars => (TypeOK /\ SwapInv)'
  BY StepKeepsType, StepKeepsSwap
<1> QED
  BY <1>1, InitSwap, PTL DEF Spec

(* Wherever a restore stopped, a missing directory can be put back by the next *)
(* one: recover_interrupted_restore comes before anything is removed.          *)
THEOREM MissingCanBeRecovered == Spec => []MissingIsRecoverable
<1>1. SwapInv => MissingIsRecoverable
  BY DEF SwapInv
<1> QED
  BY <1>1, SwapInvariant, PTL

LEMMA StepKeepsData ==
  ASSUME TypeOK, SwapInv, HasLive, [Next]_vars
  PROVE  HasLive' \/ HasRestored'
<1>1. CASE UNCHANGED vars \/ RemoveVm \/ \E b \in Backups : Begin(b)
  BY <1>1 DEF vars, RemoveVm, Begin, HasLive
<1>2. CASE Boot \/ Upgrade
  BY <1>2, NoneIsNoPath DEF Boot, Upgrade, HasLive, Trees, Whole
<1>3. CASE Recover
  <2>1. CASE prev' = prev
    BY <1>3, <2>1, NoneIsNoPath DEF Recover, HasLive, Trees, Whole
  <2>2. CASE prev' # prev
    <3>1. ws' = prev[bk] /\ ws = None /\ \A b \in Backups \ {bk} : prev'[b] = prev[b]
      BY <1>3, <2>2 DEF Recover, TypeOK
    <3> QED
      BY <3>1, NoneIsNoPath DEF HasLive, Trees, Whole
  <2> QED
    BY <2>1, <2>2
<1>4. CASE RemovePrevious
  <2>1. ws' = ws /\ tmp' = tmp /\ bk \in Backups
    BY <1>4 DEF RemovePrevious, TypeOK
  <2>2. HasRestored
    BY <1>4, <2>1 DEF RemovePrevious, SwapInv, ToCommit, Committed, Discarding, WasStocked, HasRestored
  <2> QED
    BY <2>1, <2>2 DEF HasRestored
<1>5. CASE CleanTmp \/ ResticWrites \/ ResticEnds \/ Finish
  BY <1>5 DEF CleanTmp, ResticWrites, ResticEnds, Finish, HasLive
<1>6. CASE MoveAside \/ SwapFails
  BY <1>6 DEF MoveAside, SwapFails, TypeOK, SwapInv, ToCommit, HasRestored
<1>7. CASE Swap
  BY <1>7 DEF Swap, SwapInv, ToCommit, HasRestored
<1>8. CASE StopsShort
  <2>1. CASE prev' = prev
    BY <1>8, <2>1 DEF StopsShort, HasLive
  <2>2. CASE prev' # prev
    <3>1. ws' = ws /\ tmp' = tmp /\ pc \in {"discard", "stale", "old"} /\ bk \in Backups
      BY <1>8, <2>2 DEF StopsShort, TypeOK
    <3> QED
      BY <3>1 DEF SwapInv, ToCommit, Committed, Discarding, WasStocked, HasRestored
  <2> QED
    BY <2>1, <2>2
<1> QED
  BY <1>1, <1>2, <1>3, <1>4, <1>5, <1>6, <1>7, <1>8 DEF Next, Restore

(* However often restores fail, are interrupted and are tried again, what the *)
(* guest wrote is only given up for a complete restored tree.                 *)
THEOREM RestoreIsNonDestructive == Spec => NonDestructive
<1>1. TypeOK /\ SwapInv /\ [Next]_vars => [HasLive => HasLive' \/ HasRestored']_vars
  BY StepKeepsData
<1> QED
  BY <1>1, SwapInvariant, PTL DEF Spec, NonDestructive

(* A job that reports success has restored. *)
THEOREM RestoreIsDelivered == Spec => RestoreDelivers
<1> DEFINE Delivered == result' = "ok" /\ result # "ok"
                          => ws' = "restored" /\ tmp'[bk] = None /\ prev'[bk] = None
<1>1. TypeOK /\ SwapInv /\ [Next]_vars => [Delivered]_vars
  <2> SUFFICES ASSUME TypeOK, SwapInv, Next, result' = "ok", result # "ok"
               PROVE  ws' = "restored" /\ tmp'[bk] = None /\ prev'[bk] = None
    OBVIOUS
  <2>1. Finish
    BY DEF Next, Restore, Begin, Recover, RemovePrevious, CleanTmp, ResticWrites, ResticEnds,
       MoveAside, Swap, SwapFails, StopsShort, Boot, Upgrade, RemoveVm, Goto
  <2> QED
    BY <2>1 DEF Finish, TypeOK, SwapInv, Committed, CleanedUp
<1> QED
  BY <1>1, SwapInvariant, PTL DEF Spec, RestoreDelivers
=============================================================================
