--------------------------- MODULE SubmissionProofs ---------------------------
(***************************************************************************)
(* What is sent and what its sender is told, for any number of calls,      *)
(* faults and blocks. TxSubmission: the outcomes of a wait are true.       *)
(* NodeClient (Client): so is the answer of send_tx, with its one retry.   *)
(* L1Bridge (L1): what a bridging call returns can be claimed. Deployment  *)
(* (Deploy): what is published is what is returned, and it is visible. The *)
(* components of this module have nothing to do with one another: a        *)
(* theorem is about the specification it names, and a constant or variable *)
(* that two of them use is universally quantified in each.                 *)
(***************************************************************************)
EXTENDS TxSubmission, Sequences, TLAPS

Bounds == Timeout \in Nat /\ Grace \in Nat /\ Patience \in Nat /\ MaxBlocks \in Nat \ {0}

(* The type invariant in four parts, one per sort of value; a transaction    *)
(* that is included is in a block.                                           *)
Flags == reverted \in BOOLEAN /\ tree \in BOOLEAN /\ nap \in BOOLEAN /\ fellBack \in BOOLEAN /\ blind \in BOOLEAN /\ raced \in BOOLEAN

Working == {"validate", "submit", "block", "ask", "answer", "newblock", "effect", "tree"}
Failures == {"invalid", "rpc", "dropped", "reverted", "timeout"}

Calls ==
    /\ \/ pc \in Working \union {"idle"} /\ result = "none"
       \/ pc = "ok" /\ result = "ok"
       \/ pc = "failed" /\ result \in Failures
    /\ target \in {"checkpointed", "proven"}

Counts ==
    /\ status \in Status /\ blocks \in 0..MaxBlocks /\ startBlock \in 0..MaxBlocks /\ t \in 0..Cap
    /\ Ordinal[status] >= 2 => blocks > 0

Receipts == got \in [status : Status \union {"error"}, reverted : BOOLEAN]

Typed == Flags /\ Calls /\ Counts /\ Receipts

(* Receipts are asked for after the transaction was sent, and in the second  *)
(* wait nothing else is.                                                     *)
Placed ==
    /\ pc \in {"idle", "validate", "submit"} => status = "unsent"
    /\ pc \notin {"idle", "validate", "submit", "failed"} => status # "unsent"
    /\ target = "proven" => pc \in {"ask", "answer"} \union Final
    /\ pc # "answer" => got = Nothing

(* What a receipt says stays true while it travels if it says checkpointed  *)
(* or more, or dropped; that the node does not know the transaction, while   *)
(* nobody is slower than the grace period.                                   *)
Snapshot ==
    /\ got.status # "unsent"
    /\ got.status # "error" /\ Ordinal[got.status] >= 3 =>
          Ordinal[status] >= Ordinal[got.status] /\ reverted = got.reverted
    /\ got.status = "dropped" => status = "dropped"
    /\ got.status = "unknown" /\ ~raced /\ t >= Grace => status = "unknown"

(* After a receipt that said so the transaction is checkpointed for good.    *)
Confirmed ==
    /\ ~fellBack /\ (pc \in {"effect", "tree", "ok"} \/ target = "proven") => Ordinal[status] >= 3 /\ ~reverted
    /\ pc = "ok" /\ target = "proven" => Ordinal[status] >= 4 /\ ~reverted
    /\ pc = "ok" \/ target = "proven" => fellBack \/ blind \/ tree

TxInv == Typed /\ Placed /\ Snapshot /\ Confirmed /\ DroppedMeansDropped

-----------------------------------------------------------------------------
LEMMA Ordinals ==
  /\ Ordinal["unsent"] = 0 /\ Ordinal["unknown"] = 0 /\ Ordinal["dropped"] = 0 /\ Ordinal["pending"] = 1
  /\ Ordinal["proposed"] = 2 /\ Ordinal["checkpointed"] = 3 /\ Ordinal["proven"] = 4 /\ Ordinal["finalized"] = 5
<1>1. ASSUME NEW s \in Status
      PROVE  Ordinal[s] = CASE s \in NotThere -> 0 [] s = "pending" -> 1 [] s = "proposed" -> 2
                            [] s = "checkpointed" -> 3 [] s = "proven" -> 4 [] s = "finalized" -> 5
  BY Zenon DEF Ordinal
<1>2. Ordinal["unsent"] = 0 /\ Ordinal["unknown"] = 0 /\ Ordinal["dropped"] = 0
  BY <1>1 DEF Status, NotThere
<1>3. Ordinal["pending"] = 1
  BY <1>1 DEF Status, NotThere
<1>4. Ordinal["proposed"] = 2
  BY <1>1 DEF Status, NotThere
<1>5. Ordinal["checkpointed"] = 3
  BY <1>1 DEF Status, NotThere
<1>6. Ordinal["proven"] = 4
  BY <1>1 DEF Status, NotThere
<1>7. Ordinal["finalized"] = 5
  BY <1>1 DEF Status, NotThere
<1> QED BY <1>2, <1>3, <1>4, <1>5, <1>6, <1>7

(* The outcomes of a round of wait_for_tx. *)
LEMMA AnswerIs ==
  ASSUME TypeOK, Answer
  PROVE  /\ pc = "answer" /\ got' = Nothing /\ UNCHANGED <<node, target, startBlock, ghosts>>
         /\ \/ got.status \in NotThere /\ t >= Grace /\ End("dropped")
            \/ End("reverted")
            \/ /\ got.status \in Status /\ ~got.reverted /\ Ordinal[got.status] >= Ordinal[target]
               /\ IF target = "checkpointed" THEN Go("effect") ELSE End("ok")
            \/ IF target = "checkpointed" THEN Go("newblock") ELSE End("timeout")
            \/ Again("ask")
<1> DEFINE dropped == got.status \in NotThere
           reached == got.status # "error" /\ ~dropped /\ ~got.reverted /\ StatusReached(got.status, target)
<1>1. CASE dropped /\ t >= Grace
  BY <1>1 DEF Answer, Awake
<1>2. CASE ~dropped /\ got.reverted
  BY <1>2 DEF Answer, Awake
<1>3. CASE reached
  BY <1>3 DEF Answer, Awake, TypeOK, StatusReached, Reached
<1>4. CASE ~(dropped /\ t >= Grace) /\ ~(~dropped /\ got.reverted) /\ ~reached
  BY <1>4 DEF Answer, Awake, TimedOut
<1> QED BY <1>1, <1>2, <1>3, <1>4

LEMMA TypedOK == ASSUME Typed PROVE TypeOK
  BY DEF Typed, TypeOK, Flags, Calls, Counts, Receipts, Working, Failures, Final

LEMMA FlagsStep == ASSUME Flags, [Next]_vars PROVE Flags'
<1> USE DEF Flags
<1>1. CASE Prove \/ Submit \/ ReadBlock \/ GetTxReceipt \/ WaitForTxProven
  BY Zenon, <1>1 DEF Prove, Submit, ReadBlock, GetTxReceipt, WaitForTxProven, Go, End, node, ghosts
<1>2. ASSUME NEW a \in {"accept", "invalid", "lag", "error"}, ValidateTx(a) PROVE Flags'
  BY Zenon, <1>2 DEF ValidateTx, Go, Again, End, node, ghosts
<1>3. CASE Answer
  BY Zenon, <1>3 DEF Answer, Reached, TimedOut, Go, Again, End, node, ghosts
<1>4. CASE AwaitNewBlock \/ GetTxEffect \/ AwaitTree
  BY Zenon, <1>4 DEF AwaitNewBlock, GetTxEffect, AwaitTree, Go, Again, End, node
<1>5. CASE Tick
  BY Zenon, <1>5 DEF Tick, node
<1>6. CASE Node
  BY Zenon, <1>6 DEF Node, Accept, Drop, Include, Prune, Advance, UpdateTree, OtherBlock, Unchanging, Unincluded
<1>7. CASE UNCHANGED vars
  BY Zenon, <1>7 DEF vars, node, ghosts
<1> QED BY Zenon, <1>1, <1>2, <1>3, <1>4, <1>5, <1>6, <1>7 DEF Next, Wallet

LEMMA CallsStep == ASSUME Calls, [Next]_vars PROVE Calls'
<1> USE DEF Calls, Working, Failures
<1>1. CASE Prove \/ Submit \/ ReadBlock \/ GetTxReceipt
  BY <1>1 DEF Prove, Submit, ReadBlock, GetTxReceipt, Awake, Go, End
<1>2. ASSUME NEW a \in {"accept", "invalid", "lag", "error"}, ValidateTx(a) PROVE Calls'
  BY Zenon, <1>2 DEF ValidateTx, Awake, Go, Again, End
<1>3. CASE Answer
  BY <1>3 DEF Answer, Awake, Reached, TimedOut, Go, Again, End
<1>4. CASE AwaitNewBlock \/ GetTxEffect \/ AwaitTree
  BY <1>4 DEF AwaitNewBlock, GetTxEffect, AwaitTree, Awake, Go, Again, End
<1>5. CASE WaitForTxProven
  BY <1>5 DEF WaitForTxProven, Go
<1>6. CASE Tick \/ Node
  BY <1>6 DEF Tick, Node, Accept, Drop, Include, Prune, Advance, UpdateTree, OtherBlock, Unchanging
<1>7. CASE UNCHANGED vars
  BY <1>7 DEF vars
<1> QED BY Zenon, <1>1, <1>2, <1>3, <1>4, <1>5, <1>6, <1>7 DEF Next, Wallet

(* The wallet leaves the node alone but for sending the transaction. *)
LEMMA WalletKeeps ==
  ASSUME Wallet \/ WaitForTxProven \/ Tick
  PROVE  /\ UNCHANGED <<reverted, blocks, tree>>
         /\ UNCHANGED status \/ (pc = "submit" /\ Submit /\ status' \in {"unsent", "unknown", "pending"})
<1>1. CASE Submit
  BY Zenon, <1>1 DEF Submit, Awake
<1>2. ASSUME NEW a \in {"accept", "invalid", "lag", "error"}, ValidateTx(a) PROVE UNCHANGED <<status, reverted, blocks, tree>>
  BY Zenon, <1>2 DEF ValidateTx, node
<1>3. ASSUME Prove \/ ReadBlock \/ GetTxReceipt \/ Answer \/ AwaitNewBlock \/ GetTxEffect \/ AwaitTree \/ WaitForTxProven \/ Tick
      PROVE  UNCHANGED <<status, reverted, blocks, tree>>
  BY Zenon, <1>3 DEF Prove, ReadBlock, GetTxReceipt, Answer, AwaitNewBlock, GetTxEffect, AwaitTree, WaitForTxProven, Tick, node
<1> QED BY Zenon, <1>1, <1>2, <1>3 DEF Wallet

LEMMA CountsStep == ASSUME Bounds, Counts, Placed, [Next]_vars PROVE Counts'
<1>c. Cap \in Nat /\ 0 \in 0..Cap /\ MaxBlocks \in Nat /\ 0 \in 0..MaxBlocks
  BY DEF Bounds, Cap
<1>1. ASSUME Wallet \/ WaitForTxProven \/ Tick PROVE Counts'
  <2>1. t' \in {t, 0} \/ (t < Cap /\ t' = t + 1)
    BY Zenon, <1>1 DEF Wallet, Prove, ValidateTx, Submit, ReadBlock, GetTxReceipt, Answer, AwaitNewBlock, GetTxEffect, AwaitTree,
       WaitForTxProven, Tick, Reached, TimedOut, Go, Again, End
  <2>2. startBlock' \in {startBlock, blocks, 0}
    BY Zenon, <1>1 DEF Wallet, Prove, ValidateTx, Submit, ReadBlock, GetTxReceipt, Answer, AwaitNewBlock, GetTxEffect, AwaitTree,
       WaitForTxProven, Tick
  <2>3. status' \in Status /\ (Ordinal[status'] >= 2 => Ordinal[status] >= 2) /\ UNCHANGED blocks
    BY <1>1, WalletKeeps, Ordinals DEF Counts, Placed, Status
  <2> QED BY <1>c, <2>1, <2>2, <2>3 DEF Counts
<1>2. CASE Node
  <2>0. UNCHANGED <<startBlock, t>>
    BY Zenon, <1>2 DEF Node, Accept, Drop, Include, Prune, Advance, UpdateTree, OtherBlock, Unchanging
  <2>1. CASE Accept \/ Drop \/ UpdateTree \/ OtherBlock
    BY <1>c, <2>0, <2>1, Ordinals DEF Counts, Accept, Drop, UpdateTree, OtherBlock, Unincluded, Status
  <2>2. CASE Include \/ Prune
    BY <1>c, <2>0, <2>2, Ordinals DEF Counts, Include, Prune, Status
  <2>3. CASE Advance
    BY <1>c, <2>0, <2>3, Ordinals DEF Counts, Advance, Unincluded, Status
  <2> QED BY <1>2, <2>1, <2>2, <2>3 DEF Node
<1>3. CASE UNCHANGED vars
  BY <1>3 DEF vars, node, Counts
<1> QED BY Zenon, <1>1, <1>2, <1>3 DEF Next

(* A receipt is what the node had when it was asked. *)
LEMMA ReceiptStep ==
  ASSUME [Next]_vars
  PROVE  \/ UNCHANGED got \/ got' = Nothing
         \/ GetTxReceipt /\ got' = [status |-> status, reverted |-> reverted] /\ UNCHANGED node
<1>1. CASE GetTxReceipt
  BY Zenon, <1>1 DEF GetTxReceipt
<1>2. CASE Wallet \/ WaitForTxProven \/ Tick
  BY Zenon, <1>1, <1>2 DEF Wallet, Prove, ValidateTx, Submit, ReadBlock, Answer, AwaitNewBlock, GetTxEffect, AwaitTree, WaitForTxProven, Tick
<1>3. CASE Node
  BY Zenon, <1>3 DEF Node, Accept, Drop, Include, Prune, Advance, UpdateTree, OtherBlock, Unchanging
<1>4. CASE UNCHANGED vars
  BY Zenon, <1>4 DEF vars
<1> QED BY Zenon, <1>2, <1>3, <1>4 DEF Next

LEMMA PlacedStep == ASSUME Calls, Placed, [Next]_vars PROVE Placed'
<1> USE DEF Placed
<1>1. CASE Prove \/ Submit \/ ReadBlock \/ GetTxReceipt
  BY <1>1 DEF Prove, Submit, ReadBlock, GetTxReceipt, Awake, Go, End, node, Final, Calls
<1>2. ASSUME NEW a \in {"accept", "invalid", "lag", "error"}, ValidateTx(a) PROVE Placed'
  BY Zenon, <1>2 DEF ValidateTx, Awake, Go, Again, End, node, Final
<1>3. CASE Answer
  BY <1>3 DEF Answer, Awake, Reached, TimedOut, Go, Again, End, node, Final, Calls
<1>4. CASE AwaitNewBlock \/ GetTxEffect \/ AwaitTree
  BY <1>4 DEF AwaitNewBlock, GetTxEffect, AwaitTree, Awake, Go, Again, End, node, Final
<1>5. CASE WaitForTxProven
  BY <1>5 DEF WaitForTxProven, Go, node
<1>6. CASE Tick
  BY <1>6 DEF Tick, node
<1>7. CASE Node
  BY <1>7, Ordinals DEF Node, Accept, Drop, Include, Prune, Advance, UpdateTree, OtherBlock, Unchanging
<1>8. CASE UNCHANGED vars
  BY <1>8 DEF vars, node
<1> QED BY Zenon, <1>1, <1>2, <1>3, <1>4, <1>5, <1>6, <1>7, <1>8 DEF Next, Wallet

(* The node never goes back behind a checkpoint, nor makes a dropped         *)
(* transaction live.                                                         *)
LEMMA NodeForward ==
  ASSUME Counts, Placed, Next
  PROVE  /\ Ordinal[status] \in 0..5 /\ Ordinal[status'] \in 0..5
         /\ Ordinal[status] >= 3 => Ordinal[status'] >= Ordinal[status] /\ UNCHANGED reverted /\ (tree => tree')
         /\ status = "dropped" => status' = "dropped"
         /\ status = "unknown" => status' = "unknown" \/ Accept
<1>1. CASE Wallet \/ WaitForTxProven \/ Tick
  BY <1>1, WalletKeeps, Ordinals DEF Counts, Placed, Status
<1>2. CASE Node
  BY <1>2, Ordinals DEF Node, Accept, Drop, Include, Prune, Advance, UpdateTree, OtherBlock, Unincluded, Counts, Status
<1> QED BY <1>1, <1>2 DEF Next

LEMMA SnapshotStep ==
  ASSUME Bounds, Typed, Placed, Snapshot, [Next]_vars
  PROVE  Receipts' /\ Snapshot'
<1>1. CASE got' = Nothing
  BY <1>1 DEF Receipts, Snapshot, Nothing
<1>2. CASE GetTxReceipt /\ got' = [status |-> status, reverted |-> reverted] /\ UNCHANGED node
  <2>1. status \in Status /\ reverted \in BOOLEAN /\ status # "unsent" /\ UNCHANGED <<status, reverted>>
    BY Zenon, <1>2 DEF Typed, Flags, Counts, Placed, GetTxReceipt, Awake, node
  <2>2. got'.status = status /\ got'.reverted = reverted
    BY <1>2
  <2>3. Receipts'
    BY <1>2, <2>1 DEF Receipts
  <2>4. Ordinal[status] \in 0..5
    BY <2>1, Ordinals DEF Status
  <2> QED BY <2>1, <2>2, <2>3, <2>4 DEF Snapshot
<1>3. CASE UNCHANGED got /\ Next
  <2>1. Receipts'
    BY <1>3 DEF Typed, Receipts
  <2>2. /\ got'.status # "unsent"
        /\ got'.status # "error" /\ Ordinal[got'.status] >= 3 =>
              Ordinal[status'] >= Ordinal[got'.status] /\ reverted' = got'.reverted
        /\ got'.status = "dropped" => status' = "dropped"
    <3>1. got.status # "error" => Ordinal[got.status] \in 0..5
      BY Ordinals DEF Typed, Receipts, Status
    <3> QED BY <1>3, <3>1, NodeForward DEF Typed, Snapshot
  <2>3. ASSUME got.status = "unknown", ~raced', t' >= Grace PROVE status' = "unknown"
    <3>1. pc = "answer"
      BY <2>3 DEF Placed, Nothing
    <3>2. ~Tick
      BY Zenon, <2>3, <3>1 DEF Tick
    <3>3. ~raced
      <4>1. CASE Wallet \/ WaitForTxProven
        BY Zenon, <2>3, <4>1 DEF Wallet, Prove, ValidateTx, Submit, ReadBlock, GetTxReceipt, Answer, AwaitNewBlock, GetTxEffect,
           AwaitTree, WaitForTxProven, ghosts
      <4>2. CASE Node
        BY Zenon, <2>3, <4>2 DEF Node, Accept, Drop, Include, Prune, Advance, UpdateTree, OtherBlock
      <4> QED BY Zenon, <1>3, <3>2, <4>1, <4>2 DEF Next
    <3>4. UNCHANGED t \/ Answer
      <4>1. CASE Wallet \/ WaitForTxProven
        BY <3>1, <4>1 DEF Wallet, Prove, ValidateTx, Submit, ReadBlock, GetTxReceipt, AwaitNewBlock, GetTxEffect,
           AwaitTree, WaitForTxProven, Awake
      <4>2. CASE Node
        BY Zenon, <4>2 DEF Node, Accept, Drop, Include, Prune, Advance, UpdateTree, OtherBlock, Unchanging
      <4> QED BY Zenon, <1>3, <3>2, <4>1, <4>2 DEF Next
    <3>5. ~Answer
      BY <1>3, <2>3 DEF Answer, Nothing
    <3>6. status = "unknown"
      BY <2>3, <3>3, <3>4, <3>5 DEF Snapshot
    <3>7. ~Accept
      BY Zenon, <2>3, <3>1, <3>4, <3>5 DEF Accept, Final
    <3> QED BY <1>3, <3>6, <3>7, NodeForward DEF Typed
  <2> QED BY <1>3, <2>1, <2>2, <2>3 DEF Snapshot
<1>4. CASE UNCHANGED vars
  BY <1>4 DEF vars, node, ghosts, Typed, Receipts, Snapshot
<1> QED BY Zenon, <1>1, <1>2, <1>3, <1>4, ReceiptStep

LEMMA ConfirmedStep ==
  ASSUME Typed, Placed, Snapshot, Confirmed, Next
  PROVE  Confirmed'
<1>t. TypeOK
  BY TypedOK
<1>f. /\ Ordinal[status] \in 0..5 /\ Ordinal[status'] \in 0..5
      /\ Ordinal[status] >= 3 => Ordinal[status'] >= Ordinal[status] /\ reverted' = reverted /\ (tree => tree')
  BY NodeForward DEF Typed
<1>1. ASSUME UNCHANGED <<pc, target, fellBack, blind>> PROVE Confirmed'
  BY <1>1, <1>f DEF Confirmed
<1>2. CASE Prove \/ Submit \/ ReadBlock \/ GetTxReceipt
  BY <1>2, <1>f DEF Prove, Submit, ReadBlock, GetTxReceipt, Awake, Go, End, ghosts, Placed, Confirmed, Final
<1>3. ASSUME NEW a \in {"accept", "invalid", "lag", "error"}, ValidateTx(a) PROVE Confirmed'
  <2>1. target' = "checkpointed" /\ pc' \in {"validate", "submit", "failed"}
    BY Zenon, <1>3 DEF ValidateTx, Awake, Go, Again, End, Placed, Final, Typed, Calls
  <2> QED BY <2>1 DEF Confirmed
<1>4. CASE Answer
  <2>1. /\ pc = "answer" /\ UNCHANGED <<node, target, ghosts>>
        /\ \/ pc' \in {"failed", "newblock", "ask"}
           \/ /\ got.status \in Status /\ ~got.reverted /\ Ordinal[got.status] >= Ordinal[target]
              /\ pc' = IF target = "checkpointed" THEN "effect" ELSE "ok"
    BY Zenon, <1>4, <1>t, AnswerIs DEF Go, End, Again
  <2>2. got.status \in Status => Ordinal[got.status] \in 0..5 /\ got.status # "error"
    BY Ordinals DEF Status
  <2>3. UNCHANGED <<status, reverted, tree, target, fellBack, blind>>
    BY <2>1 DEF node, ghosts
  <2>4. CASE pc' \in {"failed", "newblock", "ask"}
    BY <2>3, <2>4 DEF Confirmed
  <2>5. CASE pc' \in {"effect", "ok"} /\ got.status \in Status /\ ~got.reverted /\ Ordinal[got.status] >= Ordinal[target]
             /\ pc' = IF target = "checkpointed" THEN "effect" ELSE "ok"
    <3>1. target \in {"checkpointed", "proven"} /\ Ordinal["checkpointed"] = 3 /\ Ordinal["proven"] = 4
      BY Ordinals DEF Typed, Calls
    <3>2. Ordinal[status] >= Ordinal[target] /\ Ordinal[status] >= 3 /\ ~reverted
      BY <1>f, <2>2, <2>5, <3>1 DEF Snapshot
    <3> QED BY <2>3, <2>5, <3>1, <3>2 DEF Confirmed
  <2> QED BY <2>1, <2>4, <2>5
<1>5. CASE AwaitNewBlock \/ GetTxEffect \/ AwaitTree
  <2>1. target = "checkpointed" /\ pc \in {"newblock", "effect", "tree"} /\ UNCHANGED <<status, reverted, tree, target>>
    BY Zenon, <1>5 DEF AwaitNewBlock, GetTxEffect, AwaitTree, Awake, node, Placed, Typed, Calls, Final
  <2>2. \/ pc' \in {"failed", "newblock"}
        \/ pc' = "effect" /\ fellBack'
        \/ pc' = "tree" /\ pc \in {"effect", "tree"} /\ UNCHANGED fellBack
        \/ pc' = "ok" /\ pc \in {"effect", "tree"} /\ UNCHANGED fellBack /\ (blind' \/ tree)
    BY Zenon, <1>5 DEF AwaitNewBlock, GetTxEffect, AwaitTree, Awake, Go, Again, End
  <2> QED BY <2>1, <2>2 DEF Confirmed
<1>6. CASE WaitForTxProven
  BY <1>6 DEF WaitForTxProven, Go, node, ghosts, Confirmed
<1>7. CASE Tick \/ Node
  BY Zenon, <1>1, <1>7 DEF Tick, Node, Accept, Drop, Include, Prune, Advance, UpdateTree, OtherBlock, Unchanging
<1> QED BY Zenon, <1>2, <1>3, <1>4, <1>5, <1>6, <1>7 DEF Next, Wallet

LEMMA DroppedStep ==
  ASSUME Typed, Placed, Snapshot, DroppedMeansDropped, Next
  PROVE  DroppedMeansDropped'
<1> SUFFICES ASSUME result' = "dropped", ~raced' PROVE status' \in {"dropped", "unknown"}
  BY DEF DroppedMeansDropped
<1>t. TypeOK
  BY TypedOK
<1>1. CASE Answer
  <2>1. got.status \in NotThere /\ t >= Grace /\ UNCHANGED <<status, raced>>
    BY <1>1, <1>t, AnswerIs DEF Go, End, Again, node, ghosts, Typed, Calls
  <2> QED BY <2>1 DEF NotThere, Snapshot
<1>2. CASE Wallet /\ ~Answer
  BY <1>2 DEF Wallet, Prove, ValidateTx, Submit, ReadBlock, GetTxReceipt, AwaitNewBlock, GetTxEffect, AwaitTree, Awake, Go, Again,
     End, Typed, Calls
<1>3. CASE WaitForTxProven
  BY <1>3 DEF WaitForTxProven, Go
<1>4. CASE Tick
  BY <1>4 DEF Tick, Typed, Calls, Final, Failures, Working
<1>5. CASE Node
  <2>0. UNCHANGED result
    BY Zenon, <1>5 DEF Node, Accept, Drop, Include, Prune, Advance, UpdateTree, OtherBlock, Unchanging
  <2>1. result = "dropped" /\ pc = "failed"
    BY <2>0 DEF Typed, Calls
  <2>2. ~raced /\ ~Accept
    <3>1. ~Accept
      BY Zenon, <2>1 DEF Accept, Final
    <3>2. UNCHANGED raced
      BY Zenon, <1>5, <3>1 DEF Node, Drop, Include, Prune, Advance, UpdateTree, OtherBlock
    <3> QED BY <3>1, <3>2
  <2>3. status \in {"dropped", "unknown"}
    BY <2>1, <2>2 DEF DroppedMeansDropped
  <2> QED BY <2>2, <2>3, NodeForward DEF Typed
<1> QED BY Zenon, <1>1, <1>2, <1>3, <1>4, <1>5 DEF Next

LEMMA TxInit == ASSUME Bounds, Init PROVE TxInv
<1>1. Flags /\ Calls
  BY Zenon DEF Init, Flags, Calls
<1>2. Counts
  BY Ordinals DEF Bounds, Init, Counts, Status, Cap
<1>3. Receipts /\ Snapshot
  BY DEF Init, Receipts, Snapshot, Nothing
<1>4. Placed /\ Confirmed /\ DroppedMeansDropped
  BY DEF Init, Placed, Confirmed, DroppedMeansDropped
<1> QED BY Zenon, <1>1, <1>2, <1>3, <1>4 DEF TxInv, Typed

LEMMA TxStep == ASSUME Bounds, TxInv, [Next]_vars PROVE TxInv'
<1>1. Typed' /\ Placed' /\ Snapshot'
  BY FlagsStep, CallsStep, CountsStep, PlacedStep, SnapshotStep DEF TxInv, Typed
<1>2. CASE Next
  BY <1>1, <1>2, ConfirmedStep, DroppedStep DEF TxInv
<1>3. CASE UNCHANGED vars
  <2>1. Confirmed' /\ DroppedMeansDropped'
    BY Zenon, <1>3 DEF vars, node, ghosts, TxInv, Confirmed, DroppedMeansDropped
  <2> QED BY <1>1, <2>1 DEF TxInv
<1> QED BY <1>2, <1>3

(* Every reachable state of a submission is of its type. *)
THEOREM TypeCorrect == ASSUME Bounds PROVE Spec => []TypeOK
<1>1. TxInv => TypeOK
  BY TypedOK DEF TxInv
<1> QED BY <1>1, TxInit, TxStep, PTL DEF Spec

(* An Ok of send_tx that rests on a receipt means that the transaction is     *)
(* checkpointed, did not revert and is in the trees, unless the wait for them *)
(* was given up, and an Ok of wait_for_tx_proven that it is proven; an error  *)
(* that it was dropped is right unless the mempool or an answer took longer   *)
(* than the grace period: whatever the deadlines, however late the answers,   *)
(* and whatever the node does in the meantime (wait_for_tx).                  *)
THEOREM OutcomesAreTrue == ASSUME Bounds PROVE Spec => []OutcomesTrue
<1>1. TxInv => OkMeansReached
  <2> SUFFICES ASSUME TxInv, pc = "ok"
               PROVE  /\ \/ fellBack /\ target = "checkpointed"
                         \/ Ordinal[status] >= Ordinal[target] /\ ~reverted
                      /\ fellBack \/ blind \/ tree
    BY DEF OkMeansReached
  <2>1. target \in {"checkpointed", "proven"} /\ Ordinal["checkpointed"] = 3 /\ Ordinal["proven"] = 4
    BY Ordinals DEF TxInv, Typed, Calls
  <2> QED BY <2>1 DEF TxInv, Confirmed
<1>2. TxInv => DroppedMeansDropped
  BY DEF TxInv
<1>3. TxInv => OutcomesTrue
  BY <1>1, <1>2, Zenon DEF OutcomesTrue
<1> QED BY <1>3, TxInit, TxStep, PTL DEF Spec

-----------------------------------------------------------------------------
(* NodeClient. *)
CONSTANTS ReceiptBlock, MaxFaults
VARIABLES up, proven, taken, op, try, elapsed, rewritten, lost, faults
Client == INSTANCE NodeClient

(* A timeout and a block number are positive.                            *)
ClientBounds == Timeout \in Nat \ {0} /\ ReceiptBlock \in Nat \ {0} /\ MaxFaults \in Nat

(* What a call in progress has of its own. *)
InCall ==
    /\ op \in Client!Ops \union {"none"} /\ try \in 0..2
    /\ elapsed \in Nat /\ elapsed < Timeout
    /\ op # "none" <=> try > 0

(* What a call may return.                                               *)
Results == {Client!NoResult, Client!RpcError, Client!InvalidData, Client!Transport, Client!TimedOut} \union {Client!Ok(v) : v \in 0..ReceiptBlock}

ClientInv == Client!TypeOK /\ InCall
-----------------------------------------------------------------------------
(* The reading of a body is an answer of its method. *)
LEMMA ReadsResult ==
  ASSUME ClientBounds, proven \in 0..ReceiptBlock, op \in Client!Ops, NEW a \in Client!Answers
  PROVE  Client!Reads(a.body) \in Results
<1> USE DEF Results
<1>1. CASE op = "send_tx"
  BY <1>1 DEF Client!Answers, Client!Reads, Client!send_tx, Client!call_void, Client!ErrorBody, Client!Bare, ClientBounds
<1>2. CASE op = "get_contract"
  BY <1>2 DEF Client!Answers, Client!Reads, Client!get_contract, Client!call_optional, Client!ErrorBody, Client!Bare, Client!Value, ClientBounds
<1>3. CASE op = "wait_for_node"
  BY <1>3 DEF Client!Answers, Client!Reads, Client!get_node_info, Client!call, Client!ErrorBody, Client!Bare, Client!Value, ClientBounds
<1>4. CASE op = "wait_for_proven"
  BY <1>4 DEF Client!Answers, Client!Reads, Client!get_proven_block_number, Client!call, Client!ErrorBody, Client!Bare, Client!Value, ClientBounds
<1> QED BY <1>1, <1>2, <1>3, <1>4 DEF Client!Ops

(* The node keeps its pool two-valued. *)
LEMMA AnswerTaken ==
  ASSUME op \in Client!Ops, taken \in BOOLEAN, NEW a \in Client!Answers
  PROVE  a.taken \in BOOLEAN
<1>1. CASE op = "send_tx"
  <2>1. a = [body |-> Client!Bare("null"), taken |-> TRUE] \/ a = [body |-> Client!ErrorBody, taken |-> taken]
    BY <1>1 DEF Client!Answers
  <2>2. a.taken = TRUE \/ a.taken = taken
    BY <2>1
  <2> QED BY <2>2, Zenon
<1>2. CASE op \in {"get_contract", "wait_for_node", "wait_for_proven"}
  <2>1. \E b : a = [body |-> b, taken |-> taken]
    BY <1>2 DEF Client!Answers
  <2>2. a.taken = taken
    BY <2>1
  <2> QED BY <2>2, Zenon
<1> QED BY <1>1, <1>2, Zenon DEF Client!Ops

(* A call that ends, sleeps or sends once more. *)
LEMMA FinishRunning ==
  ASSUME ClientBounds, InCall, result \in Results, op \in Client!Ops, NEW r \in Results, Client!Finish(r)
  PROVE  InCall' /\ result' \in Results
<1>1. CASE Client!Return(r) \/ Client!Return(Client!TimedOut)
  BY <1>1 DEF Client!Return, InCall, Results, ClientBounds, Client!Ops
<1>2. CASE Client!Sleep /\ elapsed + 1 < Timeout
  BY <1>2 DEF Client!Sleep, InCall, ClientBounds, Client!Ops
<1>3. Client!Return(r) \/ Client!Return(Client!TimedOut) \/ (Client!Sleep /\ elapsed + 1 < Timeout)
  BY DEF Client!Finish, Client!wait_for_node_opts, Client!wait_for_proven, InCall, ClientBounds
<1> QED BY <1>1, <1>2, <1>3

LEMMA FailsRunning ==
  ASSUME ClientBounds, InCall, result \in Results, op \in Client!Ops, NEW b \in BOOLEAN, Client!Fails(b)
  PROVE  InCall' /\ result' \in Results
<1>1. CASE b /\ try = 1
  BY <1>1 DEF Client!Fails, InCall
<1>2. CASE ~(b /\ try = 1)
  BY <1>2, FinishRunning DEF Client!Fails, Results
<1> QED BY <1>1, <1>2

(* One case per action.                                                  *)
LEMMA ClientStep ==
  ASSUME ClientBounds, ClientInv, [Client!Next]_(Client!vars)
  PROVE  ClientInv'
<1> USE DEF ClientInv
<1>1. result \in Results /\ InCall
  BY DEF Client!TypeOK, Results
<1>2. ASSUME NEW o \in Client!Ops, Client!Begin(o) PROVE ClientInv'
  <2>1. InCall'
    BY <1>2 DEF Client!Begin, InCall, Client!Ops, ClientBounds
  <2>2. UNCHANGED <<up, proven, taken, rewritten, faults>> /\ result' = Client!NoResult /\ lost' = FALSE
    BY <1>2 DEF Client!Begin, Client!node
  <2>3. op' \in Client!Ops \union {"none"} /\ try' \in 0..2 /\ elapsed' \in 0..Timeout
    BY <2>1 DEF InCall, ClientBounds
  <2>4. Client!TypeOK'
    BY <2>2, <2>3, Zenon DEF Client!TypeOK
  <2> QED BY <2>1, <2>4
<1>3. ASSUME Client!Answered PROVE ClientInv'
  <2>1. op \in Client!Ops
    BY <1>1, <1>3 DEF Client!Answered, InCall
  <2>2. PICK a \in Client!Answers : taken' = a.taken /\ Client!Finish(Client!Reads(a.body))
    BY <1>3 DEF Client!Answered
  <2>3. Client!Reads(a.body) \in Results /\ taken' \in BOOLEAN
    BY <2>1, <2>2, ReadsResult, AnswerTaken DEF Client!TypeOK
  <2>4. InCall' /\ result' \in Results
    BY <1>1, <2>1, <2>2, <2>3, FinishRunning
  <2>5. UNCHANGED <<up, proven, rewritten, lost, faults>>
    BY <1>3 DEF Client!Answered
  <2>6. Client!TypeOK'
    BY <2>3, <2>4, <2>5 DEF Client!TypeOK, InCall, Results, ClientBounds
  <2> QED BY <2>4, <2>6
<1>4. ASSUME Client!NotDelivered PROVE ClientInv'
  <2>1. op \in Client!Ops
    BY <1>1, <1>4 DEF Client!NotDelivered, InCall
  <2>2. InCall' /\ result' \in Results
    BY Zenon, <1>1, <1>4, <2>1, FailsRunning DEF Client!NotDelivered
  <2>3. UNCHANGED <<up, proven, taken, rewritten, lost>> /\ faults' \in 0..MaxFaults
    BY <1>4 DEF Client!NotDelivered, Client!node, Client!TypeOK, ClientBounds
  <2>4. Client!TypeOK'
    BY <2>2, <2>3 DEF Client!TypeOK, InCall, Results, ClientBounds
  <2> QED BY <2>2, <2>4
<1>5. ASSUME NEW b \in BOOLEAN, Client!AnswerLost(b) PROVE ClientInv'
  <2>1. op \in Client!Ops
    BY <1>1, <1>5 DEF Client!AnswerLost, InCall
  <2>2. InCall' /\ result' \in Results
    BY <1>1, <1>5, <2>1, FailsRunning DEF Client!AnswerLost
  <2>3. taken' \in BOOLEAN
    BY <1>5, <2>1, AnswerTaken DEF Client!AnswerLost, Client!TypeOK
  <2>4. UNCHANGED <<up, proven, rewritten>> /\ lost' = TRUE /\ faults' \in 0..MaxFaults
    BY <1>5 DEF Client!AnswerLost, Client!TypeOK, ClientBounds
  <2>5. Client!TypeOK'
    BY <2>2, <2>3, <2>4 DEF Client!TypeOK, InCall, Results, ClientBounds
  <2> QED BY <2>2, <2>5
<1>6. ASSUME Client!Prove \/ Client!Toggle \/ Client!PruneNode \/ UNCHANGED Client!vars PROVE ClientInv'
  <2>1. UNCHANGED <<op, try, elapsed, result, taken, lost>>
    BY <1>6 DEF Client!Prove, Client!Toggle, Client!PruneNode, Client!node, Client!vars
  <2>2. InCall'
    BY <2>1, Zenon DEF InCall
  <2>3. up' \in BOOLEAN /\ rewritten' \in BOOLEAN
    BY <1>6, Zenon DEF Client!Prove, Client!Toggle, Client!PruneNode, Client!node, Client!vars, Client!TypeOK
  <2>4. proven' \in 0..ReceiptBlock /\ faults' \in 0..MaxFaults
    BY <1>6 DEF Client!Prove, Client!Toggle, Client!PruneNode, Client!node, Client!vars, Client!TypeOK, ClientBounds
  <2>5. Client!TypeOK'
    BY <2>1, <2>3, <2>4, Zenon DEF Client!TypeOK
  <2> QED BY <2>2, <2>5
<1> QED BY <1>2, <1>3, <1>4, <1>5, <1>6 DEF Client!Next, Client!Client

(* Every variable keeps its type: the two attempts of send_json, the     *)
(* time a wait has spent, the answers the callers get.                   *)
THEOREM ClientTypeCorrect ==
  ASSUME ClientBounds
  PROVE  Client!Spec => []Client!TypeOK
<1>1. Client!Init => ClientInv
  <2> SUFFICES ASSUME Client!Init PROVE ClientInv
    OBVIOUS
  <2>1. InCall
    BY DEF Client!Init, InCall, ClientBounds
  <2>2. proven \in 0..ReceiptBlock /\ elapsed \in 0..Timeout /\ faults \in 0..MaxFaults
    BY DEF Client!Init, ClientBounds
  <2>3. Client!TypeOK
    BY <2>1, <2>2, Zenon DEF Client!Init, Client!TypeOK, InCall
  <2> QED BY <2>1, <2>3 DEF ClientInv
<1>2. ClientInv /\ [Client!Next]_(Client!vars) => ClientInv'
  BY ClientStep
<1>3. ClientInv => Client!TypeOK
  BY DEF ClientInv
<1> QED BY <1>1, <1>2, <1>3, PTL DEF Client!Spec

(* The step that ends send_tx: the answer is read in the step that ends  *)
(* the call, whichever attempt it is.                                    *)
LEMMA SubmitStep ==
  ASSUME [Client!Next]_(Client!vars)
  PROVE  Client!SubmitToldStep
<1> SUFFICES ASSUME op = "send_tx", op' = "none"
             PROVE  /\ result'.is = "ok" => taken'
                    /\ result'.is = "rpc" /\ ~lost' => taken' = taken
  BY DEF Client!SubmitToldStep
<1>1. CASE Client!Answered
  <2>1. PICK a \in Client!Answers : taken' = a.taken /\ Client!Finish(Client!Reads(a.body))
    BY <1>1 DEF Client!Answered
  <2>2. result' = Client!Reads(a.body) /\ Client!Reads(a.body) = Client!call_void(a.body)
    BY <2>1 DEF Client!Finish, Client!Return, Client!Reads, Client!send_tx
  <2>3. CASE a = [body |-> Client!Bare("null"), taken |-> TRUE]
    BY <2>1, <2>2, <2>3 DEF Client!call_void, Client!Bare, Client!Ok
  <2>4. CASE a = [body |-> Client!ErrorBody, taken |-> taken]
    <3>1. a.body = Client!ErrorBody /\ a.taken = taken
      BY <2>4
    <3>2. result' = Client!RpcError
      BY <2>2, <3>1 DEF Client!call_void, Client!ErrorBody
    <3>3. result'.is = "rpc"
      BY <3>2 DEF Client!RpcError
    <3> QED BY <2>1, <3>1, <3>3
  <2>5. Client!Answers = {[body |-> Client!Bare("null"), taken |-> TRUE], [body |-> Client!ErrorBody, taken |-> taken]}
    BY DEF Client!Answers
  <2> QED BY <2>1, <2>3, <2>4, <2>5
<1>2. CASE Client!NotDelivered \/ \E b \in BOOLEAN : Client!AnswerLost(b)
  <2>1. PICK b \in BOOLEAN : Client!Fails(b)
    BY <1>2, Zenon DEF Client!NotDelivered, Client!AnswerLost
  <2>2. result' = Client!Transport
    BY <2>1 DEF Client!Fails, Client!Finish, Client!Return
  <2> QED BY <2>2 DEF Client!Transport
<1>3. op' # op
  OBVIOUS
<1>4. ~(\E o \in Client!Ops : Client!Begin(o)) /\ ~Client!Prove /\ ~Client!Toggle /\ ~Client!PruneNode /\ ~UNCHANGED Client!vars
  BY <1>3 DEF Client!Begin, Client!Prove, Client!Toggle, Client!PruneNode, Client!vars
<1> QED BY <1>1, <1>2, <1>4 DEF Client!Next, Client!Client

(* A caller of send_tx that is told Ok has its transaction with the      *)
(* node, and after an RPC error the node did not take it in this call,   *)
(* unless an attempt was delivered and its answer lost                   *)
(* (RpcTransport::send_json sends once more, call_void reads the body).  *)
(* No assumption on the constants.                                       *)
THEOREM SubmitIsTold == Client!Spec => Client!SubmitTold
<1>1. [Client!Next]_(Client!vars) => [Client!SubmitToldStep]_(Client!vars)
  BY SubmitStep
<1> QED BY <1>1, PTL DEF Client!Spec, Client!SubmitTold

-----------------------------------------------------------------------------
(* L1Bridge. *)
CONSTANTS Bridge, Message, MaxPolls
VARIABLES calls, mempool, receipts, balance, allowance, inbox
L1 == INSTANCE L1Bridge

(* The L1 transactions of a call, and those that may be sent at all.     *)
Own(c) == IF c \in Bridge THEN {"mint", "approve", "deposit"} ELSE {"message"}
Sent == {x \in L1!Call \X {"mint", "approve", "deposit", "message"} : x[2] \in Own(x[1])}

Shape(r) ==
    r = [pc |-> r.pc, polls |-> r.polls, step |-> r.step, index |-> r.index,
         checkpoint |-> r.checkpoint]

(* What the variables hold.                                              *)
Kinds ==
    /\ DOMAIN calls = L1!Call
    /\ \A c \in L1!Call : Shape(calls[c]) /\ calls[c].step \in 1..Len(L1!Steps(c))
    /\ mempool \in Seq(Sent) /\ DOMAIN receipts \subseteq Sent
    /\ inbox \in Seq([secret : L1!Call, checkpoint : Nat]) /\ blocks \in Seq(Nat)
    /\ balance \in Nat /\ allowance \in Nat /\ faults \in Nat

(* A message number that is c's own. *)
OwnMessage(c, n) == n \in 1..Len(inbox) /\ inbox[n].secret = c

(* A transaction that succeeded and that sends a message has the number of its
   own message in its receipt; only a deposit can fail. *)
Mining ==
    \A x \in DOMAIN receipts :
        /\ receipts[x].status = "0x1" /\ x[2] \in {"deposit", "message"} => OwnMessage(x[1], receipts[x].index)
        /\ receipts[x].status \in {"0x0", "0x1"} /\ (x[2] # "deposit" => receipts[x].status = "0x1")

(* What a call has read. *)
Claim(c) ==
    /\ calls[c].pc \in {"sent", "block", "ready"} => OwnMessage(c, calls[c].index)
    /\ calls[c].pc \in {"block", "ready"} => calls[c].checkpoint = inbox[calls[c].index].checkpoint
    /\ calls[c].pc = "ready" => Len(blocks) > 0 /\ calls[c].checkpoint <= Len(blocks)

Mined(c, s) == <<c, s>> \in DOMAIN receipts
Refused(c) == Mined(c, "deposit") /\ receipts[<<c, "deposit">>].status = "0x0"
Waits(c) == \E i \in DOMAIN mempool : mempool[i] = <<c, "deposit">>
Messaged(c) == \E i \in DOMAIN inbox : inbox[i].secret = c

(* A call's own transactions are mined in their order, its deposit once. *)
Early(c) == calls[c].pc \in {"mint", "approve", "deposit"} \/ (calls[c].pc = "receipt" /\ calls[c].step < 3)

Order(c) ==
    /\ Early(c) => ~Waits(c) /\ ~Mined(c, "deposit")
    /\ calls[c].pc = "approve" \/ (calls[c].pc = "receipt" /\ calls[c].step = 2) => Mined(c, "mint")
    /\ calls[c].pc = "deposit" \/ Waits(c) => Mined(c, "mint") /\ Mined(c, "approve")
    /\ Waits(c) => ~Mined(c, "deposit")
    /\ \A i, j \in DOMAIN mempool : mempool[i] = <<c, "deposit">> /\ mempool[j] = <<c, "deposit">> => i = j

(* The funds are there for a call that no other deposit came before. *)
Alone(c) == \A d \in Bridge \ {c} : ~Messaged(d)

Funds(c) ==
    /\ ~Mined(c, "deposit") \/ Refused(c) => ~Messaged(c)
    /\ Alone(c) /\ ~Mined(c, "deposit") =>
          (Mined(c, "mint") => balance > 0) /\ (Mined(c, "approve") => allowance > 0)
    /\ Alone(c) => ~Refused(c)

(* Without a fault a call fails only on a refused deposit.               *)
Failed(c) == calls[c].pc = "failed" /\ faults = 0 => c \in Bridge /\ Refused(c)

BridgeInv ==
    /\ Kinds /\ Mining
    /\ \A c \in L1!Call : Claim(c) /\ Failed(c)
    /\ \A c \in Bridge : Order(c) /\ Funds(c)
-----------------------------------------------------------------------------
(* What one step of a call does: the call's record after it, and the cases. *)
Turn(c, l, s, n, k) ==
    /\ DOMAIN calls' = L1!Call /\ \A d \in L1!Call \ {c} : calls'[d] = calls[d]
    /\ Shape(calls'[c]) /\ calls'[c].pc = l /\ calls'[c].step = s
    /\ calls'[c].index = n /\ calls'[c].checkpoint = k

Rest == UNCHANGED <<receipts, balance, allowance, inbox, blocks>>
Quiet == Rest /\ UNCHANGED <<mempool, faults>>

Sends(c) ==
    \E s \in DOMAIN L1!Steps(c) :
        /\ calls[c].pc = L1!Steps(c)[s] /\ Turn(c, "receipt", s, calls[c].index, calls[c].checkpoint)
        /\ mempool' = Append(mempool, <<c, L1!Steps(c)[s]>>) /\ Rest /\ faults' = faults

(* The receipt is there, and says the transaction failed, ... *)
Reverts(c) ==
    /\ calls[c].pc = "receipt" /\ L1!TxOf(c) \in DOMAIN receipts /\ receipts[L1!TxOf(c)].status # "0x1"
    /\ Turn(c, "failed", calls[c].step, calls[c].index, calls[c].checkpoint) /\ Quiet
(* ... or it succeeded and the next one is due, ... *)
Proceeds(c) ==
    /\ calls[c].pc = "receipt" /\ L1!TxOf(c) \in DOMAIN receipts /\ calls[c].step < Len(L1!Steps(c))
    /\ Turn(c, L1!Steps(c)[calls[c].step + 1], calls[c].step, calls[c].index, calls[c].checkpoint) /\ Quiet
(* ... or it was the last one. *)
Completes(c) ==
    /\ calls[c].pc = "receipt" /\ L1!TxOf(c) \in DOMAIN receipts /\ calls[c].step = Len(L1!Steps(c))
    /\ receipts[L1!TxOf(c)].status = "0x1"
    /\ Turn(c, "sent", calls[c].step, receipts[L1!TxOf(c)].index, calls[c].checkpoint) /\ Quiet
Lingers(c) ==
    /\ calls[c].pc = "receipt" /\ Quiet
    /\ \E l \in {"receipt", "timeout"} : Turn(c, l, calls[c].step, calls[c].index, calls[c].checkpoint)

Found(c) ==
    /\ calls[c].pc = "sent" /\ Quiet
    /\ Turn(c, "block", calls[c].step, calls[c].index, inbox[calls[c].index].checkpoint)
Ready(c) ==
    /\ calls[c].pc = "block" /\ Quiet /\ Len(blocks) > 0 /\ calls[c].checkpoint <= Len(blocks)
    /\ Turn(c, "ready", calls[c].step, calls[c].index, calls[c].checkpoint)
Unready(c) ==
    /\ calls[c].pc \in {"sent", "block"} /\ Quiet
    /\ \E l \in {"sent", "unready"} : Turn(c, l, calls[c].step, calls[c].index, calls[c].checkpoint)
Breaks(c) ==
    /\ Turn(c, "failed", calls[c].step, calls[c].index, calls[c].checkpoint)
    /\ Rest /\ mempool' = mempool /\ faults' = faults + 1

Acts(c) ==
    \/ Sends(c) \/ Reverts(c) \/ Proceeds(c) \/ Completes(c) \/ Lingers(c)
    \/ Found(c) \/ Ready(c) \/ Unready(c) \/ Breaks(c)

(* The transactions of a call.                                           *)
LEMMA StepsAre ==
  ASSUME NEW c
  PROVE  /\ c \in Bridge => Len(L1!Steps(c)) = 3 /\ DOMAIN L1!Steps(c) = 1..3
               /\ L1!Steps(c)[1] = "mint" /\ L1!Steps(c)[2] = "approve" /\ L1!Steps(c)[3] = "deposit"
         /\ c \notin Bridge => Len(L1!Steps(c)) = 1 /\ DOMAIN L1!Steps(c) = 1..1 /\ L1!Steps(c)[1] = "message"
<1>1. CASE c \in Bridge
  BY <1>1 DEF L1!Steps
<1>2. CASE c \notin Bridge
  BY <1>2 DEF L1!Steps
<1> QED BY <1>1, <1>2

(* A change of the call's place and of the time it has waited. *)
LEMMA GotoIs ==
  ASSUME Kinds, NEW c \in L1!Call, NEW l, NEW n,
         \/ calls' = [calls EXCEPT ![c].pc = l, ![c].polls = n]
         \/ calls' = [calls EXCEPT ![c].pc = l]
         \/ calls' = [calls EXCEPT ![c].polls = n] /\ l = calls[c].pc
  PROVE  Turn(c, l, calls[c].step, calls[c].index, calls[c].checkpoint)
<1>1. Shape(calls[c]) /\ DOMAIN calls = L1!Call
  BY DEF Kinds
<1> QED BY <1>1 DEF Turn, Shape

LEMMA SendActs ==
  ASSUME Kinds, NEW c \in L1!Call, L1!send_transaction(c)
  PROVE  Sends(c)
<1>1. PICK i \in DOMAIN L1!Steps(c) :
        /\ calls[c].pc = L1!Steps(c)[i]
        /\ mempool' = Append(mempool, <<c, L1!Steps(c)[i]>>)
        /\ calls' = [calls EXCEPT ![c].pc = "receipt", ![c].step = i, ![c].polls = 0]
        /\ UNCHANGED <<receipts, balance, allowance, inbox, blocks, faults>>
  BY Zenon DEF L1!send_transaction
<1>2. Shape(calls[c]) /\ DOMAIN calls = L1!Call
  BY DEF Kinds
<1>3. Turn(c, "receipt", i, calls[c].index, calls[c].checkpoint)
  BY Zenon, <1>1, <1>2 DEF Turn, Shape
<1> QED BY <1>1, <1>3 DEF Sends, Rest

LEMMA ReceiptActs ==
  ASSUME Kinds, NEW c \in L1!Call, L1!wait_for_receipt(c)
  PROVE  Acts(c)
<1>1. calls[c].pc = "receipt" /\ Quiet /\ calls[c].step \in 1..Len(L1!Steps(c)) /\ Len(L1!Steps(c)) \in Nat
  BY StepsAre DEF L1!wait_for_receipt, Quiet, Rest, Kinds
<1>2. CASE L1!TxOf(c) \in DOMAIN receipts
  <2> DEFINE r == receipts[L1!TxOf(c)]
  <2>1. CASE r.status # "0x1"
    <3>1. L1!Goto(c, "failed")
      BY <1>2, <2>1, Zenon DEF L1!wait_for_receipt, L1!ReceiptOk
    <3>2. Turn(c, "failed", calls[c].step, calls[c].index, calls[c].checkpoint)
      BY Zenon, <3>1, GotoIs DEF L1!Goto
    <3> QED BY <1>1, <1>2, <2>1, <3>2 DEF Reverts, Acts
  <2>2. CASE r.status = "0x1" /\ calls[c].step < Len(L1!Steps(c))
    <3>1. L1!Goto(c, L1!Steps(c)[calls[c].step + 1])
      BY <1>2, <2>2, Zenon DEF L1!wait_for_receipt, L1!ReceiptOk
    <3>2. Turn(c, L1!Steps(c)[calls[c].step + 1], calls[c].step, calls[c].index, calls[c].checkpoint)
      BY Zenon, <3>1, GotoIs DEF L1!Goto
    <3> QED BY <1>1, <1>2, <2>2, <3>2 DEF Proceeds, Acts
  <2>3. CASE r.status = "0x1" /\ ~(calls[c].step < Len(L1!Steps(c)))
    <3>1. calls' = [calls EXCEPT ![c].pc = "sent", ![c].polls = 0, ![c].index = L1!LeafIndex(r)]
      BY <1>2, <2>3, Zenon DEF L1!wait_for_receipt, L1!ReceiptOk
    <3>2. Shape(calls[c]) /\ DOMAIN calls = L1!Call
      BY DEF Kinds
    <3>3. Turn(c, "sent", calls[c].step, r.index, calls[c].checkpoint)
      BY Zenon, <3>1, <3>2 DEF Turn, Shape, L1!LeafIndex
    <3>4. calls[c].step = Len(L1!Steps(c))
      BY <1>1, <2>3
    <3> QED BY <1>1, <1>2, <2>3, <3>3, <3>4 DEF Completes, Acts
  <2> QED BY <2>1, <2>2, <2>3
<1>3. CASE L1!TxOf(c) \notin DOMAIN receipts
  <2>1. \/ L1!Goto(c, "timeout") \/ calls' = [calls EXCEPT ![c].polls = calls[c].polls + 1]
    BY <1>3 DEF L1!wait_for_receipt
  <2>2. \E l \in {"receipt", "timeout"} : Turn(c, l, calls[c].step, calls[c].index, calls[c].checkpoint)
    <3>1. CASE L1!Goto(c, "timeout")
      <4>1. Turn(c, "timeout", calls[c].step, calls[c].index, calls[c].checkpoint)
        BY Zenon, <3>1, GotoIs DEF L1!Goto
      <4> QED BY <4>1
    <3>2. CASE calls' = [calls EXCEPT ![c].polls = calls[c].polls + 1]
      <4>1. Turn(c, "receipt", calls[c].step, calls[c].index, calls[c].checkpoint)
        BY Zenon, <1>1, <3>2, GotoIs
      <4> QED BY <4>1
    <3> QED BY <2>1, <3>1, <3>2
  <2> QED BY <1>1, <2>2 DEF Lingers, Acts
<1> QED BY <1>2, <1>3

LEMMA ReadActs ==
  ASSUME Kinds, NEW c \in L1!Call, L1!ReadCheckpoint(c) \/ L1!ReadBlock(c)
  PROVE  Acts(c)
<1>1. calls[c].pc \in {"sent", "block"} /\ Quiet
  BY DEF L1!ReadCheckpoint, L1!ReadBlock, Quiet, Rest
<1>2. CASE L1!NotReady(c)
  <2>1. \/ calls' = [calls EXCEPT ![c].pc = "unready"]
        \/ calls' = [calls EXCEPT ![c].pc = "sent", ![c].polls = calls[c].polls + 1]
    BY <1>2 DEF L1!NotReady
  <2>2. \/ Turn(c, "unready", calls[c].step, calls[c].index, calls[c].checkpoint)
        \/ Turn(c, "sent", calls[c].step, calls[c].index, calls[c].checkpoint)
    BY <2>1, GotoIs
  <2> QED BY <1>1, <2>2 DEF Unready, Acts
<1>3. CASE L1!ReadCheckpoint(c) /\ ~L1!NotReady(c)
  <2>1. calls[c].pc = "sent" /\ calls' = [calls EXCEPT ![c].pc = "block",
                                    ![c].checkpoint = inbox[calls[c].index].checkpoint]
    BY <1>3 DEF L1!ReadCheckpoint
  <2>2. Shape(calls[c]) /\ DOMAIN calls = L1!Call
    BY DEF Kinds
  <2>3. Turn(c, "block", calls[c].step, calls[c].index, inbox[calls[c].index].checkpoint)
    BY Zenon, <2>1, <2>2 DEF Turn, Shape
  <2> QED BY <1>1, <2>1, <2>3 DEF Found, Acts
<1>4. CASE L1!ReadBlock(c) /\ ~L1!NotReady(c)
  <2>1. /\ calls[c].pc = "block" /\ Len(blocks) > 0 /\ calls[c].checkpoint <= Len(blocks)
        /\ calls' = [calls EXCEPT ![c].pc = "ready"]
    BY <1>4 DEF L1!ReadBlock, L1!MessageReady
  <2>2. Turn(c, "ready", calls[c].step, calls[c].index, calls[c].checkpoint)
    BY Zenon, <2>1, GotoIs
  <2> QED BY <1>1, <2>1, <2>2 DEF Ready, Acts
<1> QED BY <1>2, <1>3, <1>4

LEMMA CallActs ==
  ASSUME Kinds, NEW c \in L1!Call, L1!Step(c) \/ L1!RequestFails(c)
  PROVE  Acts(c)
<1>1. CASE L1!RequestFails(c)
  <2>1. Turn(c, "failed", calls[c].step, calls[c].index, calls[c].checkpoint)
    BY Zenon, <1>1, GotoIs DEF L1!RequestFails, L1!Goto
  <2> QED BY <1>1, <2>1 DEF L1!RequestFails, Breaks, Rest, Acts
<1>2. CASE L1!Step(c)
  BY <1>2, SendActs, ReceiptActs, ReadActs DEF L1!Step, Acts
<1> QED BY <1>1, <1>2
-----------------------------------------------------------------------------
(* Sequences: what is in a sequence after an append, and after its head went. *)
LEMMA AppendIs ==
  ASSUME NEW S, NEW s \in Seq(S), NEW x \in S
  PROVE  /\ Append(s, x) \in Seq(S) /\ Len(Append(s, x)) = Len(s) + 1 /\ Len(s) \in Nat
         /\ DOMAIN s = 1..Len(s) /\ DOMAIN Append(s, x) = 1..(Len(s) + 1)
         /\ Append(s, x)[Len(s) + 1] = x /\ \A i \in DOMAIN s : Append(s, x)[i] = s[i]
  OBVIOUS

LEMMA ElementOf ==
  ASSUME NEW S, NEW s \in Seq(S)
  PROVE  DOMAIN s = 1..Len(s) /\ \A i \in DOMAIN s : s[i] \in S
  OBVIOUS

LEMMA TailIs ==
  ASSUME NEW S, NEW s \in Seq(S), s # <<>>
  PROVE  /\ Tail(s) \in Seq(S) /\ Head(s) \in S /\ Head(s) = s[1] /\ 1 \in DOMAIN s
         /\ DOMAIN s \subseteq Nat
         /\ \A i \in DOMAIN Tail(s) : i + 1 \in DOMAIN s /\ i + 1 # 1 /\ i \in Nat /\ Tail(s)[i] = s[i + 1]
<1>1. Len(s) \in Nat \ {0} /\ DOMAIN s = 1..Len(s) /\ Len(Tail(s)) = Len(s) - 1 /\ Tail(s) \in Seq(S)
  OBVIOUS
<1>2. DOMAIN Tail(s) = 1..(Len(s) - 1)
  BY <1>1
<1>3. \A i \in 1..(Len(s) - 1) : Tail(s)[i] = s[i + 1]
  OBVIOUS
<1>4. Head(s) \in S /\ Head(s) = s[1]
  OBVIOUS
<1> QED BY <1>1, <1>2, <1>3, <1>4
-----------------------------------------------------------------------------
(* A step of a call. *)
LEMMA CallKinds ==
  ASSUME Kinds, NEW c \in L1!Call, Acts(c)
  PROVE  Kinds'
<1>1. \A d \in L1!Call : Len(L1!Steps(d))' = Len(L1!Steps(d)) /\ Len(L1!Steps(d)) \in Nat \ {0}
  BY StepsAre DEF L1!Steps
<1>2. PICK s \in 1..Len(L1!Steps(c)) : \E l, n, k : Turn(c, l, s, n, k)
  <2>1. CASE Sends(c)
    <3>1. DOMAIN L1!Steps(c) = 1..Len(L1!Steps(c))
      BY StepsAre
    <3> QED BY <2>1, <3>1, Zenon DEF Sends
  <2>2. CASE ~Sends(c)
    <3>1. calls[c].step \in 1..Len(L1!Steps(c))
      BY DEF Kinds
    <3> QED BY <2>2, <3>1, Zenon DEF Acts, Reverts, Proceeds, Completes, Lingers, Found, Ready, Unready, Breaks
  <2> QED BY <2>1, <2>2
<1>3. DOMAIN calls' = L1!Call /\ \A d \in L1!Call : Shape(calls'[d]) /\ calls'[d].step \in 1..Len(L1!Steps(d))
  BY <1>2, Zenon DEF Kinds, Turn
<1>4. Rest /\ (faults' = faults \/ faults' = faults + 1)
  BY Zenon DEF Acts, Sends, Reverts, Proceeds, Completes, Lingers, Found, Ready, Unready, Breaks, Quiet
<1>5. mempool' \in Seq(Sent)
  <2>1. CASE Sends(c)
    <3>1. PICK i \in DOMAIN L1!Steps(c) : mempool' = Append(mempool, <<c, L1!Steps(c)[i]>>)
      BY <2>1, Zenon DEF Sends
    <3>2. <<c, L1!Steps(c)[i]>> \in Sent
      BY StepsAre DEF Sent, Own
    <3>3. mempool \in Seq(Sent)
      BY DEF Kinds
    <3> QED BY <3>1, <3>2, <3>3, AppendIs
  <2>2. CASE ~Sends(c)
    BY <2>2, Zenon DEF Acts, Reverts, Proceeds, Completes, Lingers, Found, Ready, Unready, Breaks, Quiet, Kinds
  <2> QED BY <2>1, <2>2
<1>6. faults' \in Nat
  BY <1>4 DEF Kinds
<1>7. Sent' = Sent /\ L1!Call' = L1!Call
  OBVIOUS
<1>8. UNCHANGED <<receipts, inbox, blocks, balance, allowance>>
  BY <1>4 DEF Rest
<1> QED BY <1>1, <1>3, <1>5, <1>6, <1>8, Zenon DEF Kinds, L1!Steps

(* A call's step keeps what the calls have read.                         *)
LEMMA CallClaims ==
  ASSUME Kinds, Mining, NEW c \in L1!Call, Acts(c), \A d \in L1!Call : Claim(d)
  PROVE  \A d \in L1!Call : Claim(d)'
<1>1. Rest
  BY Zenon DEF Acts, Sends, Reverts, Proceeds, Completes, Lingers, Found, Ready, Unready, Breaks, Quiet
<1>2. UNCHANGED <<inbox, blocks>>
  BY <1>1 DEF Rest
<1>3. ASSUME NEW d \in L1!Call \ {c} PROVE Claim(d)'
  <2>1. calls'[d] = calls[d]
    BY Zenon DEF Acts, Sends, Reverts, Proceeds, Completes, Lingers, Found, Ready, Unready, Breaks, Turn
  <2> QED BY <1>2, <2>1, Zenon DEF Claim, OwnMessage
<1>4. Claim(c)'
  <2>1. CASE Sends(c) \/ Reverts(c) \/ Lingers(c) \/ Breaks(c)
    <3>1. calls'[c].pc \in {"receipt", "failed", "timeout"}
      BY <2>1, Zenon DEF Sends, Reverts, Lingers, Breaks, Turn
    <3> QED BY <3>1 DEF Claim
  <2>2. CASE Proceeds(c)
    <3>1. calls'[c].pc \in {"approve", "deposit"}
      <4>1. calls'[c].pc = L1!Steps(c)[calls[c].step + 1] /\ calls[c].step < Len(L1!Steps(c)) /\ calls[c].step \in 1..Len(L1!Steps(c))
        BY <2>2, Zenon DEF Proceeds, Turn, Kinds
      <4>2. c \in Bridge /\ calls[c].step \in {1, 2}
        BY <4>1, StepsAre
      <4> QED BY <4>1, <4>2, StepsAre
    <3> QED BY <3>1 DEF Claim
  <2>3. CASE Completes(c)
    <3>1. /\ L1!TxOf(c) \in DOMAIN receipts /\ receipts[L1!TxOf(c)].status = "0x1" /\ calls[c].step = Len(L1!Steps(c))
          /\ calls'[c].pc = "sent" /\ calls'[c].index = receipts[L1!TxOf(c)].index
      BY <2>3, Zenon DEF Completes, Turn
    <3>2. L1!TxOf(c)[1] = c /\ L1!TxOf(c)[2] \in {"deposit", "message"}
      BY <3>1, StepsAre DEF L1!TxOf
    <3>3. OwnMessage(c, receipts[L1!TxOf(c)].index)
      BY <3>1, <3>2, Zenon DEF Mining
    <3>4. OwnMessage(c, calls[c].index)'
      BY <1>2, <3>1, <3>3, Zenon DEF OwnMessage
    <3> QED BY <3>1, <3>4 DEF Claim
  <2>4. CASE Found(c)
    <3>1. calls[c].pc = "sent" /\ calls'[c].pc = "block" /\ calls'[c].index = calls[c].index
          /\ calls'[c].checkpoint = inbox[calls[c].index].checkpoint
      BY <2>4, Zenon DEF Found, Turn
    <3>2. OwnMessage(c, calls[c].index)
      BY <3>1, Zenon DEF Claim
    <3>3. OwnMessage(c, calls[c].index)'
      BY <1>2, <3>1, <3>2, Zenon DEF OwnMessage
    <3>4. calls'[c].pc # "ready"
      BY <3>1
    <3> QED BY <1>2, <3>1, <3>3, <3>4, Zenon DEF Claim
  <2>5. CASE Ready(c)
    <3>1. /\ calls[c].pc = "block" /\ calls'[c].pc = "ready" /\ calls'[c].index = calls[c].index
          /\ calls'[c].checkpoint = calls[c].checkpoint /\ Len(blocks) > 0 /\ calls[c].checkpoint <= Len(blocks)
      BY <2>5, Zenon DEF Ready, Turn
    <3>2. OwnMessage(c, calls[c].index) /\ calls[c].checkpoint = inbox[calls[c].index].checkpoint
      BY <3>1, Zenon DEF Claim
    <3>3. OwnMessage(c, calls[c].index)'
      BY <1>2, <3>1, <3>2, Zenon DEF OwnMessage
    <3> QED BY <1>2, <3>1, <3>2, <3>3, Zenon DEF Claim
  <2>6. CASE Unready(c)
    <3>1. calls[c].pc \in {"sent", "block"} /\ calls'[c].pc \in {"sent", "unready"} /\ calls'[c].index = calls[c].index
      BY <2>6, Zenon DEF Unready, Turn
    <3>2. OwnMessage(c, calls[c].index)
      BY <3>1, Zenon DEF Claim
    <3>3. OwnMessage(c, calls[c].index)'
      BY <1>2, <3>1, <3>2, Zenon DEF OwnMessage
    <3>4. calls'[c].pc # "ready" /\ calls'[c].pc # "block"
      BY <3>1
    <3> QED BY <3>3, <3>4, Zenon DEF Claim
  <2> QED BY <2>1, <2>2, <2>3, <2>4, <2>5, <2>6, Zenon DEF Acts
<1> QED BY <1>3, <1>4, Zenon

LEMMA CallFailed ==
  ASSUME Kinds, Mining, NEW c \in L1!Call, Acts(c), \A d \in L1!Call : Failed(d)
  PROVE  \A d \in L1!Call : Failed(d)'
<1>1. CASE Breaks(c)
  <2>1. faults' # 0
    BY <1>1 DEF Breaks, Kinds
  <2> QED BY <2>1, Zenon DEF Failed
<1>2. CASE ~Breaks(c)
  <2>1. UNCHANGED <<faults, receipts>>
    BY <1>2, Zenon DEF Acts, Sends, Reverts, Proceeds, Completes, Lingers, Found, Ready, Unready, Quiet, Rest
  <2>2. ASSUME NEW d \in L1!Call \ {c} PROVE Failed(d)'
    <3>1. calls'[d] = calls[d]
      BY Zenon DEF Acts, Sends, Reverts, Proceeds, Completes, Lingers, Found, Ready, Unready, Breaks, Turn
    <3> QED BY <2>1, <3>1, Zenon DEF Failed, Refused, Mined
  <2>3. CASE Reverts(c)
    <3>1. L1!TxOf(c) \in DOMAIN receipts /\ receipts[L1!TxOf(c)].status # "0x1"
      BY <2>3 DEF Reverts
    <3>2. L1!TxOf(c)[2] = "deposit" /\ receipts[L1!TxOf(c)].status = "0x0"
      BY <3>1 DEF Mining
    <3>3. c \in Bridge /\ L1!TxOf(c) = <<c, "deposit">>
      <4>1. L1!TxOf(c) = <<c, L1!Steps(c)[calls[c].step]>> /\ calls[c].step \in 1..Len(L1!Steps(c))
        BY DEF L1!TxOf, Kinds
      <4> QED BY <3>2, <4>1, StepsAre
    <3> QED BY <2>1, <2>2, <3>1, <3>2, <3>3, Zenon DEF Failed, Refused, Mined
  <2>4. CASE ~Reverts(c)
    <3>1. calls'[c].pc # "failed"
      <4>1. CASE Proceeds(c)
        <5>1. calls'[c].pc = L1!Steps(c)[calls[c].step + 1] /\ calls[c].step < Len(L1!Steps(c)) /\ calls[c].step \in 1..Len(L1!Steps(c))
          BY <4>1, Zenon DEF Proceeds, Turn, Kinds
        <5> QED BY <5>1, StepsAre
      <4>2. CASE ~Proceeds(c)
        <5>1. calls'[c].pc \in {"receipt", "sent", "timeout", "block", "ready", "unready"}
          BY <1>2, <2>4, <4>2, Zenon DEF Acts, Sends, Completes, Lingers, Found, Ready, Unready, Turn
        <5> QED BY <5>1
      <4> QED BY <4>1, <4>2
    <3> QED BY <2>2, <3>1, Zenon DEF Failed
  <2> QED BY <2>3, <2>4
<1> QED BY <1>1, <1>2

(* A call's step keeps the order of its transactions: a deposit is sent  *)
(* once the mint and the approval are mined.                             *)
LEMMA CallOrder ==
  ASSUME Kinds, NEW c \in L1!Call, Acts(c), \A d \in Bridge : Order(d)
  PROVE  \A d \in Bridge : Order(d)'
<1>1. receipts' = receipts
  BY Zenon DEF Acts, Sends, Reverts, Proceeds, Completes, Lingers, Found, Ready, Unready, Breaks, Quiet, Rest
<1>2. \A d \in L1!Call \ {c} : calls'[d] = calls[d]
  BY Zenon DEF Acts, Sends, Reverts, Proceeds, Completes, Lingers, Found, Ready, Unready, Breaks, Turn
<1>3. Bridge \subseteq L1!Call /\ calls[c].step \in 1..Len(L1!Steps(c))
  BY DEF L1!Call, Kinds
<1>4. \A d, s : Mined(d, s)' = Mined(d, s)
  BY <1>1, Zenon DEF Mined
<1>5. CASE ~Sends(c)
  <2>1. mempool' = mempool
    BY <1>5, Zenon DEF Acts, Reverts, Proceeds, Completes, Lingers, Found, Ready, Unready, Breaks, Quiet
  <2>2. \A d : Waits(d)' = Waits(d)
    BY <2>1, Zenon DEF Waits
  <2>3. ASSUME NEW d \in Bridge \ {c} PROVE Order(d)'
    <3>1. calls'[d] = calls[d]
      BY <1>2, <1>3
    <3>2. Order(d)
      OBVIOUS
    <3> QED BY <1>1, <2>1, <3>1, <3>2, Zenon DEF Order, Early, Waits, Mined
  <2>4. ASSUME c \in Bridge PROVE Order(c)'
    <3>1. Order(c)
      BY <2>4
    <3>2. CASE Proceeds(c)
      <4>1. /\ calls[c].pc = "receipt" /\ calls[c].step < 3 /\ L1!TxOf(c) \in DOMAIN receipts
            /\ calls'[c].pc = L1!Steps(c)[calls[c].step + 1] /\ calls'[c].step = calls[c].step
        BY <2>4, <3>2, StepsAre, Zenon DEF Proceeds, Turn
      <4>2. CASE calls[c].step = 1
        <5>1. calls'[c].pc = "approve" /\ L1!TxOf(c) = <<c, "mint">>
          BY <2>4, <4>1, <4>2, StepsAre DEF L1!TxOf
        <5>2. Mined(c, "mint") /\ Early(c)
          BY <4>1, <5>1, Zenon DEF Mined, Early
        <5>3. calls'[c].pc # "deposit"
          BY <5>1
        <5> QED BY <1>4, <2>1, <2>2, <3>1, <5>2, <5>3, Zenon DEF Order
      <4>3. CASE calls[c].step = 2
        <5>1. calls'[c].pc = "deposit" /\ L1!TxOf(c) = <<c, "approve">>
          BY <2>4, <4>1, <4>3, StepsAre DEF L1!TxOf
        <5>2. Mined(c, "approve") /\ Early(c)
          BY <4>1, <5>1, Zenon DEF Mined, Early
        <5>3. Mined(c, "mint")
          BY <3>1, <4>1, <4>3, Zenon DEF Order
        <5> QED BY <1>4, <2>1, <2>2, <3>1, <5>2, <5>3, Zenon DEF Order
      <4> QED BY <1>3, <2>4, <4>1, <4>2, <4>3, StepsAre
    <3>3. CASE ~Proceeds(c)
      <4>1. /\ calls'[c].pc \in {"receipt", "sent", "timeout", "block", "ready", "unready", "failed"}
            /\ calls'[c].pc = "receipt" => calls[c].pc = "receipt" /\ calls'[c].step = calls[c].step
        <5>1. CASE Lingers(c)
          BY <5>1, Zenon DEF Lingers, Turn
        <5>2. CASE ~Lingers(c)
          <6>1. calls'[c].pc \in {"sent", "block", "ready", "unready", "failed"}
            BY <1>5, <3>3, <5>2, Zenon DEF Acts, Reverts, Completes, Found, Ready, Unready, Breaks, Turn
          <6> QED BY <6>1
        <5> QED BY <5>1, <5>2
      <4>2. calls'[c].pc \notin {"mint", "approve", "deposit"}
        BY <4>1
      <4>3. Early(c)' => Early(c)
        BY <4>1, <4>2, Zenon DEF Early
      <4>4. calls'[c].pc # "approve" /\ calls'[c].pc # "deposit"
        BY <4>2
      <4> QED BY <1>4, <2>1, <2>2, <3>1, <4>1, <4>3, <4>4, Zenon DEF Order
    <3> QED BY <3>2, <3>3
  <2> QED BY <2>3, <2>4
<1>6. CASE Sends(c)
  <2>1. PICK s \in DOMAIN L1!Steps(c) :
          /\ calls[c].pc = L1!Steps(c)[s] /\ calls'[c].pc = "receipt" /\ calls'[c].step = s
          /\ mempool' = Append(mempool, <<c, L1!Steps(c)[s]>>)
    BY <1>6, Zenon DEF Sends, Turn
  <2> DEFINE x == <<c, L1!Steps(c)[s]>>
  <2>2. x \in Sent /\ mempool \in Seq(Sent)
    BY StepsAre DEF Sent, Own, Kinds
  <2> HIDE DEF x
  <2>3. /\ DOMAIN mempool = 1..Len(mempool) /\ DOMAIN mempool' = 1..(Len(mempool) + 1) /\ Len(mempool) \in Nat
        /\ mempool'[Len(mempool) + 1] = x /\ \A i \in DOMAIN mempool : mempool'[i] = mempool[i]
    BY <2>1, <2>2, AppendIs DEF x
  <2>4. ASSUME NEW d \in Bridge, x # <<d, "deposit">> PROVE
          /\ Waits(d)' => Waits(d)
          /\ \A i, j \in DOMAIN mempool' : mempool'[i] = <<d, "deposit">> /\ mempool'[j] = <<d, "deposit">> => i = j
    <3> DEFINE y == <<d, "deposit">>
    <3>3. x # y
      BY <2>4
    <3> HIDE DEF y
    <3>4. \A i \in DOMAIN mempool' : mempool'[i] = y => i \in DOMAIN mempool /\ mempool[i] = y
      BY <2>3, <3>3
    <3>1. \A i \in DOMAIN mempool' : mempool'[i] = <<d, "deposit">> => i \in DOMAIN mempool /\ mempool[i] = <<d, "deposit">>
      BY <3>4 DEF y
    <3>2. Order(d)
      OBVIOUS
    <3> QED BY <3>1, <3>2, Zenon DEF Waits, Order
  <2>5. ASSUME NEW d \in Bridge \ {c} PROVE Order(d)'
    <3>1. calls'[d] = calls[d] /\ Order(d)
      BY <1>2, <1>3
    <3>2. x # <<d, "deposit">>
      <4>1. c # d
        OBVIOUS
      <4> QED BY <4>1 DEF x
    <3>3. (Early(d))' => Early(d)
      BY <3>1, Zenon DEF Early
    <3> QED BY <1>4, <2>4, <3>1, <3>2, <3>3, Zenon DEF Order
  <2>6. ASSUME c \in Bridge PROVE Order(c)'
    <3>1. Order(c) /\ s \in 1..3
      BY <2>6, <2>1, StepsAre
    <3>2. calls'[c].pc # "approve" /\ calls'[c].pc # "deposit" /\ calls'[c].pc \notin {"mint", "approve", "deposit"}
      BY <2>1
    <3>3. CASE s = 3
      <4>1. x = <<c, "deposit">> /\ calls[c].pc = "deposit"
        BY <2>6, <2>1, <3>3, StepsAre DEF x
      <4>2. ~Waits(c) /\ ~Mined(c, "deposit") /\ Mined(c, "mint") /\ Mined(c, "approve")
        BY <3>1, <4>1, Zenon DEF Order, Early
      <4>3. ~Early(c)' /\ calls'[c].step # 2
        <5>1. ~(calls'[c].step < 3) /\ calls'[c].step # 2
          BY <2>1, <3>3
        <5> QED BY <3>2, <5>1, Zenon DEF Early
      <4>4. \A i, j \in DOMAIN mempool' : mempool'[i] = <<c, "deposit">> /\ mempool'[j] = <<c, "deposit">> => i = j
        <5>1. \A i \in DOMAIN mempool : mempool[i] # <<c, "deposit">>
          BY <4>2 DEF Waits
        <5>2. \A i \in DOMAIN mempool' : mempool'[i] = <<c, "deposit">> => i = Len(mempool) + 1
          BY <2>3, <5>1
        <5> QED BY <5>2
      <4> QED BY <1>4, <3>2, <4>2, <4>3, <4>4, Zenon DEF Order
    <3>4. CASE s # 3
      <4>1. x # <<c, "deposit">> /\ calls[c].pc \in {"mint", "approve"} /\ (s = 2 => calls[c].pc = "approve")
        BY <2>6, <2>1, <3>1, <3>4, StepsAre DEF x
      <4>2. Early(c)
        BY <4>1 DEF Early
      <4>3. s = 2 => Mined(c, "mint")
        BY <3>1, <4>1, Zenon DEF Order
      <4> QED BY <1>4, <2>1, <2>4, <2>6, <3>1, <3>2, <4>1, <4>2, <4>3, Zenon DEF Order
    <3> QED BY <3>3, <3>4
  <2> QED BY <2>5, <2>6
<1> QED BY <1>5, <1>6

LEMMA CallStep ==
  ASSUME BridgeInv, NEW c \in L1!Call, Acts(c)
  PROVE  BridgeInv'
<1>1. UNCHANGED <<receipts, balance, allowance, inbox>>
  BY Zenon DEF Acts, Sends, Reverts, Proceeds, Completes, Lingers, Found, Ready, Unready, Breaks, Quiet, Rest
<1>2. Mining'
  BY <1>1, Zenon DEF BridgeInv, Mining, OwnMessage
<1>3. \A d \in Bridge : Funds(d)'
  BY <1>1, Zenon DEF BridgeInv, Funds, Mined, Refused, Alone, Messaged
<1> QED BY <1>2, <1>3, CallKinds, CallClaims, CallFailed, CallOrder, Zenon DEF BridgeInv
-----------------------------------------------------------------------------
(* A transaction is mined. *)
MinedTx(c, step, ok) ==
    /\ <<c, step>> \in Sent /\ mempool # <<>> /\ Head(mempool) = <<c, step>> /\ mempool' = Tail(mempool)
    /\ ok <=> step # "deposit" \/ (allowance > 0 /\ balance > 0)
    /\ DOMAIN receipts' = DOMAIN receipts \union {<<c, step>>}
    /\ \A x \in DOMAIN receipts \ {<<c, step>>} : receipts'[x] = receipts[x]
    /\ receipts'[<<c, step>>].status = IF ok THEN "0x1" ELSE "0x0"
    /\ receipts'[<<c, step>>].index = Len(inbox')
    /\ UNCHANGED <<calls, blocks, faults>>

Balances(step, ok) ==
    /\ balance' \in Nat /\ allowance' \in Nat
    /\ step # "deposit" \/ ~ok => (balance > 0 => balance' > 0) /\ (allowance > 0 => allowance' > 0)
    /\ step = "mint" => balance' > 0
    /\ step = "approve" => allowance' > 0

Posts(c, step, ok) ==
    IF step = "message" \/ (step = "deposit" /\ ok)
    THEN \E k \in Nat : inbox' = Append(inbox, [secret |-> c, checkpoint |-> k])
    ELSE inbox' = inbox

(* What mining the oldest transaction does.                              *)
LEMMA MineIs ==
  ASSUME Kinds, L1!Mine
  PROVE  \E c \in L1!Call, step \in {"mint", "approve", "deposit", "message"}, ok \in BOOLEAN :
             MinedTx(c, step, ok) /\ Balances(step, ok) /\ Posts(c, step, ok)
<1>1. mempool # <<>> /\ mempool \in Seq(Sent)
  BY DEF L1!Mine, Kinds
<1>2. Head(mempool) \in Sent
  BY <1>1, TailIs
<1> DEFINE c == Head(mempool)[1]
           step == Head(mempool)[2]
           ok == step # "deposit" \/ (allowance > 0 /\ balance > 0)
           st == IF ok THEN "0x1" ELSE "0x0"
           x == <<c, step>>
<1>3. /\ c \in L1!Call /\ step \in {"mint", "approve", "deposit", "message"}
      /\ x \in Sent /\ Head(mempool) = x
  BY <1>2 DEF Sent
<1>4. /\ mempool' = Tail(mempool) /\ UNCHANGED <<calls, blocks, faults>>
      /\ receipts' = [tx \in DOMAIN receipts \cup {x} |->
                        IF tx = x THEN [status |-> st, index |-> Len(inbox')] ELSE receipts[tx]]
  BY Zenon DEF L1!Mine, L1!Receipt
<1>5. /\ balance' = CASE step = "mint" -> balance + 1
                      [] step = "deposit" /\ ok -> balance - 1
                      [] OTHER -> balance
      /\ allowance' = CASE step = "approve" -> 1
                        [] step = "deposit" /\ ok -> allowance - 1
                        [] OTHER -> allowance
  BY Zenon DEF L1!Mine
<1>6. IF step = "message" \/ (step = "deposit" /\ ok)
      THEN inbox' = Append(inbox, [secret |-> c, checkpoint |-> L1!Checkpoint + 2]) ELSE inbox' = inbox
  BY Zenon DEF L1!Mine
<1>7. L1!Checkpoint + 2 \in Nat
  <2>1. blocks \in Seq(Nat)
    BY DEF Kinds
  <2>2. CASE blocks = <<>>
    BY <2>2 DEF L1!Checkpoint
  <2>3. CASE blocks # <<>>
    <3>1. blocks[Len(blocks)] \in Nat
      BY <2>1, <2>3
    <3> QED BY <2>3, <3>1 DEF L1!Checkpoint
  <2> QED BY <2>2, <2>3
<1>8. ok \in BOOLEAN /\ (ok <=> step # "deposit" \/ (allowance > 0 /\ balance > 0))
  BY Zenon
<1>9. Posts(c, step, ok)
  BY <1>6, <1>7, Zenon DEF Posts
<1>10. Balances(step, ok)
  <2>1. balance \in Nat /\ allowance \in Nat
    BY DEF Kinds
  <2> HIDE DEF step
  <2>2. CASE step = "mint"
    <3>1. balance' = balance + 1 /\ allowance' = allowance
      BY <1>5, <2>2
    <3> QED BY <2>1, <2>2, <3>1 DEF Balances
  <2>3. CASE step = "approve"
    <3>1. balance' = balance /\ allowance' = 1
      BY <1>5, <2>3
    <3> QED BY <2>1, <2>3, <3>1 DEF Balances
  <2>4. CASE step = "deposit" /\ ok
    <3>1. balance' = balance - 1 /\ allowance' = allowance - 1 /\ allowance > 0 /\ balance > 0
      BY <1>5, <2>4
    <3>2. balance' \in Nat /\ allowance' \in Nat
      BY <2>1, <3>1
    <3>3. step # "mint" /\ step # "approve"
      BY <2>4
    <3> QED BY <2>4, <3>2, <3>3, Zenon DEF Balances
  <2>5. CASE step # "mint" /\ step # "approve" /\ ~(step = "deposit" /\ ok)
    <3>1. balance' = balance /\ allowance' = allowance
      BY <1>5, <2>5
    <3> QED BY <2>1, <2>5, <3>1, Zenon DEF Balances
  <2> QED BY <2>2, <2>3, <2>4, <2>5, Zenon
<1> HIDE DEF ok
<1>11. MinedTx(c, step, ok)
  <2>1. st = IF ok THEN "0x1" ELSE "0x0"
    BY Zenon DEF ok
  <2> HIDE DEF st, x
  <2>2. /\ DOMAIN receipts' = DOMAIN receipts \union {x}
        /\ \A y \in DOMAIN receipts \ {x} : receipts'[y] = receipts[y]
        /\ receipts'[x] = [status |-> st, index |-> Len(inbox')]
    BY <1>4
  <2>3. receipts'[x].status = st /\ receipts'[x].index = Len(inbox')
    BY <2>2
  <2> QED BY <1>1, <1>3, <1>4, <1>8, <2>1, <2>2, <2>3, Zenon DEF MinedTx, x
<1> HIDE DEF c, step
<1> QED BY <1>3, <1>8, <1>9, <1>10, <1>11, Zenon

(* The Inbox keeps what it has; the message that is added is its sender's. *)
Sending(step, ok) == step = "message" \/ (step = "deposit" /\ ok)

LEMMA InboxGrows ==
  ASSUME Kinds, NEW c \in L1!Call, NEW step, NEW ok \in BOOLEAN, Posts(c, step, ok)
  PROVE  /\ inbox' \in Seq([secret : L1!Call, checkpoint : Nat])
         /\ \A d, n : OwnMessage(d, n) => n \in 1..Len(inbox') /\ inbox'[n] = inbox[n]
         /\ Sending(step, ok) =>
              Len(inbox') \in 1..Len(inbox') /\ inbox'[Len(inbox')].secret = c /\ Messaged(c)'
         /\ \A d : Messaged(d) => Messaged(d)'
         /\ \A d : d # c \/ ~Sending(step, ok) => (Messaged(d)' => Messaged(d))
<1>1. inbox \in Seq([secret : L1!Call, checkpoint : Nat])
  BY DEF Kinds
<1>2. CASE ~Sending(step, ok)
  <2>1. inbox' = inbox
    BY <1>2, Zenon DEF Posts, Sending
  <2> QED BY <1>1, <1>2, <2>1, Zenon DEF OwnMessage, Messaged
<1>3. CASE Sending(step, ok)
  <2>1. PICK k \in Nat : inbox' = Append(inbox, [secret |-> c, checkpoint |-> k])
    BY <1>3, Zenon DEF Posts, Sending
  <2> DEFINE m == [secret |-> c, checkpoint |-> k]
  <2>2. m \in [secret : L1!Call, checkpoint : Nat] /\ m.secret = c
    OBVIOUS
  <2> HIDE DEF m
  <2>3. /\ inbox' \in Seq([secret : L1!Call, checkpoint : Nat]) /\ Len(inbox') = Len(inbox) + 1 /\ Len(inbox) \in Nat
        /\ DOMAIN inbox = 1..Len(inbox) /\ DOMAIN inbox' = 1..(Len(inbox) + 1)
        /\ inbox'[Len(inbox) + 1] = m /\ \A i \in DOMAIN inbox : inbox'[i] = inbox[i]
    BY <1>1, <2>1, <2>2, AppendIs DEF m
  <2>4. \A d, n : OwnMessage(d, n) => n \in 1..Len(inbox') /\ inbox'[n] = inbox[n]
    BY <2>3 DEF OwnMessage
  <2>5. Len(inbox') \in 1..Len(inbox') /\ inbox'[Len(inbox')].secret = c /\ Len(inbox') \in DOMAIN inbox'
    BY <2>2, <2>3
  <2>6. Messaged(c)'
    BY <2>5, Zenon DEF Messaged
  <2>7. \A d : Messaged(d) => Messaged(d)'
    <3>1. DOMAIN inbox \subseteq DOMAIN inbox'
      BY <2>3
    <3> QED BY <2>3, <3>1, Zenon DEF Messaged
  <2>8. ASSUME NEW d, d # c, Messaged(d)' PROVE Messaged(d)
    <3>1. PICK i \in DOMAIN inbox' : inbox'[i].secret = d
      BY <2>8 DEF Messaged
    <3>2. i # Len(inbox) + 1
      BY <2>2, <2>3, <2>8, <3>1
    <3>3. i \in DOMAIN inbox
      BY <2>3, <3>2
    <3> QED BY <2>3, <3>1, <3>3, Zenon DEF Messaged
  <2> QED BY <1>3, <2>3, <2>4, <2>5, <2>6, <2>7, <2>8, Zenon
<1> QED BY <1>2, <1>3

LEMMA MineKinds ==
  ASSUME Kinds, NEW c \in L1!Call, NEW step, NEW ok \in BOOLEAN,
         MinedTx(c, step, ok), Balances(step, ok), Posts(c, step, ok)
  PROVE  Kinds'
<1>1. mempool' \in Seq(Sent)
  BY TailIs DEF MinedTx, Kinds
<1>2. DOMAIN receipts' \subseteq Sent
  BY Zenon DEF MinedTx, Kinds
<1>3. inbox' \in Seq([secret : L1!Call, checkpoint : Nat])
  BY Zenon, InboxGrows
<1>4. balance' \in Nat /\ allowance' \in Nat /\ UNCHANGED <<calls, blocks, faults>>
  BY Zenon DEF Balances, MinedTx
<1> QED BY <1>1, <1>2, <1>3, <1>4, Zenon DEF Kinds

LEMMA MineReceipts ==
  ASSUME Kinds, Mining, NEW c \in L1!Call, NEW step \in {"mint", "approve", "deposit", "message"}, NEW ok \in BOOLEAN,
         MinedTx(c, step, ok), Posts(c, step, ok)
  PROVE  Mining'
<1> DEFINE x == <<c, step>>
<1>1. x[1] = c /\ x[2] = step
  OBVIOUS
<1>2. /\ DOMAIN receipts' = DOMAIN receipts \union {x}
      /\ \A y \in DOMAIN receipts \ {x} : receipts'[y] = receipts[y]
      /\ receipts'[x].status = (IF ok THEN "0x1" ELSE "0x0") /\ receipts'[x].index = Len(inbox')
      /\ step # "deposit" => ok
  BY Zenon DEF MinedTx
<1> HIDE DEF x
<1>3. ASSUME NEW y \in DOMAIN receipts \ {x} PROVE
        /\ receipts'[y].status = "0x1" /\ y[2] \in {"deposit", "message"} => OwnMessage(y[1], receipts[y].index)'
        /\ receipts'[y].status \in {"0x0", "0x1"} /\ (y[2] # "deposit" => receipts'[y].status = "0x1")
  <2>1. receipts'[y] = receipts[y]
    BY <1>2
  <2>2. ASSUME OwnMessage(y[1], receipts[y].index) PROVE OwnMessage(y[1], receipts[y].index)'
    <3>1. /\ receipts[y].index \in 1..Len(inbox') /\ inbox'[receipts[y].index] = inbox[receipts[y].index]
          /\ inbox[receipts[y].index].secret = y[1]
      BY <2>2, InboxGrows, Zenon DEF OwnMessage
    <3> QED BY <2>1, <3>1, Zenon DEF OwnMessage
  <2> QED BY <2>1, <2>2, Zenon DEF Mining
<1>4. /\ receipts'[x].status = "0x1" /\ x[2] \in {"deposit", "message"} => OwnMessage(x[1], receipts[x].index)'
      /\ receipts'[x].status \in {"0x0", "0x1"} /\ (x[2] # "deposit" => receipts'[x].status = "0x1")
  <2>1. receipts'[x].status \in {"0x0", "0x1"} /\ (x[2] # "deposit" => receipts'[x].status = "0x1")
    BY <1>1, <1>2, Zenon
  <2>2. ASSUME receipts'[x].status = "0x1", x[2] \in {"deposit", "message"} PROVE OwnMessage(x[1], receipts[x].index)'
    <3>1. ok
      BY <1>2, <2>2
    <3>2. Sending(step, ok)
      BY <1>1, <2>2, <3>1, Zenon DEF Sending
    <3> QED BY <1>1, <1>2, <3>2, InboxGrows, Zenon DEF OwnMessage
  <2> QED BY <2>1, <2>2, Zenon
<1> QED BY <1>2, <1>3, <1>4, Zenon DEF Mining

LEMMA MineClaims ==
  ASSUME Kinds, NEW c \in L1!Call, NEW step, NEW ok \in BOOLEAN,
         MinedTx(c, step, ok), Posts(c, step, ok), NEW d \in L1!Call, Claim(d)
  PROVE  Claim(d)'
<1>1. calls' = calls /\ blocks' = blocks
  BY Zenon DEF MinedTx
<1>2. OwnMessage(d, calls[d].index) =>
        OwnMessage(d, calls[d].index)' /\ inbox'[calls[d].index] = inbox[calls[d].index]
  BY <1>1, InboxGrows, Zenon DEF OwnMessage
<1>3. calls[d].pc \in {"block", "ready"} => calls[d].pc \in {"sent", "block", "ready"}
  OBVIOUS
<1> QED BY <1>1, <1>2, <1>3, Zenon DEF Claim

(* The order of c's own transactions; what happens to another call's deposit. *)
LEMMA MineOrder ==
  ASSUME Kinds, NEW c \in L1!Call, NEW step \in {"mint", "approve", "deposit", "message"}, NEW ok \in BOOLEAN,
         MinedTx(c, step, ok), NEW d \in Bridge, Order(d)
  PROVE  Order(d)' /\ (<<c, step>> = <<d, "deposit">> => Waits(d))
<1>1. /\ mempool' = Tail(mempool) /\ mempool # <<>> /\ mempool \in Seq(Sent) /\ Head(mempool) = <<c, step>>
      /\ DOMAIN receipts' = DOMAIN receipts \union {<<c, step>>} /\ calls' = calls
  BY Zenon DEF MinedTx, Kinds
<1>2. /\ Head(mempool) = mempool[1] /\ 1 \in DOMAIN mempool /\ DOMAIN mempool \subseteq Nat
      /\ \A i \in DOMAIN mempool' : i + 1 \in DOMAIN mempool /\ i + 1 # 1 /\ i \in Nat /\ mempool'[i] = mempool[i + 1]
  BY <1>1, TailIs
<1> DEFINE y == <<d, "deposit">>
<1>3. /\ Waits(d) <=> \E i \in DOMAIN mempool : mempool[i] = y
      /\ Waits(d)' <=> \E i \in DOMAIN mempool' : mempool'[i] = y
      /\ \A i, j \in DOMAIN mempool : mempool[i] = y /\ mempool[j] = y => i = j
  BY Zenon DEF Waits, Order
<1>4. \A s : Mined(d, s) => Mined(d, s)'
  BY <1>1, Zenon DEF Mined
<1>5. Mined(d, "deposit")' => Mined(d, "deposit") \/ <<c, step>> = y
  BY <1>1, Zenon DEF Mined
<1>6. Early(d)' <=> Early(d)
  BY <1>1, Zenon DEF Early
<1> HIDE DEF y
<1>7. Waits(d)' => Waits(d)
  BY <1>2, <1>3, Zenon
<1>8. <<c, step>> = y => Waits(d) /\ ~Waits(d)'
  <2> SUFFICES ASSUME <<c, step>> = y PROVE Waits(d) /\ ~Waits(d)'
    OBVIOUS
  <2>1. mempool[1] = y
    BY <1>1, <1>2, Zenon
  <2>2. Waits(d)
    BY <1>2, <1>3, <2>1, Zenon
  <2>3. \A i \in DOMAIN mempool' : mempool'[i] # y
    BY <1>2, <1>3, <2>1
  <2> QED BY <1>3, <2>2, <2>3, Zenon
<1>9. \A i, j \in DOMAIN mempool' : mempool'[i] = y /\ mempool'[j] = y => i = j
  <2> SUFFICES ASSUME NEW i \in DOMAIN mempool', NEW j \in DOMAIN mempool', mempool'[i] = y, mempool'[j] = y
               PROVE  i = j
    BY Zenon
  <2>1. i + 1 = j + 1 /\ i \in Nat /\ j \in Nat
    BY <1>2, <1>3, Zenon
  <2> QED BY <2>1
<1>10. Early(d)' => ~Waits(d)' /\ ~Mined(d, "deposit")'
  BY <1>5, <1>6, <1>7, <1>8, Zenon DEF Order
<1>11. Waits(d)' => ~Mined(d, "deposit")'
  BY <1>5, <1>7, <1>8, Zenon DEF Order
<1>12. Order(d)'
  BY <1>1, <1>4, <1>7, <1>9, <1>10, <1>11, Zenon DEF Order, y
<1> QED BY <1>8, <1>12, Zenon DEF y

(* Mining keeps the funds: a mint and an approval bring them, and only   *)
(* the deposit of another call takes them away.                          *)
LEMMA MineFunds ==
  ASSUME Kinds, NEW c \in L1!Call, NEW step \in {"mint", "approve", "deposit", "message"}, NEW ok \in BOOLEAN,
         MinedTx(c, step, ok), Balances(step, ok), Posts(c, step, ok), NEW d \in Bridge, Order(d), Funds(d)
  PROVE  Funds(d)'
<1>1. /\ DOMAIN receipts' = DOMAIN receipts \union {<<c, step>>} /\ <<c, step>> \in Sent
      /\ \A x \in DOMAIN receipts \ {<<c, step>>} : receipts'[x] = receipts[x]
      /\ receipts'[<<c, step>>].status = IF ok THEN "0x1" ELSE "0x0"
      /\ ok <=> step # "deposit" \/ (allowance > 0 /\ balance > 0)
  BY Zenon DEF MinedTx
<1>2. /\ \A e : Messaged(e) => Messaged(e)'
      /\ \A e : e # c \/ ~Sending(step, ok) => (Messaged(e)' => Messaged(e))
      /\ Sending(step, ok) => Messaged(c)'
  BY InboxGrows, Zenon
<1>3. Alone(d)' => Alone(d)
  BY <1>2, Zenon DEF Alone
<1>4. CASE <<c, step>> = <<d, "deposit">>
  <2>1. c = d /\ step = "deposit"
    BY <1>4
  <2>2. Mined(d, "mint") /\ Mined(d, "approve") /\ ~Mined(d, "deposit")
    BY <1>4, MineOrder, Zenon DEF Order
  <2>3. Mined(d, "deposit")'
    BY <1>1, <1>4, Zenon DEF Mined
  <2>4. Alone(d)' => ok
    BY <1>1, <1>3, <2>2, Zenon DEF Funds
  <2>5. Refused(d)' => ~ok
    <3>1. ASSUME ok PROVE receipts'[<<d, "deposit">>].status # "0x0"
      <4>1. receipts'[<<d, "deposit">>].status = "0x1"
        BY <1>1, <1>4, <3>1, Zenon
      <4> QED BY <4>1
    <3> QED BY <3>1, Zenon DEF Refused
  <2>6. ~ok => ~Messaged(d)'
    <3>1. ~ok => ~Sending(step, ok)
      BY <2>1 DEF Sending
    <3> QED BY <1>2, <2>2, <3>1, Zenon DEF Funds
  <2> QED BY <2>3, <2>4, <2>5, <2>6, Zenon DEF Funds
<1>5. CASE <<c, step>> # <<d, "deposit">>
  <2>1. Mined(d, "deposit")' <=> Mined(d, "deposit")
    BY <1>1, <1>5, Zenon DEF Mined
  <2>2. Refused(d)' <=> Refused(d)
    BY <1>1, <1>5, <2>1, Zenon DEF Refused, Mined
  <2>3. Messaged(d)' => Messaged(d)
    <3>1. CASE c = d
      <4>1. step # "deposit" /\ step # "message"
        BY <1>1, <1>5, <3>1 DEF Sent, Own
      <4> QED BY <1>2, <4>1, Zenon DEF Sending
    <3>2. CASE c # d
      BY <1>2, <3>2, Zenon
    <3> QED BY <3>1, <3>2
  <2>4. ASSUME Alone(d)' PROVE step # "deposit" \/ ~ok
    <3> SUFFICES ASSUME step = "deposit", ok PROVE FALSE
      BY Zenon
    <3>1. c # d /\ c \in Bridge
      BY <1>1, <1>5 DEF Sent, Own
    <3>2. Messaged(c)'
      BY <1>2, Zenon DEF Sending
    <3> QED BY <2>4, <3>1, <3>2, Zenon DEF Alone
  <2>5. ASSUME Alone(d)', ~Mined(d, "deposit")'
        PROVE  (Mined(d, "mint")' => balance' > 0) /\ (Mined(d, "approve")' => allowance' > 0)
    <3>1. (Mined(d, "mint") => balance > 0) /\ (Mined(d, "approve") => allowance > 0)
      BY <1>3, <2>1, <2>5, Zenon DEF Funds
    <3>2. (balance > 0 => balance' > 0) /\ (allowance > 0 => allowance' > 0)
      BY <2>4, <2>5, Zenon DEF Balances
    <3>3. Mined(d, "mint")' => Mined(d, "mint") \/ step = "mint"
      BY <1>1 DEF Mined
    <3>4. Mined(d, "approve")' => Mined(d, "approve") \/ step = "approve"
      BY <1>1 DEF Mined
    <3> QED BY <3>1, <3>2, <3>3, <3>4, Zenon DEF Balances
  <2> QED BY <1>3, <2>1, <2>2, <2>3, <2>5, Zenon DEF Funds
<1> QED BY <1>4, <1>5

LEMMA MineFailed ==
  ASSUME Kinds, NEW c \in L1!Call, NEW step \in {"mint", "approve", "deposit", "message"}, NEW ok \in BOOLEAN,
         MinedTx(c, step, ok), NEW d \in L1!Call, Failed(d), d \in Bridge => Order(d)
  PROVE  Failed(d)'
<1>1. calls' = calls /\ faults' = faults
  BY Zenon DEF MinedTx
<1>2. ASSUME d \in Bridge, Refused(d) PROVE Refused(d)'
  <2>1. <<c, step>> # <<d, "deposit">>
    <3> SUFFICES ASSUME <<c, step>> = <<d, "deposit">> PROVE FALSE
      OBVIOUS
    <3>1. Waits(d)
      BY <1>2, MineOrder, Zenon
    <3> QED BY <1>2, <3>1, Zenon DEF Order, Refused
  <2> QED BY <1>2, <2>1, Zenon DEF Refused, Mined, MinedTx
<1> QED BY <1>1, <1>2, Zenon DEF Failed

LEMMA MineStep ==
  ASSUME BridgeInv, L1!Mine
  PROVE  BridgeInv'
<1>1. PICK c \in L1!Call, step \in {"mint", "approve", "deposit", "message"}, ok \in BOOLEAN :
         MinedTx(c, step, ok) /\ Balances(step, ok) /\ Posts(c, step, ok)
  BY MineIs, Zenon DEF BridgeInv
<1>2. Kinds' /\ Mining'
  BY <1>1, MineKinds, MineReceipts, Zenon DEF BridgeInv
<1>3. \A d \in L1!Call : Claim(d)'
  BY <1>1, MineClaims, Zenon DEF BridgeInv
<1>4. \A d \in L1!Call : Failed(d)'
  BY <1>1, MineFailed, Zenon DEF BridgeInv
<1>5. \A d \in Bridge : Order(d)'
  BY <1>1, MineOrder, Zenon DEF BridgeInv
<1>6. \A d \in Bridge : Funds(d)'
  BY <1>1, MineFunds, Zenon DEF BridgeInv
<1> QED BY <1>2, <1>3, <1>4, <1>5, <1>6, Zenon DEF BridgeInv
-----------------------------------------------------------------------------
LEMMA BlockStep ==
  ASSUME BridgeInv, L1!NewBlock
  PROVE  BridgeInv'
<1>1. PICK k \in {L1!Checkpoint, L1!Checkpoint + 1} : k > 0 /\ blocks' = Append(blocks, k)
  BY Zenon DEF L1!NewBlock
<1>2. UNCHANGED <<calls, mempool, receipts, balance, allowance, inbox, faults>>
  BY Zenon DEF L1!NewBlock
<1>3. blocks \in Seq(Nat) /\ Len(blocks) \in Nat
  BY DEF BridgeInv, Kinds
<1>4. L1!Checkpoint \in Nat
  <2>1. CASE blocks = <<>>
    BY <2>1 DEF L1!Checkpoint
  <2>2. CASE blocks # <<>>
    <3>1. blocks[Len(blocks)] \in Nat
      BY <1>3, <2>2
    <3> QED BY <2>2, <3>1 DEF L1!Checkpoint
  <2> QED BY <2>1, <2>2
<1>5. k \in Nat
  BY <1>4
<1>6. blocks' \in Seq(Nat) /\ Len(blocks') = Len(blocks) + 1
  BY <1>1, <1>3, <1>5, AppendIs
<1>7. Kinds'
  BY <1>2, <1>6, Zenon DEF BridgeInv, Kinds
<1>8. Mining'
  BY <1>2, Zenon DEF BridgeInv, Mining, OwnMessage
<1>9. \A d \in Bridge : Order(d)'
  BY <1>2, Zenon DEF BridgeInv, Order, Early, Waits, Mined
<1>10. \A d \in Bridge : Funds(d)'
  BY <1>2, Zenon DEF BridgeInv, Funds, Mined, Refused, Alone, Messaged
<1>11. ASSUME NEW d \in L1!Call PROVE Failed(d)' /\ Claim(d)'
  <2>1. Failed(d)'
    BY <1>2, Zenon DEF BridgeInv, Failed, Refused, Mined
  <2>2. Claim(d)
    BY DEF BridgeInv
  <2>3. calls[d].pc = "ready" => Len(blocks') > 0 /\ calls[d].checkpoint <= Len(blocks')
    <3> SUFFICES ASSUME calls[d].pc = "ready" PROVE Len(blocks') > 0 /\ calls[d].checkpoint <= Len(blocks')
      OBVIOUS
    <3>1. /\ OwnMessage(d, calls[d].index) /\ calls[d].checkpoint = inbox[calls[d].index].checkpoint
          /\ calls[d].checkpoint <= Len(blocks)
      BY <2>2 DEF Claim
    <3>2. inbox \in Seq([secret : L1!Call, checkpoint : Nat]) /\ calls[d].index \in 1..Len(inbox)
      BY <3>1 DEF OwnMessage, BridgeInv, Kinds
    <3>3. inbox[calls[d].index] \in [secret : L1!Call, checkpoint : Nat]
      BY <3>2, ElementOf, Zenon
    <3>4. calls[d].checkpoint \in Nat
      BY <3>1, <3>3
    <3> QED BY <1>3, <1>6, <3>1, <3>4
  <2>4. Claim(d)'
    BY <1>2, <2>2, <2>3, Zenon DEF Claim, OwnMessage
  <2> QED BY <2>1, <2>4
<1> QED BY <1>7, <1>8, <1>9, <1>10, <1>11, Zenon DEF BridgeInv

LEMMA BridgeInit == L1!Init => BridgeInv
<1> SUFFICES ASSUME L1!Init PROVE BridgeInv
  OBVIOUS
<1>1. calls = [c \in L1!Call |-> [pc |-> L1!Steps(c)[1], polls |-> 0, step |-> 1, index |-> 0, checkpoint |-> 0]]
      /\ mempool = <<>> /\ receipts = <<>> /\ balance = 0 /\ allowance = 0
      /\ inbox = <<>> /\ blocks = <<>> /\ faults = 0
  BY Zenon DEF L1!Init
<1>2. DOMAIN mempool = {} /\ DOMAIN receipts = {} /\ DOMAIN inbox = {}
  BY <1>1
<1>3. \A c \in L1!Call : calls[c].pc = L1!Steps(c)[1] /\ calls[c].step = 1 /\ Shape(calls[c])
  BY <1>1 DEF Shape
<1>4. \A c \in L1!Call : 1 \in 1..Len(L1!Steps(c))
  BY StepsAre
<1>5. Kinds
  <2>1. mempool \in Seq(Sent) /\ inbox \in Seq([secret : L1!Call, checkpoint : Nat]) /\ blocks \in Seq(Nat)
    BY <1>1
  <2>2. DOMAIN calls = L1!Call
    BY <1>1, Zenon
  <2>3. balance \in Nat /\ allowance \in Nat /\ faults \in Nat
    BY <1>1
  <2> QED BY <1>2, <1>3, <1>4, <2>1, <2>2, <2>3, Zenon DEF Kinds
<1>6. Mining
  BY <1>2, Zenon DEF Mining
<1>7. ASSUME NEW c \in L1!Call PROVE calls[c].pc \in {"mint", "message"} /\ (c \in Bridge => calls[c].pc = "mint")
  BY <1>3, StepsAre
<1>8. ASSUME NEW c \in L1!Call PROVE Claim(c) /\ Failed(c)
  BY <1>7 DEF Claim, Failed
<1>9. ASSUME NEW c \in Bridge PROVE Order(c) /\ Funds(c)
  <2>1. c \in L1!Call
    BY DEF L1!Call
  <2>2. calls[c].pc = "mint"
    BY <1>7, <2>1
  <2>3. calls[c].pc # "approve" /\ calls[c].pc # "deposit" /\ calls[c].pc # "receipt"
    BY <2>2
  <2>4. ~Waits(c) /\ \A s : ~Mined(c, s)
    BY <1>2, Zenon DEF Waits, Mined
  <2>5. ~Messaged(c) /\ ~Refused(c)
    BY <1>2, <2>4, Zenon DEF Messaged, Refused
  <2>6. Order(c)
    BY <1>2, <2>3, <2>4, Zenon DEF Order
  <2>7. Funds(c)
    BY <2>4, <2>5, Zenon DEF Funds
  <2> QED BY <2>6, <2>7
<1> QED BY <1>5, <1>6, <1>8, <1>9, Zenon DEF BridgeInv

(* One case per action.                                                  *)
LEMMA BridgeStep ==
  ASSUME BridgeInv, [L1!Next]_(L1!vars)
  PROVE  BridgeInv'
<1>1. ASSUME NEW c \in L1!Call, L1!Step(c) \/ (L1!Running(c) /\ L1!RequestFails(c)) PROVE BridgeInv'
  BY <1>1, CallActs, CallStep, Zenon DEF BridgeInv
<1>2. CASE UNCHANGED L1!vars
  <2>1. UNCHANGED <<calls, mempool, receipts, balance, allowance, inbox, blocks, faults>>
    BY <1>2 DEF L1!vars
  <2>2. Kinds' /\ Mining'
    BY <2>1, Zenon DEF BridgeInv, Kinds, Mining, OwnMessage
  <2>3. \A c \in L1!Call : Claim(c)' /\ Failed(c)'
    BY <2>1, Zenon DEF BridgeInv, Claim, OwnMessage, Failed, Refused, Mined
  <2>4. \A c \in Bridge : Order(c)' /\ Funds(c)'
    BY <2>1, Zenon DEF BridgeInv, Order, Early, Waits, Funds, Mined, Refused, Alone, Messaged
  <2> QED BY <2>2, <2>3, <2>4, Zenon DEF BridgeInv
<1> QED BY <1>1, <1>2, MineStep, BlockStep, Zenon DEF L1!Next

(* What prepare_fee_juice_on_l1 returns can be claimed by its caller:    *)
(* the index of the receipt is that of the caller's own message, for any *)
(* number of calls that share the account, and when                      *)
(* is_l1_to_l2_message_ready says so the message is in the tree, if      *)
(* every checkpoint has one block. No assumption on the constants.       *)
THEOREM ClaimIsUsable == L1!Spec => []L1!ClaimUsable
<1>1. BridgeInv /\ [L1!Next]_(L1!vars) => BridgeInv'
  BY BridgeStep
<1>2. BridgeInv => L1!ClaimUsable
  <2> SUFFICES ASSUME BridgeInv, NEW c \in L1!Call, calls[c].pc = "ready"
               PROVE  /\ inbox[calls[c].index].secret = c
                      /\ (\A i \in DOMAIN blocks : blocks[i] = i) => inbox[calls[c].index].checkpoint <= L1!Checkpoint
    BY Zenon DEF L1!ClaimUsable
  <2>1. /\ OwnMessage(c, calls[c].index) /\ calls[c].checkpoint = inbox[calls[c].index].checkpoint
        /\ Len(blocks) > 0 /\ calls[c].checkpoint <= Len(blocks)
    BY DEF BridgeInv, Claim
  <2>2. ASSUME \A i \in DOMAIN blocks : blocks[i] = i PROVE L1!Checkpoint = Len(blocks)
    <3>1. blocks \in Seq(Nat)
      BY DEF BridgeInv, Kinds
    <3>2. blocks # <<>> /\ Len(blocks) \in DOMAIN blocks
      BY <2>1, <3>1
    <3> QED BY <2>2, <3>2 DEF L1!Checkpoint
  <2>3. inbox[calls[c].index].secret = c
    BY <2>1 DEF OwnMessage
  <2> QED BY <2>1, <2>2, <2>3, Zenon
<1> QED BY BridgeInit, <1>1, <1>2, PTL DEF L1!Spec

(* A deposit is refused only after another call's deposit has spent the  *)
(* allowance or the balance, and a call whose message is in the Inbox    *)
(* fails only by a failed request (prepare_fee_juice_on_l1: mint,        *)
(* approve, deposit, each after the receipt of the one before).          *)
THEOREM AloneLosesNone == L1!Spec => []L1!AloneLosesNothing
<1>1. BridgeInv /\ [L1!Next]_(L1!vars) => BridgeInv'
  BY BridgeStep
<1>2. BridgeInv => L1!AloneLosesNothing
  <2> SUFFICES ASSUME BridgeInv PROVE L1!AloneLosesNothing
    OBVIOUS
  <2>1. ASSUME NEW c \in Bridge, <<c, "deposit">> \in DOMAIN receipts, receipts[<<c, "deposit">>].status = "0x0"
        PROVE  \E d \in Bridge \ {c} : \E i \in DOMAIN inbox : inbox[i].secret = d
    BY <2>1, Zenon DEF BridgeInv, Funds, Refused, Mined, Alone, Messaged
  <2>2. ASSUME NEW i \in DOMAIN inbox, calls[inbox[i].secret].pc = "failed"
        PROVE  faults > 0
    <3> DEFINE c == inbox[i].secret
    <3>1. c \in L1!Call /\ faults \in Nat
      <4>1. inbox \in Seq([secret : L1!Call, checkpoint : Nat]) /\ faults \in Nat
        BY DEF BridgeInv, Kinds
      <4>2. inbox[i] \in [secret : L1!Call, checkpoint : Nat]
        BY <4>1, ElementOf, Zenon
      <4> QED BY <4>1, <4>2
    <3>2. Messaged(c)
      BY Zenon DEF Messaged
    <3>3. faults # 0
      BY <2>2, <3>1, <3>2, Zenon DEF BridgeInv, Failed, Funds
    <3> QED BY <3>1, <3>3
  <2> QED BY <2>1, <2>2, Zenon DEF L1!AloneLosesNothing
<1> QED BY BridgeInit, <1>1, <1>2, PTL DEF L1!Spec

-----------------------------------------------------------------------------
(* Deployment. *)
CONSTANTS Task, Account, Options, Zero, NoOne, MaxPrunes
VARIABLES chain, shown, known, prunes
Deploy == INSTANCE Deployment

(* What DeployOptions and the artifact hold, after with_effective_from too. *)
Effective ==
    [class : {o.class : o \in Options}, salt : {o.salt : o \in Options},
     from : {o.from : o \in Options} \union Account, universal : BOOLEAN,
     skip_class : BOOLEAN, skip_instance : BOOLEAN, skip_initialization : BOOLEAN,
     skip_registration : BOOLEAN]

(* The options are DeployOptions, and "no sender" is no account.         *)
DeployBounds ==
    /\ Options \subseteq Effective /\ NoOne \notin Account
    /\ MaxPolls \in Nat /\ MaxFaults \in Nat /\ MaxPrunes \in Nat

CallShape(r) ==
    r = [pc |-> r.pc, opts |-> r.opts, sender |-> r.sender, instance |-> r.instance,
         payload |-> r.payload, polls |-> r.polls, published |-> r.published,
         excused |-> r.excused]

(* What the payload of an instance may hold.                             *)
Items(instance) ==
    {Deploy!publish_contract_class(instance.class), Deploy!publish_instance(instance),
     [call |-> "constructor", to |-> Deploy!compute_contract_address_from_instance(instance)]}

CallTyped(task) ==
    /\ CallShape(calls[task]) /\ calls[task].pc \in Deploy!Pc /\ calls[task].polls \in 0..MaxPolls
    /\ calls[task].excused \in BOOLEAN

(* What a call has asked for. *)
Asks(task) ==
    IF calls[task].pc = "idle" THEN calls[task].payload = <<>>
    ELSE /\ calls[task].opts \in Effective /\ calls[task].sender \in Account
         /\ calls[task].instance = Deploy!get_instance(calls[task].opts)
         /\ calls[task].payload \in Seq(Items(calls[task].instance))

(* What its readings have shown. *)
Seen(task) ==
    ~calls[task].excused =>
        /\ calls[task].pc = "class2" => <<"instance", Deploy!AddressOf(task)>> \in shown
        /\ calls[task].pc = "ok" /\ ~calls[task].opts.skip_instance =>
              <<"instance", Deploy!AddressOf(task)>> \in shown /\ <<"class", calls[task].instance.class>> \in shown

Registered(task) ==
    calls[task].pc # "idle" /\ ~calls[task].opts.skip_registration => calls[task].instance \in known

Sound(task) == CallTyped(task) /\ Asks(task) /\ Seen(task) /\ Registered(task)

NodeShows == shown \subseteq chain /\ faults \in 0..MaxFaults /\ prunes \in 0..MaxPrunes

DeployInv == DOMAIN calls = Task /\ (\A task \in Task : Sound(task)) /\ NodeShows
-----------------------------------------------------------------------------
(* The payload. *)
LEMMA PayloadItems ==
  ASSUME NEW opts \in Effective, NEW registered \in BOOLEAN
  PROVE  Deploy!RequestPayload(opts, registered) \in Seq(Items(Deploy!get_instance(opts)))
<1> DEFINE inst == Deploy!get_instance(opts)
           A == Deploy!publish_contract_class(opts.class)
           B == Deploy!publish_instance(inst)
           C == [call |-> "constructor", to |-> Deploy!compute_contract_address_from_instance(inst)]
           a == IF opts.skip_class \/ registered THEN <<>> ELSE <<A>>
           b == IF opts.skip_instance THEN <<>> ELSE <<B>>
           c == IF opts.skip_initialization THEN <<>> ELSE <<C>>
<1>1. inst.class = opts.class
  BY DEF Deploy!get_instance
<1>2. Items(inst) = {A, B, C}
  BY <1>1, Zenon DEF Items
<1>3. Deploy!RequestPayload(opts, registered) = a \o b \o c
  BY Zenon DEF Deploy!RequestPayload
<1> HIDE DEF A, B, C
<1>6. <<>> \in Seq({A, B, C}) /\ <<A>> \in Seq({A, B, C}) /\ <<B>> \in Seq({A, B, C}) /\ <<C>> \in Seq({A, B, C})
  OBVIOUS
<1>4. a \in Seq({A, B, C}) /\ b \in Seq({A, B, C}) /\ c \in Seq({A, B, C})
  BY <1>6, Zenon
<1> HIDE DEF a, b, c
<1>5. a \o b \o c \in Seq({A, B, C})
  BY <1>4
<1> QED BY <1>2, <1>3, <1>5, Zenon

(* The options with the sender filled in are options.                    *)
LEMMA EffectiveOptions ==
  ASSUME DeployBounds, NEW opts \in Options, NEW from \in Account
  PROVE  Deploy!with_effective_from(opts, from) \in Effective
<1>1. opts \in Effective
  BY DEF DeployBounds
<1>2. [opts EXCEPT !.from = from] \in Effective
  BY <1>1 DEF Effective
<1> QED BY <1>1, <1>2 DEF Deploy!with_effective_from

(* What each of them says of the instance.                               *)
LEMMA ItemIs ==
  ASSUME NEW instance, NEW item \in Items(instance)
  PROVE  /\ item.call = "instance" =>
               /\ item.class = instance.class /\ item.salt = instance.salt
               /\ item.universal <=> instance.deployer = Zero
         /\ item.call = "constructor" => item.to = Deploy!compute_contract_address_from_instance(instance)
<1> DEFINE u == instance.deployer = Zero
<1>1. Deploy!publish_instance(instance) = [call |-> "instance", class |-> instance.class, salt |-> instance.salt, universal |-> u]
  BY Zenon DEF Deploy!publish_instance
<1>2. CASE item = Deploy!publish_instance(instance)
  <2>1. item = [call |-> "instance", class |-> instance.class, salt |-> instance.salt, universal |-> u]
    BY <1>1, <1>2, Zenon
  <2> HIDE DEF u
  <2>2. item.call = "instance" /\ item.class = instance.class /\ item.salt = instance.salt /\ item.universal = u
    BY <2>1
  <2>3. item.call # "constructor"
    BY <2>2
  <2>4. item.universal <=> instance.deployer = Zero
    BY <2>2, Zenon DEF u
  <2> QED BY <2>2, <2>3, <2>4, Zenon
<1> HIDE DEF u
<1>3. CASE item = Deploy!publish_contract_class(instance.class)
  BY <1>3 DEF Deploy!publish_contract_class
<1>4. CASE item = [call |-> "constructor", to |-> Deploy!compute_contract_address_from_instance(instance)]
  BY <1>4
<1> QED BY <1>2, <1>3, <1>4, Zenon DEF Items

(* A call whose record stays as it is, while the node and the wallet show more. *)
LEMMA CallKept ==
  ASSUME NEW task \in Task, Sound(task), calls'[task] = calls[task], known \subseteq known', shown \subseteq shown'
  PROVE  Sound(task)'
<1>1. Deploy!AddressOf(task)' = Deploy!AddressOf(task)
  BY Zenon DEF Deploy!AddressOf, Deploy!compute_contract_address_from_instance
<1>2. CallTyped(task)' /\ Asks(task)'
  BY Zenon DEF Sound, CallTyped, Asks
<1>3. Seen(task)' /\ Registered(task)'
  BY <1>1, Zenon DEF Sound, Seen, Registered
<1> QED BY <1>2, <1>3, Zenon DEF Sound

(* A call that moves on, or asks once more. *)
LEMMA CallMoves ==
  ASSUME NEW task \in Task, Sound(task), DOMAIN calls = Task, calls[task].pc \notin {"idle", "request"},
         NEW l \in Deploy!Pc \ {"idle", "request", "class2", "ok"}, NEW n \in 0..MaxPolls,
         calls'[task] = [calls[task] EXCEPT !.pc = l, !.polls = n], known' = known
  PROVE  Sound(task)'
<1>1. CallShape(calls'[task]) /\ calls'[task].pc = l /\ calls'[task].polls = n /\ calls'[task].opts = calls[task].opts
      /\ calls'[task].sender = calls[task].sender /\ calls'[task].instance = calls[task].instance
      /\ calls'[task].payload = calls[task].payload /\ calls'[task].excused = calls[task].excused
  BY Zenon DEF Sound, CallTyped, CallShape
<1>2. CallTyped(task)'
  BY <1>1, Zenon DEF Sound, CallTyped
<1>3. Asks(task)' /\ Registered(task)'
  BY <1>1, Zenon DEF Sound, Asks, Registered
<1>4. Seen(task)'
  BY <1>1, Zenon DEF Seen
<1> QED BY <1>2, <1>3, <1>4, Zenon DEF Sound

LEMMA BeginStep ==
  ASSUME DeployBounds, NEW task \in Task, Sound(task), DOMAIN calls = Task,
         NEW opts \in Options, NEW from \in Account, Deploy!Begin(task, opts, from)
  PROVE  Sound(task)'
<1> DEFINE eff == Deploy!with_effective_from(opts, from)
           inst == Deploy!get_instance(eff)
<1>1. eff \in Effective /\ (eff.skip_registration <=> opts.skip_registration)
  <2>1. eff.skip_registration = opts.skip_registration
    <3>1. opts \in Effective
      BY DEF DeployBounds
    <3>2. [opts EXCEPT !.from = from].skip_registration = opts.skip_registration
      BY <3>1 DEF Effective
    <3> QED BY <3>2, Zenon DEF Deploy!with_effective_from
  <2> QED BY <2>1, EffectiveOptions
<1>2. calls[task].pc = "idle" /\ calls' = [calls EXCEPT ![task] = [calls[task] EXCEPT
                !.pc = "request", !.opts = eff, !.sender = from, !.instance = inst]]
      /\ known' = IF opts.skip_registration THEN known ELSE known \cup {inst}
  BY Zenon DEF Deploy!Begin
<1> HIDE DEF eff
<1>9. CallShape(calls[task]) /\ calls[task].polls \in 0..MaxPolls /\ calls[task].excused \in BOOLEAN /\ calls[task].payload = <<>>
  BY <1>2, Zenon DEF Sound, CallTyped, Asks
<1> HIDE DEF inst
<1>3. /\ CallShape(calls'[task]) /\ calls'[task].pc = "request" /\ calls'[task].polls = calls[task].polls
      /\ calls'[task].opts = eff /\ calls'[task].sender = from /\ calls'[task].instance = inst
      /\ calls'[task].payload = calls[task].payload /\ calls'[task].excused = calls[task].excused
  BY Zenon, <1>2, <1>9 DEF CallShape
<1>4. CallTyped(task)'
  BY <1>3, <1>9, Zenon DEF CallTyped, Deploy!Pc
<1>5. <<>> \in Seq(Items(inst))
  OBVIOUS
<1>6. Asks(task)'
  BY <1>1, <1>3, <1>5, <1>9, Zenon DEF Asks, inst
<1>7. Seen(task)'
  BY <1>3 DEF Seen
<1>8. Registered(task)'
  <2>1. CASE opts.skip_registration
    BY <1>1, <1>3, <2>1, Zenon DEF Registered
  <2>2. CASE ~opts.skip_registration
    <3>1. inst \in known'
      BY <1>2, <2>2
    <3> QED BY <1>3, <3>1, Zenon DEF Registered
  <2> QED BY <2>1, <2>2
<1> QED BY <1>4, <1>6, <1>7, <1>8, Zenon DEF Sound

LEMMA RequestStep ==
  ASSUME NEW task \in Task, Sound(task), DOMAIN calls = Task, Deploy!Request(task)
  PROVE  Sound(task)'
<1>1. PICK registered \in BOOLEAN :
        calls' = [calls EXCEPT ![task].pc = "send", ![task].payload = Deploy!RequestPayload(calls[task].opts, registered)]
  BY Zenon DEF Deploy!Request
<1> DEFINE pay == Deploy!RequestPayload(calls[task].opts, registered)
<1>2. /\ CallShape(calls[task]) /\ calls[task].polls \in 0..MaxPolls /\ calls[task].excused \in BOOLEAN
      /\ calls[task].opts \in Effective /\ calls[task].sender \in Account /\ calls[task].pc = "request"
      /\ calls[task].instance = Deploy!get_instance(calls[task].opts) /\ known' = known
  BY Zenon DEF Sound, CallTyped, Asks, Deploy!Request
<1>3. pay \in Seq(Items(calls[task].instance))
  BY <1>2, PayloadItems
<1> HIDE DEF pay
<1>4. calls' = [calls EXCEPT ![task].pc = "send", ![task].payload = pay]
  BY <1>1 DEF pay
<1>5. /\ CallShape(calls'[task]) /\ calls'[task].pc = "send" /\ calls'[task].polls = calls[task].polls
      /\ calls'[task].opts = calls[task].opts /\ calls'[task].sender = calls[task].sender
      /\ calls'[task].instance = calls[task].instance
      /\ calls'[task].payload = pay /\ calls'[task].excused = calls[task].excused
  BY Zenon, <1>2, <1>4 DEF CallShape
<1>6. CallTyped(task)'
  BY <1>2, <1>5, Zenon DEF CallTyped, Deploy!Pc
<1>7. Asks(task)'
  BY <1>2, <1>3, <1>5, Zenon DEF Asks
<1>8. Seen(task)'
  BY <1>5 DEF Seen
<1>9. Registered(task)'
  <2>1. Registered(task) /\ calls[task].pc # "idle"
    BY <1>2 DEF Sound
  <2> QED BY <1>2, <1>5, <2>1, Zenon DEF Registered
<1> QED BY <1>6, <1>7, <1>8, <1>9, Zenon DEF Sound

LEMMA SendStep ==
  ASSUME NEW task \in Task, Sound(task), DOMAIN calls = Task, Deploy!Send(task)
  PROVE  Sound(task)'
<1> DEFINE sent == Deploy!Emitted(calls[task].payload, calls[task].sender)
           l == IF calls[task].opts.skip_instance THEN "ok" ELSE "contract"
<1>1. /\ CallTyped(task) /\ Asks(task) /\ Registered(task) /\ CallShape(calls[task]) /\ calls[task].polls \in 0..MaxPolls
      /\ calls[task].excused \in BOOLEAN /\ calls[task].pc = "send" /\ known' = known
  BY Zenon DEF Sound, CallTyped, Deploy!Send
<1>2. \/ calls' = [calls EXCEPT ![task].published = sent, ![task].pc = l]
      \/ calls' = [calls EXCEPT ![task].pc = "refused"]
  BY Zenon DEF Deploy!Send, Deploy!Goto
<1>3. l \in {"ok", "contract"} /\ (l = "ok" => calls[task].opts.skip_instance)
  <2>1. "contract" # "ok"
    OBVIOUS
  <2> QED BY <2>1, Zenon
<1> HIDE DEF sent, l
<1>4. PICK k \in {l, "refused"} :
         /\ CallShape(calls'[task]) /\ calls'[task].pc = k /\ calls'[task].polls = calls[task].polls
         /\ calls'[task].opts = calls[task].opts /\ calls'[task].sender = calls[task].sender
         /\ calls'[task].instance = calls[task].instance
         /\ calls'[task].payload = calls[task].payload /\ calls'[task].excused = calls[task].excused
  <2>1. CASE calls' = [calls EXCEPT ![task].published = sent, ![task].pc = l]
    <3>1. /\ CallShape(calls'[task]) /\ calls'[task].pc = l /\ calls'[task].polls = calls[task].polls
          /\ calls'[task].opts = calls[task].opts /\ calls'[task].sender = calls[task].sender
          /\ calls'[task].instance = calls[task].instance
          /\ calls'[task].payload = calls[task].payload /\ calls'[task].excused = calls[task].excused
      BY Zenon, <1>1, <2>1 DEF CallShape
    <3> QED BY <3>1, Zenon
  <2>2. CASE calls' = [calls EXCEPT ![task].pc = "refused"]
    <3>1. /\ CallShape(calls'[task]) /\ calls'[task].pc = "refused" /\ calls'[task].polls = calls[task].polls
          /\ calls'[task].opts = calls[task].opts /\ calls'[task].sender = calls[task].sender
          /\ calls'[task].instance = calls[task].instance
          /\ calls'[task].payload = calls[task].payload /\ calls'[task].excused = calls[task].excused
      BY <1>1, <2>2 DEF CallShape
    <3> QED BY <3>1, Zenon
  <2> QED BY <1>2, <2>1, <2>2, Zenon
<1>5. k \in Deploy!Pc /\ k # "idle" /\ k # "class2" /\ (k = "ok" => calls[task].opts.skip_instance)
  BY <1>3 DEF Deploy!Pc
<1>6. CallTyped(task)'
  BY <1>1, <1>4, <1>5, Zenon DEF CallTyped
<1>7. Asks(task)'
  BY <1>1, <1>4, <1>5, Zenon DEF Asks
<1>8. Seen(task)'
  BY <1>4, <1>5, Zenon DEF Seen
<1>9. Registered(task)'
  BY <1>1, <1>4, <1>5, Zenon DEF Registered
<1> QED BY <1>6, <1>7, <1>8, <1>9, Zenon DEF Sound

LEMMA ReadStep ==
  ASSUME DeployBounds, NEW task \in Task, Sound(task), DOMAIN calls = Task, Deploy!Read(task)
  PROVE  Sound(task)'
<1>1. /\ CallTyped(task) /\ Asks(task) /\ Seen(task) /\ Registered(task) /\ CallShape(calls[task]) /\ calls[task].polls \in 0..MaxPolls
      /\ calls[task].excused \in BOOLEAN /\ known' = known /\ shown' = shown
  BY Zenon DEF Sound, CallTyped, Deploy!Read
<1>2. DOMAIN Deploy!Readings = {"contract", "class", "contract2", "class2"}
  BY DEF Deploy!Readings
<1>3. calls[task].pc \in {"contract", "class", "contract2", "class2"}
  BY <1>2, Zenon DEF Deploy!Read
<1>4. CASE Deploy!Goto(task, "failed")
  <2>1. calls'[task] = [calls[task] EXCEPT !.pc = "failed", !.polls = calls[task].polls]
    BY Zenon, <1>1, <1>4 DEF Deploy!Goto, CallShape
  <2>2. "failed" \in Deploy!Pc \ {"idle", "request", "class2", "ok"} /\ calls[task].pc \notin {"idle", "request"}
    BY <1>3 DEF Deploy!Pc
  <2> QED BY Zenon, <1>1, <2>1, <2>2, CallMoves
<1>5. CASE Deploy!Miss(task)
  <2>1. CASE calls[task].polls >= MaxPolls
    <3>1. calls'[task] = [calls[task] EXCEPT !.pc = "timeout", !.polls = calls[task].polls]
      <4>1. calls' = [calls EXCEPT ![task].pc = "timeout"]
        BY <1>5, <2>1, Zenon DEF Deploy!Miss, Deploy!Goto
      <4> QED BY Zenon, <1>1, <4>1 DEF CallShape
    <3>2. "timeout" \in Deploy!Pc \ {"idle", "request", "class2", "ok"} /\ calls[task].pc \notin {"idle", "request"}
      BY <1>3 DEF Deploy!Pc
    <3> QED BY Zenon, <1>1, <3>1, <3>2, CallMoves
  <2>2. CASE ~(calls[task].polls >= MaxPolls)
    <3>1. calls'[task] = [calls[task] EXCEPT !.pc = "contract", !.polls = calls[task].polls + 1]
      <4>1. calls' = [calls EXCEPT ![task].pc = "contract", ![task].polls = calls[task].polls + 1]
        BY <1>5, <2>2 DEF Deploy!Miss
      <4> QED BY <1>1, <4>1 DEF CallShape
    <3>2. "contract" \in Deploy!Pc \ {"idle", "request", "class2", "ok"} /\ calls[task].pc \notin {"idle", "request"}
      BY <1>3 DEF Deploy!Pc
    <3>3. calls[task].polls + 1 \in 0..MaxPolls
      BY <1>1, <2>2 DEF DeployBounds
    <3> QED BY Zenon, <1>1, <3>1, <3>2, <3>3, CallMoves
  <2> QED BY <2>1, <2>2
<1>6. CASE Deploy!Answers(task) /\ Deploy!Goto(task, Deploy!NextReading(calls[task].pc))
  <2>1. CASE calls[task].pc \in {"contract", "class"}
    <3>1. Deploy!NextReading(calls[task].pc) \in {"class", "contract2"}
      BY <2>1 DEF Deploy!NextReading, Deploy!Readings
    <3>2. calls'[task] = [calls[task] EXCEPT !.pc = Deploy!NextReading(calls[task].pc), !.polls = calls[task].polls]
      BY Zenon, <1>1, <1>6 DEF Deploy!Goto, CallShape
    <3>3. Deploy!NextReading(calls[task].pc) \in Deploy!Pc \ {"idle", "request", "class2", "ok"} /\ calls[task].pc \notin {"idle", "request"}
      BY <1>3, <3>1 DEF Deploy!Pc
    <3> QED BY Zenon, <1>1, <3>2, <3>3, CallMoves
  <2>2. CASE calls[task].pc \in {"contract2", "class2"}
    <3> DEFINE l == Deploy!NextReading(calls[task].pc)
    <3>1. /\ calls[task].pc = "contract2" => l = "class2" /\ <<"instance", Deploy!AddressOf(task)>> \in shown
          /\ calls[task].pc = "class2" => l = "ok" /\ <<"class", calls[task].instance.class>> \in shown
      <4>1. calls[task].pc = "contract2" => l = "class2"
        BY DEF Deploy!NextReading, Deploy!Readings
      <4>2. calls[task].pc = "class2" => l = "ok"
        BY DEF Deploy!NextReading, Deploy!Readings
      <4>3. calls[task].pc = "contract2" => <<"instance", Deploy!AddressOf(task)>> \in shown
        BY <1>6, Zenon DEF Deploy!Answers
      <4>4. calls[task].pc = "class2" => <<"class", calls[task].instance.class>> \in shown
        <5> SUFFICES ASSUME calls[task].pc = "class2" PROVE <<"class", calls[task].instance.class>> \in shown
          OBVIOUS
        <5>1. calls[task].pc \notin {"contract", "contract2"}
          OBVIOUS
        <5> QED BY <1>6, <5>1, Zenon DEF Deploy!Answers
      <4> QED BY <4>1, <4>2, <4>3, <4>4, Zenon
    <3> HIDE DEF l
    <3>2. calls' = [calls EXCEPT ![task].pc = l]
      BY <1>6, Zenon DEF Deploy!Goto, l
    <3>3. /\ CallShape(calls'[task]) /\ calls'[task].pc = l /\ calls'[task].polls = calls[task].polls
          /\ calls'[task].opts = calls[task].opts /\ calls'[task].sender = calls[task].sender
          /\ calls'[task].instance = calls[task].instance
          /\ calls'[task].payload = calls[task].payload /\ calls'[task].excused = calls[task].excused
      BY <1>1, <3>2 DEF CallShape
    <3>4. Deploy!AddressOf(task)' = Deploy!AddressOf(task)
      BY <3>3, Zenon DEF Deploy!AddressOf, Deploy!compute_contract_address_from_instance
    <3>5. l \in Deploy!Pc /\ l # "idle" /\ calls[task].pc # "idle" /\ (l = "class2" => calls[task].pc = "contract2")
          /\ (l = "ok" => calls[task].pc = "class2")
      BY <2>2, <3>1 DEF Deploy!Pc
    <3>6. CallTyped(task)'
      BY <1>1, <3>3, <3>5, Zenon DEF CallTyped
    <3>7. Asks(task)'
      BY <1>1, <3>3, <3>5, Zenon DEF Asks
    <3>8. Registered(task)'
      BY <1>1, <3>3, <3>5, Zenon DEF Registered
    <3>9. Seen(task)'
      BY <1>1, <3>1, <3>3, <3>4, <3>5, Zenon DEF Seen
    <3> QED BY <3>6, <3>7, <3>8, <3>9, Zenon DEF Sound
  <2> QED BY <1>3, <2>1, <2>2
<1> QED BY <1>4, <1>5, <1>6, Zenon DEF Deploy!Read

LEMMA PruneStep ==
  ASSUME NEW task \in Task, Sound(task), NEW u \in Task, Deploy!Prune(u)
  PROVE  Sound(task)'
<1> DEFINE ex == calls[task].excused \/ calls[task].pc \in {"class2", "ok"}
           pub == IF task = u THEN {} ELSE calls[task].published
<1>1. calls'[task] = [calls[task] EXCEPT !.published = pub, !.excused = ex] /\ known' = known
  BY Zenon DEF Deploy!Prune
<1>2. ex \in BOOLEAN
  BY Zenon
<1>3. ~ex => ~calls[task].excused /\ calls[task].pc \notin {"class2", "ok"}
  BY Zenon
<1>4. /\ CallTyped(task) /\ Asks(task) /\ Registered(task) /\ CallShape(calls[task]) /\ calls[task].pc \in Deploy!Pc /\ calls[task].polls \in 0..MaxPolls
  BY Zenon DEF Sound, CallTyped
<1> HIDE DEF ex, pub
<1>5. /\ CallShape(calls'[task]) /\ calls'[task].pc = calls[task].pc /\ calls'[task].polls = calls[task].polls
      /\ calls'[task].opts = calls[task].opts /\ calls'[task].sender = calls[task].sender
      /\ calls'[task].instance = calls[task].instance
      /\ calls'[task].payload = calls[task].payload /\ calls'[task].excused = ex
  BY Zenon, <1>1, <1>4 DEF CallShape
<1>6. CallTyped(task)'
  BY <1>2, <1>4, <1>5, Zenon DEF CallTyped
<1>7. Asks(task)'
  BY <1>4, <1>5, Zenon DEF Asks
<1>8. Registered(task)'
  BY <1>1, <1>4, <1>5, Zenon DEF Registered
<1>9. Seen(task)'
  BY <1>3, <1>5, Zenon DEF Seen
<1> QED BY <1>6, <1>7, <1>8, <1>9, Zenon DEF Sound

LEMMA OthersKept ==
  ASSUME DOMAIN calls = Task, NEW task \in Task,
         \/ \E opts \in Options, from \in Account : Deploy!Begin(task, opts, from)
         \/ Deploy!Request(task) \/ Deploy!Send(task) \/ Deploy!Read(task)
  PROVE  /\ DOMAIN calls' = Task /\ \A u \in Task \ {task} : calls'[u] = calls[u]
         /\ known \subseteq known' /\ shown' = shown
<1>1. DOMAIN calls' = Task /\ \A u \in Task \ {task} : calls'[u] = calls[u]
  <2>1. CASE Deploy!Request(task) \/ Deploy!Read(task)
    <3>1. \E l, p : \/ calls' = [calls EXCEPT ![task].pc = l]
                    \/ calls' = [calls EXCEPT ![task].pc = l, ![task].payload = p]
                    \/ calls' = [calls EXCEPT ![task].pc = l, ![task].polls = p]
      BY Zenon, <2>1 DEF Deploy!Request, Deploy!Read, Deploy!Goto, Deploy!Miss
    <3> QED BY <3>1
  <2>2. CASE Deploy!Send(task)
    <3>1. \E l, p : \/ calls' = [calls EXCEPT ![task].pc = l]
                    \/ calls' = [calls EXCEPT ![task].published = p, ![task].pc = l]
      BY <2>2, Zenon DEF Deploy!Send, Deploy!Goto
    <3> QED BY <3>1
  <2>3. CASE \E opts \in Options, from \in Account : Deploy!Begin(task, opts, from)
    <3>1. \E r : calls' = [calls EXCEPT ![task] = r]
      BY <2>3, Zenon DEF Deploy!Begin
    <3> QED BY <3>1
  <2> QED BY <2>1, <2>2, <2>3
<1>2. known \subseteq known'
  BY Zenon DEF Deploy!Begin, Deploy!Request, Deploy!Send, Deploy!Read
<1>3. shown' = shown
  BY Zenon DEF Deploy!Begin, Deploy!Request, Deploy!Send, Deploy!Read
<1> QED BY <1>1, <1>2, <1>3, Zenon

LEMMA DeployInit ==
  ASSUME DeployBounds, Deploy!Init
  PROVE  DeployInv
<1> DEFINE first == CHOOSE o \in Options : TRUE
<1>1. calls = [task \in Task |-> [pc |-> "idle", opts |-> first, sender |-> NoOne,
         instance |-> Deploy!NoInstance, payload |-> <<>>, polls |-> 0, published |-> {}, excused |-> FALSE]]
  BY Zenon DEF Deploy!Init, Deploy!Idle
<1> HIDE DEF first
<1>2. ASSUME NEW task \in Task PROVE Sound(task)
  <2>1. /\ CallShape(calls[task]) /\ calls[task].pc = "idle" /\ calls[task].polls = 0 /\ calls[task].payload = <<>>
        /\ calls[task].excused = FALSE
    BY Zenon, <1>1 DEF CallShape
  <2>2. 0 \in 0..MaxPolls
    BY DEF DeployBounds
  <2>3. CallTyped(task)
    BY <2>1, <2>2, Zenon DEF CallTyped, Deploy!Pc
  <2>4. Asks(task)
    BY <2>1, Zenon DEF Asks
  <2>5. Seen(task) /\ Registered(task)
    BY <2>1 DEF Seen, Registered
  <2> QED BY <2>3, <2>4, <2>5 DEF Sound
<1>3. NodeShows
  BY DEF Deploy!Init, NodeShows, DeployBounds
<1>4. DOMAIN calls = Task
  BY <1>1
<1> QED BY <1>2, <1>3, <1>4 DEF DeployInv

LEMMA NodeStep ==
  ASSUME DeployBounds, NodeShows, [Deploy!Next]_(Deploy!vars)
  PROVE  NodeShows'
<1>1. ASSUME NEW task \in Task, Deploy!Prune(task) PROVE NodeShows'
  <2>1. /\ prunes < MaxPrunes /\ prunes' = prunes + 1 /\ faults' = faults
        /\ chain' = chain \ calls[task].published /\ shown' = shown \ calls[task].published
    BY <1>1, Zenon DEF Deploy!Prune
  <2>2. shown' \subseteq chain'
    BY <2>1, Zenon DEF NodeShows
  <2> QED BY <2>1, <2>2 DEF NodeShows, DeployBounds
<1>2. CASE Deploy!ShowPublication
  BY <1>2 DEF Deploy!ShowPublication, NodeShows
<1>3. CASE UNCHANGED Deploy!vars
  BY <1>3 DEF Deploy!vars, NodeShows
<1>4. ASSUME NEW task \in Task, Deploy!Deploy(task) PROVE NodeShows'
  <2>1. shown' = shown /\ prunes' = prunes /\ chain \subseteq chain'
    BY <1>4, Zenon DEF Deploy!Deploy, Deploy!Begin, Deploy!Request, Deploy!Send, Deploy!Read
  <2>2. faults' = faults \/ (faults < MaxFaults /\ faults' = faults + 1)
    BY <1>4, Zenon DEF Deploy!Deploy, Deploy!Begin, Deploy!Request, Deploy!Send, Deploy!Read, Deploy!Fail
  <2> QED BY <2>1, <2>2 DEF NodeShows, DeployBounds
<1> QED BY <1>1, <1>2, <1>3, <1>4 DEF Deploy!Next

(* One case per action.                                                  *)
LEMMA DeployStep ==
  ASSUME DeployBounds, DeployInv, [Deploy!Next]_(Deploy!vars)
  PROVE  DeployInv'
<1>1. NodeShows'
  BY NodeStep DEF DeployInv
<1>2. DOMAIN calls = Task /\ \A task \in Task : Sound(task)
  BY DEF DeployInv
<1>3. ASSUME NEW task \in Task, Deploy!Deploy(task) PROVE DOMAIN calls' = Task /\ \A u \in Task : Sound(u)'
  <2>1. Sound(task)'
    BY <1>2, <1>3, BeginStep, RequestStep, SendStep, ReadStep DEF Deploy!Deploy
  <2>2. /\ DOMAIN calls' = Task /\ \A u \in Task \ {task} : calls'[u] = calls[u]
        /\ known \subseteq known' /\ shown \subseteq shown'
    BY <1>2, <1>3, OthersKept, Zenon DEF Deploy!Deploy
  <2>3. ASSUME NEW u \in Task \ {task} PROVE Sound(u)'
    BY <1>2, <2>2, CallKept
  <2> QED BY <2>1, <2>2, <2>3
<1>4. ASSUME NEW task \in Task, Deploy!Prune(task) PROVE DOMAIN calls' = Task /\ \A u \in Task : Sound(u)'
  <2>1. DOMAIN calls' = Task
    BY <1>4, Zenon DEF Deploy!Prune
  <2> QED BY <1>2, <1>4, <2>1, PruneStep
<1>5. CASE Deploy!ShowPublication \/ UNCHANGED Deploy!vars
  <2>1. calls' = calls /\ known' = known /\ shown \subseteq shown'
    BY <1>5 DEF Deploy!ShowPublication, Deploy!vars
  <2>2. ASSUME NEW task \in Task PROVE Sound(task)'
    BY <1>2, <2>1, CallKept
  <2> QED BY <1>1, <1>2, <2>1, <2>2 DEF DeployInv
<1> QED BY <1>1, <1>3, <1>4, <1>5 DEF Deploy!Next, DeployInv

(* Every variable of the deployments keeps its type.                     *)
THEOREM DeployTypeCorrect ==
  ASSUME DeployBounds
  PROVE  Deploy!Spec => []Deploy!TypeOK
<1>1. Deploy!Init => DeployInv
  BY DeployInit
<1>2. DeployInv /\ [Deploy!Next]_(Deploy!vars) => DeployInv'
  BY DeployStep
<1>3. DeployInv => Deploy!TypeOK
  BY Zenon DEF DeployInv, NodeShows, Sound, CallTyped, Deploy!TypeOK
<1> QED BY <1>1, <1>2, <1>3, PTL DEF Deploy!Spec

(* The payload deploys what is returned.                                 *)
LEMMA ReturnedInstance ==
  ASSUME DeployBounds, NEW task \in Task, Sound(task), Deploy!NamesSender(task), NEW i \in DOMAIN calls[task].payload
  PROVE  /\ calls[task].payload[i].call = "instance" =>
               Deploy!PublishedInstance(calls[task].payload[i], calls[task].sender) = calls[task].instance
         /\ calls[task].payload[i].call = "constructor" => calls[task].payload[i].to = Deploy!AddressOf(task)
<1> DEFINE item == calls[task].payload[i]
           inst == calls[task].instance
           opts == calls[task].opts
<1>1. calls[task].pc # "idle"
  <2>1. calls[task].payload = <<>> => i \notin DOMAIN calls[task].payload
    OBVIOUS
  <2> QED BY <2>1, Zenon DEF Sound, Asks
<1>2. opts \in Effective /\ calls[task].sender \in Account /\ inst = Deploy!get_instance(opts) /\ calls[task].payload \in Seq(Items(inst))
  BY <1>1, Zenon DEF Sound, Asks
<1>3. item \in Items(inst)
  <2> DEFINE its == Items(inst)
             pay == calls[task].payload
  <2>1. pay \in Seq(its) /\ i \in DOMAIN pay
    BY <1>2
  <2> HIDE DEF its, pay
  <2>2. pay[i] \in its
    BY <2>1
  <2> QED BY <2>2 DEF its, pay
<1>i. /\ item.call = "instance" =>
            item.class = inst.class /\ item.salt = inst.salt /\ (item.universal <=> inst.deployer = Zero)
      /\ item.call = "constructor" => item.to = Deploy!compute_contract_address_from_instance(inst)
  <2> HIDE DEF item, inst
  <2> QED BY <1>3, ItemIs, Zenon
<1>4. item.call = "constructor" => item.to = Deploy!AddressOf(task)
  BY <1>i, Zenon DEF Deploy!AddressOf
<1>5. ASSUME item.call = "instance" PROVE Deploy!PublishedInstance(item, calls[task].sender) = inst
  <2>1. item.class = inst.class /\ item.salt = inst.salt /\ (item.universal <=> inst.deployer = Zero)
    BY <1>5, <1>i, Zenon
  <2>2. inst = [class |-> opts.class, salt |-> opts.salt, deployer |-> inst.deployer]
    BY <1>2 DEF Deploy!get_instance
  <2>3. inst.deployer = IF opts.universal \/ opts.from = NoOne THEN Zero ELSE opts.from
    BY <1>2 DEF Deploy!get_instance
  <2>4. opts.universal \/ (opts.from = calls[task].sender /\ opts.from # NoOne)
    BY <1>2, Zenon DEF Deploy!NamesSender, DeployBounds
  <2>5. inst.deployer = Zero \/ inst.deployer = calls[task].sender
    BY <2>3, <2>4, Zenon
  <2>6. inst.deployer = IF item.universal THEN Zero ELSE calls[task].sender
    BY <2>1, <2>5, Zenon
  <2>7. Deploy!PublishedInstance(item, calls[task].sender) = [class |-> inst.class, salt |-> inst.salt, deployer |-> inst.deployer]
    BY <2>1, <2>6, Zenon DEF Deploy!PublishedInstance
  <2>8. Deploy!PublishedInstance(item, calls[task].sender) = [class |-> opts.class, salt |-> opts.salt, deployer |-> inst.deployer]
    <3>1. inst.class = opts.class /\ inst.salt = opts.salt
      BY <1>2 DEF Deploy!get_instance
    <3> QED BY <2>7, <3>1, Zenon
  <2> QED BY <2>2, <2>8, Zenon
<1> QED BY <1>4, <1>5, Zenon

(* The instance that DeployMethod::send publishes and the address it     *)
(* initializes are those of the instance it returns, whatever is skipped *)
(* and however many deployments run, if the sender is the one the        *)
(* options name (get_instance, request).                                 *)
THEOREM PublishesReturned ==
  ASSUME DeployBounds
  PROVE  Deploy!Spec => []Deploy!PublishedIsReturned
<1>1. Deploy!Init => DeployInv
  BY DeployInit
<1>2. DeployInv /\ [Deploy!Next]_(Deploy!vars) => DeployInv'
  BY DeployStep
<1>3. DeployInv => Deploy!PublishedIsReturned
  BY ReturnedInstance, Zenon DEF DeployInv, Deploy!PublishedIsReturned
<1> QED BY <1>1, <1>2, <1>3, PTL DEF Deploy!Spec

(* When send has returned Ok, the node shows the instance and its class  *)
(* and the wallet knows the instance, for any number of deployments,     *)
(* unless a block was pruned after the last reading                      *)
(* (BaseWallet::wait_for_contract).                                      *)
THEOREM DeployedShown ==
  ASSUME DeployBounds
  PROVE  Deploy!Spec => []Deploy!DeployedIsVisible
<1>1. Deploy!Init => DeployInv
  BY DeployInit
<1>2. DeployInv /\ [Deploy!Next]_(Deploy!vars) => DeployInv'
  BY DeployStep
<1>3. DeployInv => Deploy!DeployedIsVisible
  <2> SUFFICES ASSUME DeployInv, NEW task \in Task, calls[task].pc = "ok", ~calls[task].excused, ~calls[task].opts.skip_instance
               PROVE  /\ <<"instance", Deploy!AddressOf(task)>> \in shown
                      /\ <<"class", calls[task].instance.class>> \in shown
                      /\ ~calls[task].opts.skip_registration => calls[task].instance \in known
    BY Zenon DEF Deploy!DeployedIsVisible
  <2>1. Seen(task) /\ Registered(task)
    BY DEF DeployInv, Sound
  <2>2. calls[task].pc # "idle"
    OBVIOUS
  <2> QED BY <2>1, <2>2, Zenon DEF Seen, Registered
<1> QED BY <1>1, <1>2, <1>3, PTL DEF Deploy!Spec
=============================================================================
