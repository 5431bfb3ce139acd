------------------------------ MODULE L1Bridge -------------------------------
(****************************************************************************)
(* Messages from L1 to L2 (crates/ethereum/src): prepare_fee_juice_on_l1    *)
(* mints, approves and deposits on L1 and returns what a claim needs;       *)
(* send_l1_to_l2_message puts a plain message in the Inbox;                 *)
(* wait_for_l1_to_l2_message_ready polls the node until the message can be  *)
(* consumed.  The calls share one L1 account, hence one balance and one     *)
(* allowance, and its transactions are mined in the order they are sent.    *)
(*                                                                          *)
(* The L1 contracts and the node are external: `approve` replaces the       *)
(* allowance, a message gets the number of a checkpoint still to come, and  *)
(* it enters the message tree with the first block of that checkpoint.      *)
(* A checkpoint holds one block or several.                                 *)
(****************************************************************************)
EXTENDS Integers, Sequences, FiniteSets

CONSTANTS Bridge, Message,  \* calls that bridge fee juice, that send a message
          MaxBlocks,        \* L2 blocks
          MaxPolls,         \* readings before a wait gives up
          MaxFaults         \* failed requests

VARIABLES calls,       \* call -> [pc, polls, index, checkpoint]
          mempool,     \* L1 transactions sent and not yet mined
          receipts,    \* L1 transaction -> its receipt
          balance, allowance,
          inbox,       \* messages: the secret, and the checkpoint it is in
          blocks,      \* L2 blocks: the checkpoint each belongs to
          faults

vars == <<calls, mempool, receipts, balance, allowance, inbox, blocks, faults>>

Call == Bridge \cup Message

------------------------------------------------------------------------------
Goto(c, pc) == calls' = [calls EXCEPT ![c].pc = pc, ![c].polls = 0]

\* A request that fails ends the call: every `?` returns the error.
RequestFails(c) ==
    /\ faults < MaxFaults
    /\ faults' = faults + 1
    /\ Goto(c, "failed")
    /\ UNCHANGED <<mempool, receipts, balance, allowance, inbox, blocks>>

\* The transactions of a call, in order.  A mint is sent once the amount is
\* known; the claim secret is drawn just before the deposit.
Steps(c) == IF c \in Bridge THEN <<"mint", "approve", "deposit">> ELSE <<"message">>

send_transaction(c) ==
    \E i \in DOMAIN Steps(c) :
        /\ calls[c].pc = Steps(c)[i]
        /\ mempool' = Append(mempool, <<c, Steps(c)[i]>>)
        /\ calls' = [calls EXCEPT ![c].pc = "receipt", ![c].step = i, ![c].polls = 0]
        /\ UNCHANGED <<receipts, balance, allowance, inbox, blocks, faults>>

TxOf(c) == <<c, Steps(c)[calls[c].step]>>

\* Mutant: the message taken is the newest of the Inbox, not the receipt's.
LeafIndexNewest(receipt) == Len(inbox)

\* The index in the MessageSent event of the receipt.
LeafIndex(receipt) == receipt.index

\* Mutant: a reverted transaction is taken for a successful one.
ReceiptOkAlways(receipt) == TRUE

ReceiptOk(receipt) == receipt.status = "0x1"

\* One turn of wait_for_receipt and what follows the answer.
wait_for_receipt(c) ==
    /\ calls[c].pc = "receipt"
    /\ IF TxOf(c) \in DOMAIN receipts
       THEN LET receipt == receipts[TxOf(c)] IN
            CASE ~ReceiptOk(receipt) -> Goto(c, "failed")
              [] ReceiptOk(receipt) /\ calls[c].step < Len(Steps(c)) ->
                   Goto(c, Steps(c)[calls[c].step + 1])
              [] OTHER ->
                   calls' = [calls EXCEPT ![c].pc = "sent", ![c].polls = 0,
                                          ![c].index = LeafIndex(receipt)]
       ELSE IF calls[c].polls = MaxPolls THEN Goto(c, "timeout")
       ELSE calls' = [calls EXCEPT ![c].polls = @ + 1]
    /\ UNCHANGED <<mempool, receipts, balance, allowance, inbox, blocks, faults>>

------------------------------------------------------------------------------
(* wait_for_l1_to_l2_message_ready.                                         *)

\* Not ready: another turn, or the timeout.
NotReady(c) ==
    IF calls[c].polls = MaxPolls THEN calls' = [calls EXCEPT ![c].pc = "unready"]
    ELSE calls' = [calls EXCEPT ![c].pc = "sent", ![c].polls = @ + 1]

\* The node may not have seen the message yet.
ReadCheckpoint(c) ==
    /\ calls[c].pc = "sent"
    /\ \/ calls[c].index \in DOMAIN inbox
          /\ calls' = [calls EXCEPT ![c].pc = "block",
                                    ![c].checkpoint = inbox[calls[c].index].checkpoint]
       \/ NotReady(c)
    /\ UNCHANGED <<mempool, receipts, balance, allowance, inbox, blocks, faults>>

\* Mutant: a message of the next checkpoint counts as ready.
MessageReadyEarly(checkpoint, block_number) == checkpoint <= block_number + 1

\* The code compares with the number of the latest block.
MessageReady(checkpoint, block_number) == checkpoint <= block_number

ReadBlock(c) ==
    /\ calls[c].pc = "block"
    /\ IF Len(blocks) > 0 /\ MessageReady(calls[c].checkpoint, Len(blocks))
       THEN calls' = [calls EXCEPT ![c].pc = "ready"]
       ELSE NotReady(c)
    /\ UNCHANGED <<mempool, receipts, balance, allowance, inbox, blocks, faults>>

------------------------------------------------------------------------------
(* L1 and L2 (external).                                                    *)

Checkpoint == IF blocks = <<>> THEN 0 ELSE blocks[Len(blocks)]

Receipt(ok) == [status |-> IF ok THEN "0x1" ELSE "0x0", index |-> Len(inbox')]

\* The oldest transaction is mined.
Mine ==
    /\ mempool # <<>>
    /\ mempool' = Tail(mempool)
    /\ LET c == Head(mempool)[1]
           step == Head(mempool)[2]
           ok == step # "deposit" \/ (allowance > 0 /\ balance > 0)
           sends == step = "message" \/ (step = "deposit" /\ ok)
       IN /\ balance' = CASE step = "mint" -> balance + 1
                          [] step = "deposit" /\ ok -> balance - 1
                          [] OTHER -> balance
          /\ allowance' = CASE step = "approve" -> 1
                            [] step = "deposit" /\ ok -> allowance - 1
                            [] OTHER -> allowance
          /\ IF sends
             THEN inbox' = Append(inbox, [secret |-> c, checkpoint |-> Checkpoint + 2])
             ELSE UNCHANGED inbox
          /\ receipts' = [t \in DOMAIN receipts \cup {<<c, step>>} |->
                            IF t = <<c, step>> THEN Receipt(ok) ELSE receipts[t]]
    /\ UNCHANGED <<calls, blocks, faults>>

\* A block that opens a checkpoint, or continues the last one.
NewBlock ==
    /\ Len(blocks) < MaxBlocks
    /\ \E c \in {Checkpoint, Checkpoint + 1} : c > 0 /\ blocks' = Append(blocks, c)
    /\ UNCHANGED <<calls, mempool, receipts, balance, allowance, inbox, faults>>

------------------------------------------------------------------------------
Init ==
    /\ calls = [c \in Call |-> [pc |-> Steps(c)[1], polls |-> 0, step |-> 1,
                                index |-> 0, checkpoint |-> 0]]
    /\ mempool = <<>> /\ receipts = <<>>
    /\ balance = 0 /\ allowance = 0
    /\ inbox = <<>> /\ blocks = <<>> /\ faults = 0

Running(c) == calls[c].pc \notin {"ready", "unready", "failed", "timeout"}

Step(c) == send_transaction(c) \/ wait_for_receipt(c) \/ ReadCheckpoint(c) \/ ReadBlock(c)

Next ==
    \/ \E c \in Call : Step(c) \/ (Running(c) /\ RequestFails(c))
    \/ Mine
    \/ NewBlock

Spec == Init /\ [][Next]_vars

------------------------------------------------------------------------------
(* Properties.                                                              *)

\* Every variable has its type.
TypeOK ==
    /\ \A c \in Call : calls[c].polls \in 0..MaxPolls /\ calls[c].index \in 0..Len(inbox)
    /\ balance \in 0..Cardinality(Bridge) /\ allowance \in 0..1
    /\ faults \in 0..MaxFaults

\* While every checkpoint has a single block, a message reported ready is in
\* the message tree, and it is the caller's own: the index returned from the
\* receipt belongs to the secret the caller holds, whatever the other calls
\* sent in between (prepare_fee_juice_on_l1, is_l1_to_l2_message_ready).
ClaimUsable ==
    \A c \in Call :
        calls[c].pc = "ready" =>
            /\ inbox[calls[c].index].secret = c
            /\ (\A i \in DOMAIN blocks : blocks[i] = i) =>
                 inbox[calls[c].index].checkpoint <= Checkpoint

\* A bridging call on its own loses nothing: its deposit is refused only when
\* another call has spent the allowance both had set, and a caller whose deposit
\* was mined keeps its claim secret unless a request failed (or the receipt came
\* too late, pc = "timeout").
AloneLosesNothing ==
    /\ \A c \in Bridge :
         <<c, "deposit">> \in DOMAIN receipts /\ receipts[<<c, "deposit">>].status = "0x0" =>
            \E d \in Bridge \ {c} : \E i \in DOMAIN inbox : inbox[i].secret = d
    /\ \A i \in DOMAIN inbox :
         calls[inbox[i].secret].pc = "failed" => faults > 0

\* cross_chain.rs:11-12: a message is ready when its checkpoint number is not
\* above the latest block's checkpoint number.  It does not hold: the number
\* compared is the block's.
ReadyMeansIncluded ==
    \A c \in Call :
        calls[c].pc = "ready" => inbox[calls[c].index].checkpoint <= Checkpoint
==============================================================================
