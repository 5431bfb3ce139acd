------------------------ MODULE BlockStateSynchronizer ------------------------
(***************************************************************************)
(* The PXE follows the node's chain: sync/block_state_synchronizer.rs with *)
(* the anchor, note and event stores it maintains, the discovery of notes, *)
(* nullifiers and events that fills them (sync/note_service.rs,            *)
(* sync/event_service.rs, execution/utility_oracle.rs), and a node whose   *)
(* chain grows and is cut back between any two remote calls.               *)
(*                                                                         *)
(* Every remote call is a step of its own, so its answer may be stale when *)
(* it is used; any of them may fail.  Several tasks may call the PXE.  The *)
(* process may stop at any point: the stores survive, the tasks and the    *)
(* syncing flag do not, and EmbeddedPxe::create_with_config syncs once     *)
(* before the PXE is used again.  The note store is the atomic one, which  *)
(* NoteStore implements.                                                   *)
(***************************************************************************)
EXTENDS Integers, Sequences, FiniteSets

CONSTANTS
    Caller,        \* tasks calling the PXE
    Tx,            \* transactions; each emits one private event
    Note,          \* notes, by siloed nullifier
    Creator,       \* the transaction that creates a note
    Spender,       \* the transaction that nullifies it
    SyncChainTip,  \* BlockSyncConfig: "proposed" or "proven"
    HashInHeader,  \* the node's header JSON carries "blockHash"
    Height0,       \* blocks on the chain, all of them proven, at the start
    MaxBlocks,     \* bound: blocks ever produced
    Absent

ASSUME SyncAssumption ==
    /\ SyncChainTip \in {"proposed", "proven"}
    /\ HashInHeader \in BOOLEAN
    /\ {Height0, MaxBlocks} \subseteq Nat /\ Height0 <= MaxBlocks

VARIABLES
    chain,    \* the node's blocks 1..n: an identity and the transactions in it
    proven,   \* how many of them are proven
    minted,   \* identities used so far
    anchor,   \* AnchorBlockStore
    notes,    \* NoteStore
    events,   \* PrivateEventStore: block number and identity by transaction
    up,       \* create_with_config has returned
    syncing,  \* BlockStateSynchronizer.syncing
    pc, loc,  \* where each caller is, and its local variables
    quiet,    \* the chain has not changed since the running sync began
    tame      \* every reorg so far came between two syncs and replaced at most
              \* the anchor block

node  == <<chain, proven, minted>>
disk  == <<anchor, notes, events>>
vars  == <<chain, proven, minted, anchor, notes, events, up, syncing, pc, loc, quiet, tame>>

BlockNumber == 0..MaxBlocks
NoHash == 0   \* "0x0": the header carries no hash

(* AnchorBlockHeader: the block's identity stands for the header's data, the *)
(* hash for the "blockHash" field that from_header_json extracts.            *)
Header == [number : BlockNumber, id : 0..MaxBlocks, hash : 0..MaxBlocks]
NoAnchor == [number |-> 0, id |-> -1, hash |-> NoHash]
Genesis == [number |-> 0, id |-> 0, hash |-> NoHash]

HeaderAt(h) ==
    IF h = 0 THEN Genesis
    ELSE [number |-> h, id |-> chain[h].id, hash |-> IF HashInHeader THEN chain[h].id ELSE NoHash]

Known(h) == h <= Len(chain)

(* block_param_json sends block number 0 as "latest". *)
GetBlockHeader(h) == HeaderAt(IF h = 0 THEN Len(chain) ELSE h)

(* Mutant: the configured tip is ignored. *)
TipAlwaysProposed == Len(chain)

Tip == IF SyncChainTip = "proven" THEN proven ELSE Len(chain)

OnChain(t) == \E h \in 1..Len(chain) : t \in chain[h].txs
BlockOf(t) == CHOOSE h \in 1..Len(chain) : t \in chain[h].txs

Locals == [tip : BlockNumber, hdr : Header \union {NoAnchor}, target : BlockNumber,
           advance : BOOLEAN, ok : BOOLEAN, note : Note \union {Absent},
           tx : Tx \union {Absent}, number : BlockNumber, id : 0..MaxBlocks]
NoLocals == [tip |-> 0, hdr |-> NoAnchor, target |-> 0, advance |-> FALSE, ok |-> TRUE,
             note |-> Absent, tx |-> Absent, number |-> 0, id |-> 0]

Remote == {"first", "tip", "hash", "reorg", "fetch"}
InSync == Remote \union {"storeFirst", "compare", "rollNotes", "rollEvents", "storeReorg",
                         "advance", "storeNew", "done"}

NotesOf == INSTANCE AtomicNoteStore
              WITH Nullifier <- Note, Scope <- {"account"}, Block <- BlockNumber

TypeOK ==
    /\ chain \in Seq([id : 1..MaxBlocks, txs : SUBSET Tx])
    /\ proven \in 0..Len(chain)
    /\ minted \in BlockNumber
    /\ anchor \in Header \union {NoAnchor}
    /\ events \in [Tx -> [number : BlockNumber, id : 0..MaxBlocks] \union {Absent}]
    /\ DOMAIN notes = Note
    /\ {up, syncing, quiet, tame} \subseteq BOOLEAN
    /\ pc \in [Caller -> InSync \union {"idle", "wait", "addNote", "nullify", "event", "storeEvent"}]
    /\ loc \in [Caller -> Locals]

Init ==
    /\ chain = [h \in 1..Height0 |-> [id |-> h, txs |-> {}]]
    /\ proven = Height0
    /\ minted = Height0
    /\ anchor = NoAnchor
    /\ NotesOf!Init
    /\ events = [t \in Tx |-> Absent]
    /\ up = FALSE
    /\ syncing = FALSE
    /\ pc = [c \in Caller |-> "idle"]
    /\ loc = [c \in Caller |-> NoLocals]
    /\ quiet = TRUE
    /\ tame = TRUE

-----------------------------------------------------------------------------
(* The node. *)

Mine(txs) ==
    /\ minted < MaxBlocks
    /\ \A t \in txs : ~OnChain(t)
    /\ \A n \in Note : Spender[n] \in txs => OnChain(Creator[n])
    /\ chain' = Append(chain, [id |-> minted + 1, txs |-> txs])
    /\ minted' = minted + 1
    /\ quiet' = FALSE
    /\ UNCHANGED <<proven, disk, up, syncing, pc, loc, tame>>

(* Blocks that are not proven may be pruned. *)
Reorg(h) ==
    /\ h \in proven..(Len(chain) - 1)
    /\ chain' = SubSeq(chain, 1, h)
    /\ quiet' = FALSE
    /\ tame' = (tame /\ ~syncing /\ h >= anchor.number - 1)
    /\ UNCHANGED <<proven, minted, disk, up, syncing, pc, loc>>

Prove ==
    /\ proven < Len(chain)
    /\ proven' = proven + 1
    /\ quiet' = FALSE
    /\ UNCHANGED <<chain, minted, disk, up, syncing, pc, loc, tame>>

-----------------------------------------------------------------------------
(* sync and do_sync *)

Goto(c, label) == pc' = [pc EXCEPT ![c] = label]
Set(c, field, value) == loc' = [loc EXCEPT ![c] = [@ EXCEPT ![field] = value]]

(* Mutant: the flag is set but never looked at. *)
SyncUnguarded(c) ==
    /\ pc[c] = "idle"
    /\ syncing' = TRUE
    /\ quiet' = TRUE
    /\ Goto(c, IF anchor = NoAnchor THEN "first" ELSE "tip")
    /\ UNCHANGED <<node, disk, up, loc, tame>>

Sync(c) ==
    /\ pc[c] = "idle"
    /\ IF syncing
       THEN Goto(c, "wait") /\ UNCHANGED <<syncing, quiet>>
       ELSE /\ syncing' = TRUE
            /\ quiet' = TRUE
            /\ Goto(c, IF anchor = NoAnchor THEN "first" ELSE "tip")
    /\ UNCHANGED <<node, disk, up, loc, tame>>

(* A caller that found a sync running returns Ok when the flag is clear. *)
StopWaiting(c) ==
    /\ pc[c] = "wait"
    /\ ~syncing
    /\ Goto(c, "idle")
    /\ UNCHANGED <<node, disk, up, syncing, loc, quiet, tame>>

FetchFirst(c) ==
    /\ pc[c] = "first"
    /\ Set(c, "hdr", GetBlockHeader(0))
    /\ Goto(c, "storeFirst")
    /\ UNCHANGED <<node, disk, up, syncing, quiet, tame>>

(* update_anchor_block_header, then on to the next step of do_sync. *)
StoreAnchor(c) ==
    /\ pc[c] \in {"storeFirst", "storeReorg", "storeNew"}
    /\ anchor' = loc[c].hdr
    /\ Goto(c, IF pc[c] = "storeFirst" THEN "tip"
               ELSE IF pc[c] = "storeReorg" /\ loc[c].advance THEN "advance"
               ELSE "done")
    /\ UNCHANGED <<node, notes, events, up, syncing, loc, quiet, tame>>

(* Mutant: one block too far. *)
FetchTipNext(c) ==
    /\ pc[c] = "tip"
    /\ Set(c, "tip", Tip + 1)
    /\ Goto(c, "compare")
    /\ UNCHANGED <<node, disk, up, syncing, quiet, tame>>

FetchTip(c) ==
    /\ pc[c] = "tip"
    /\ Set(c, "tip", Tip)
    /\ Goto(c, "compare")
    /\ UNCHANGED <<node, disk, up, syncing, quiet, tame>>

(* The node is behind: roll back to its tip, which becomes the anchor. *)
CompareBehind(c) ==
    /\ pc[c] = "compare"
    /\ loc[c].tip < anchor.number
    /\ loc' = [loc EXCEPT ![c] = [@ EXCEPT !.target = loc[c].tip, !.advance = FALSE]]
    /\ Goto(c, "reorg")
    /\ UNCHANGED <<node, disk, up, syncing, quiet, tame>>

(* Otherwise compare hashes, when there is one; at block 0 do nothing. *)
CompareAhead(c) ==
    /\ pc[c] = "compare"
    /\ loc[c].tip >= anchor.number
    /\ Goto(c, IF anchor.number = 0 THEN "done"
               ELSE IF anchor.hash = NoHash THEN "advance" ELSE "hash")
    /\ UNCHANGED <<node, disk, up, syncing, loc, quiet, tame>>

(* Mutant: reorgs at the anchor's height go unnoticed. *)
CheckHashNever(c) ==
    /\ pc[c] = "hash"
    /\ Goto(c, "advance")
    /\ UNCHANGED <<node, disk, up, syncing, loc, quiet, tame>>

CheckHash(c) ==
    /\ pc[c] = "hash"
    /\ Known(anchor.number)
    /\ LET remote == GetBlockHeader(anchor.number).hash
       IN  IF remote # NoHash /\ remote # anchor.hash
           THEN /\ loc' = [loc EXCEPT ![c] = [@ EXCEPT !.target = anchor.number - 1, !.advance = TRUE]]
                /\ Goto(c, "reorg")
           ELSE Goto(c, "advance") /\ UNCHANGED loc
    /\ UNCHANGED <<node, disk, up, syncing, quiet, tame>>

Advance(c) ==
    /\ pc[c] = "advance"
    /\ Goto(c, IF loc[c].tip > anchor.number THEN "fetch" ELSE "done")
    /\ UNCHANGED <<node, disk, up, syncing, loc, quiet, tame>>

FetchNew(c) ==
    /\ pc[c] = "fetch"
    /\ Known(loc[c].tip)
    /\ Set(c, "hdr", GetBlockHeader(loc[c].tip))
    /\ Goto(c, "storeNew")
    /\ UNCHANGED <<node, disk, up, syncing, quiet, tame>>

(* handle_reorg: header, notes, events, and the anchor last. *)
FetchReorg(c) ==
    /\ pc[c] = "reorg"
    /\ Known(loc[c].target)
    /\ Set(c, "hdr", GetBlockHeader(loc[c].target))
    /\ Goto(c, "rollNotes")
    /\ UNCHANGED <<node, disk, up, syncing, quiet, tame>>

RollbackNotes(c) ==
    /\ pc[c] = "rollNotes"
    /\ NotesOf!Rollback(loc[c].target)
    /\ Goto(c, "rollEvents")
    /\ UNCHANGED <<node, anchor, events, up, syncing, loc, quiet, tame>>

(* Mutant: the first orphaned block keeps its events. *)
RollbackEventsOffByOne(c) ==
    /\ pc[c] = "rollEvents"
    /\ events' = [t \in Tx |-> IF events[t] # Absent /\ events[t].number > loc[c].target + 1
                               THEN Absent ELSE events[t]]
    /\ Goto(c, "storeReorg")
    /\ UNCHANGED <<node, anchor, notes, up, syncing, loc, quiet, tame>>

RollbackEvents(c) ==
    /\ pc[c] = "rollEvents"
    /\ events' = [t \in Tx |-> IF events[t] # Absent /\ events[t].number > loc[c].target
                               THEN Absent ELSE events[t]]
    /\ Goto(c, "storeReorg")
    /\ UNCHANGED <<node, anchor, notes, up, syncing, loc, quiet, tame>>

(* A remote call fails: do_sync returns the error. *)
FailSync(c) ==
    /\ pc[c] \in Remote
    /\ Set(c, "ok", FALSE)
    /\ Goto(c, "done")
    /\ UNCHANGED <<node, disk, up, syncing, quiet, tame>>

(* Mutant: an error leaves the flag set. *)
EndSyncOnSuccess(c) ==
    /\ pc[c] = "done"
    /\ syncing' = ~loc[c].ok
    /\ up' = (up \/ loc[c].ok)
    /\ loc' = [loc EXCEPT ![c] = NoLocals]
    /\ Goto(c, "idle")
    /\ UNCHANGED <<node, disk, quiet, tame>>

(* sync releases the flag on success and on error alike. *)
EndSync(c) ==
    /\ pc[c] = "done"
    /\ syncing' = FALSE
    /\ up' = (up \/ loc[c].ok)
    /\ loc' = [loc EXCEPT ![c] = NoLocals]
    /\ Goto(c, "idle")
    /\ UNCHANGED <<node, disk, quiet, tame>>

-----------------------------------------------------------------------------
(* Discovery, run by contract synchronization.  Notes and nullifiers are     *)
(* looked up at the node's latest block, whatever the anchor is.             *)

FindNote(c, n) ==
    /\ up /\ pc[c] = "idle"
    /\ notes[n] = Absent
    /\ OnChain(Creator[n])
    /\ Set(c, "note", n)
    /\ Goto(c, "addNote")
    /\ UNCHANGED <<node, disk, up, syncing, quiet, tame>>

(* validate_and_store_note: stored without a block number, and nullified at  *)
(* block 0 if its nullifier is in the tree already.                          *)
AddNote(c) ==
    /\ pc[c] = "addNote"
    /\ LET n == loc[c].note IN
         \/ NotesOf!Add(n, NotesOf!None, OnChain(Spender[n]), "account")
         \/ NotesOf!AddScope(n, "account")
    /\ loc' = [loc EXCEPT ![c] = NoLocals]
    /\ Goto(c, "idle")
    /\ UNCHANGED <<node, anchor, events, up, syncing, quiet, tame>>

(* sync_note_nullifiers: an active note's nullifier is found in the tree. *)
FindNullifier(c, n) ==
    /\ up /\ pc[c] = "idle"
    /\ notes[n] # Absent /\ ~notes[n].nullified
    /\ OnChain(Spender[n])
    /\ Set(c, "note", n)
    /\ Goto(c, "nullify")
    /\ UNCHANGED <<node, disk, up, syncing, quiet, tame>>

ApplyNullifier(c) ==
    /\ pc[c] = "nullify"
    /\ \/ NotesOf!Nullify(loc[c].note, 0)
       \/ /\ notes[loc[c].note] = Absent \/ notes[loc[c].note].nullified
          /\ UNCHANGED notes
    /\ loc' = [loc EXCEPT ![c] = NoLocals]
    /\ Goto(c, "idle")
    /\ UNCHANGED <<node, anchor, events, up, syncing, quiet, tame>>

(* validate_and_store_event reads the anchor's number, ... *)
FindEvent(c, t) ==
    /\ up /\ pc[c] = "idle"
    /\ OnChain(t)
    /\ loc' = [loc EXCEPT ![c] = [@ EXCEPT !.tx = t, !.tip = anchor.number]]
    /\ Goto(c, "event")
    /\ UNCHANGED <<node, disk, up, syncing, quiet, tame>>

(* Mutant: the effect is not compared with the anchor. *)
GetTxEffectAnywhere(c) ==
    /\ pc[c] = "event"
    /\ OnChain(loc[c].tx)
    /\ LET h == BlockOf(loc[c].tx) IN
         loc' = [loc EXCEPT ![c] = [@ EXCEPT !.number = h, !.id = chain[h].id]]
    /\ Goto(c, "storeEvent")
    /\ UNCHANGED <<node, disk, up, syncing, quiet, tame>>

(* ... asks the node for the transaction's effect, ... *)
GetTxEffect(c) ==
    /\ pc[c] = "event"
    /\ OnChain(loc[c].tx)
    /\ LET h == BlockOf(loc[c].tx) IN
         /\ h <= loc[c].tip \/ loc[c].tip = 0
         /\ loc' = [loc EXCEPT ![c] = [@ EXCEPT !.number = h, !.id = chain[h].id]]
    /\ Goto(c, "storeEvent")
    /\ UNCHANGED <<node, disk, up, syncing, quiet, tame>>

(* ... or gives up: no effect, a block after the anchor, a failed call. *)
RejectEvent(c) ==
    /\ pc[c] = "event"
    /\ loc' = [loc EXCEPT ![c] = NoLocals]
    /\ Goto(c, "idle")
    /\ UNCHANGED <<node, disk, up, syncing, quiet, tame>>

(* ... and stores the event.  A known event only gains a scope. *)
StoreEvent(c) ==
    /\ pc[c] = "storeEvent"
    /\ events' = IF events[loc[c].tx] # Absent THEN events
                 ELSE [events EXCEPT ![loc[c].tx] = [number |-> loc[c].number, id |-> loc[c].id]]
    /\ loc' = [loc EXCEPT ![c] = NoLocals]
    /\ Goto(c, "idle")
    /\ UNCHANGED <<node, anchor, notes, up, syncing, quiet, tame>>

-----------------------------------------------------------------------------
(* The process stops and is started again: what is not stored is lost. *)
Restart ==
    /\ up' = FALSE
    /\ syncing' = FALSE
    /\ pc' = [c \in Caller |-> "idle"]
    /\ loc' = [c \in Caller |-> NoLocals]
    /\ UNCHANGED <<node, disk, quiet, tame>>

NodeStep == (\E txs \in SUBSET Tx : Mine(txs)) \/ (\E h \in BlockNumber : Reorg(h)) \/ Prove

SyncStep(c) ==
    \/ StopWaiting(c) \/ FetchFirst(c) \/ StoreAnchor(c) \/ FetchTip(c) \/ CompareBehind(c)
    \/ CompareAhead(c) \/ CheckHash(c) \/ Advance(c) \/ FetchNew(c) \/ FetchReorg(c)
    \/ RollbackNotes(c) \/ RollbackEvents(c) \/ FailSync(c) \/ EndSync(c)

DiscoveryStep(c) ==
    \/ \E n \in Note : FindNote(c, n) \/ FindNullifier(c, n)
    \/ \E t \in Tx : FindEvent(c, t)
    \/ AddNote(c) \/ ApplyNullifier(c) \/ GetTxEffect(c) \/ RejectEvent(c) \/ StoreEvent(c)

(* Before the PXE is up only its creation runs. *)
CallerStep(c) ==
    \/ (up \/ ~syncing) /\ Sync(c)
    \/ SyncStep(c)
    \/ DiscoveryStep(c)

Next == NodeStep \/ (\E c \in Caller : CallerStep(c)) \/ Restart

Spec == Init /\ [][Next]_vars

(* A task that is runnable is eventually polled, and a remote call eventually *)
(* answers or fails.                                                          *)
FairSpec == Spec /\ \A c \in Caller : WF_vars(SyncStep(c))

-----------------------------------------------------------------------------
(* An anchor at block 0, taken from an empty chain, never moves again, and   *)
(* events are not compared with it: the properties are about other anchors.  *)
Anchored == anchor.number > 0

(* A sync that succeeded while the chain stood still. *)
Settles(c) == EndSync(c) /\ loc[c].ok /\ quiet /\ Anchored

(* After a sync during which the chain did not change, the anchor is the     *)
(* header of the tip the configuration names: of this fork, whatever forks,  *)
(* failures, stops and concurrent callers came before (do_sync).             *)
SyncEndsOnTip == [][\A c \in Caller : Settles(c) => anchor = HeaderAt(Tip)]_vars

(* No stored event lies after the anchor: events are validated against it    *)
(* and rolled back before it moves down (handle_reorg).                      *)
EventsUpToAnchor ==
    Anchored => \A t \in Tx : events[t] # Absent => events[t].number <= anchor.number

(* Every stored event is from a block of the node's chain. *)
EventsOnChain ==
    \A t \in Tx : events[t] # Absent =>
        Known(events[t].number) /\ HeaderAt(events[t].number).id = events[t].id

(* After such a sync no event of an orphaned block is left. *)
NoOrphanEvents == [][\A c \in Caller : Settles(c) => EventsOnChain]_vars

(* The same as long as every reorg came between two syncs and replaced at    *)
(* most the anchor block: the single block do_sync rolls back when the       *)
(* anchor's hash differs is then all that was lost, also when the sync that  *)
(* should have noticed it failed or was cut short.                           *)
NoOrphanEventsIfTame == [][\A c \in Caller : Settles(c) /\ tame => EventsOnChain]_vars

(* After such a sync every stored note was created, and every nullified one  *)
(* spent, on the node's chain.                                               *)
NotesRewound ==
    [][\A c \in Caller : Settles(c) =>
         \A n \in Note : notes[n] # Absent =>
             /\ OnChain(Creator[n])
             /\ notes[n].nullified => OnChain(Spender[n])]_vars

(* On the proven tip nothing stored is ever wrong, with any number of tasks:  *)
(* no event lies after the anchor or in a block that is gone, and a sync      *)
(* during which the chain stood still ends on the tip (do_sync, handle_reorg, *)
(* validate_and_store_event).                                                 *)
SyncSound ==
    [][/\ EventsUpToAnchor /\ EventsOnChain
       /\ \A c \in Caller : Settles(c) => anchor = HeaderAt(Tip)]_vars

(* The flag that makes callers wait is always released again. *)
SyncReleased == syncing ~> ~syncing
=============================================================================
