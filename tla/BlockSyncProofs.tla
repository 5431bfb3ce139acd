--------------------------- MODULE BlockSyncProofs ---------------------------
(***************************************************************************)
(* Theorems about block synchronisation, for any chain, any transactions   *)
(* and notes, and either tip.                                              *)
(***************************************************************************)
EXTENDS BlockStateSynchronizer, SequenceTheorems, TLAPS

Label == InSync \union {"idle", "wait", "addNote", "nullify", "event", "storeEvent"}
Blocks == [id : 1..MaxBlocks, txs : SUBSET Tx]

-----------------------------------------------------------------------------
(* Whoever runs do_sync holds the flag, and nobody else does. *)
Exclusive ==
    /\ \A c \in Caller : pc[c] \in InSync => syncing
    /\ \A c, d \in Caller : pc[c] \in InSync /\ pc[d] \in InSync => c = d

Flagged == pc \in [Caller -> Label] /\ syncing \in BOOLEAN /\ Exclusive

LEMMA FlagInit == Init => Flagged
  BY Zenon DEF Init, Flagged, Exclusive, Label, InSync, Remote

(* sync tests and sets the flag in one step, and only its holder clears it. *)
LEMMA FlagStep == Flagged /\ [Next]_vars => Flagged'
<1> SUFFICES ASSUME Flagged, [Next]_vars PROVE Flagged'
  OBVIOUS
<1> USE DEF Flagged, Exclusive
<1>1. ASSUME UNCHANGED <<pc, syncing>> PROVE Flagged'
  BY <1>1
<1>2. ASSUME NEW c \in Caller, NEW p \in Label, Goto(c, p), pc[c] \in InSync \/ p \notin InSync,
             UNCHANGED syncing
      PROVE  Flagged'
  BY <1>2 DEF Goto
<1>3. ASSUME NEW c \in Caller, CallerStep(c) PROVE Flagged'
  <2>1. CASE Sync(c) /\ syncing
    BY <1>2, <2>1 DEF Sync, Label, InSync, Remote
  <2>2. CASE Sync(c) /\ ~syncing
    <3>1. PICK p \in {"first", "tip"} : Goto(c, p)
      BY <2>2 DEF Sync
    <3> QED BY <2>2, <3>1 DEF Sync, Goto, Label, InSync, Remote
  <2>3. CASE EndSync(c)
    BY Zenon, <2>3 DEF EndSync, Goto, Label, InSync, Remote
  <2>4. CASE SyncStep(c) /\ ~EndSync(c)
    <3>1. PICK p \in Label : Goto(c, p) /\ (pc[c] \in InSync \/ p \notin InSync) /\ UNCHANGED syncing
      BY Zenon, <2>4 DEF SyncStep, StopWaiting, FetchFirst, StoreAnchor, FetchTip, CompareBehind, CompareAhead,
                  CheckHash, Advance, FetchNew, FetchReorg, RollbackNotes, RollbackEvents, FailSync,
                  Label, InSync, Remote
    <3> QED BY <1>2, <3>1
  <2>5. CASE DiscoveryStep(c)
    <3>1. PICK p \in Label : Goto(c, p) /\ p \notin InSync /\ UNCHANGED syncing
      BY Zenon, <2>5 DEF DiscoveryStep, FindNote, FindNullifier, FindEvent, AddNote, ApplyNullifier,
                  GetTxEffect, RejectEvent, StoreEvent, Label, InSync, Remote
    <3> QED BY <1>2, <3>1
  <2> QED BY <1>3, <2>1, <2>2, <2>3, <2>4, <2>5 DEF CallerStep
<1>4. CASE NodeStep
  BY Zenon, <1>1, <1>4 DEF NodeStep, Mine, Reorg, Prove
<1>5. CASE Restart
  BY Zenon, <1>5 DEF Restart, Label, InSync, Remote
<1>6. CASE UNCHANGED vars
  BY <1>1, <1>6 DEF vars
<1> QED BY <1>3, <1>4, <1>5, <1>6 DEF Next

(* At most one caller is inside do_sync, however many call sync, whatever    *)
(* fails and whenever the process is restarted (sync).                       *)
THEOREM OneSyncAtATime == Spec => []Exclusive
<1>1. Flagged => Exclusive
  BY DEF Flagged
<1> QED BY <1>1, FlagInit, FlagStep, PTL DEF Spec

-----------------------------------------------------------------------------
(* Hashes are compared for an anchor above block 0 only, so the rollback     *)
(* target one below it is a block number.                                    *)
HashAnchored == \A c \in Caller : pc[c] = "hash" => anchor.number > 0

(* The chain never has more blocks than were produced, so that every number  *)
(* of a block on it is in bounds.                                            *)
Typed == TypeOK /\ Flagged /\ Len(chain) <= minted /\ HashAnchored

(* The header of a block the node knows is a header of that number. *)
LEMMA HeaderType ==
    ASSUME Typed, NEW h \in 0..Len(chain)
    PROVE  HeaderAt(h) \in Header /\ HeaderAt(h).number = h
<1>1. Len(chain) \in Nat /\ Len(chain) <= MaxBlocks /\ MaxBlocks \in Nat /\ HashInHeader \in BOOLEAN
  BY SyncAssumption DEF Typed, TypeOK, BlockNumber
<1>2. CASE h = 0
  BY <1>1, <1>2 DEF HeaderAt, Genesis, Header, BlockNumber, NoHash
<1>3. CASE h # 0
  <2>1. chain \in Seq(Blocks) /\ h \in 1..Len(chain)
    BY <1>1, <1>3 DEF Typed, TypeOK, Blocks
  <2>2. chain[h] \in Blocks
    BY <2>1, ElementOfSeq
  <2>3. chain[h].id \in 1..MaxBlocks
    BY <2>2 DEF Blocks
  <2> QED BY <1>1, <1>3, <2>3 DEF HeaderAt, Header, BlockNumber, NoHash
<1> QED BY <1>2, <1>3

(* What get_block_header answers about a known block; 0 asks for the latest. *)
LEMMA AnswerType ==
    ASSUME Typed, NEW h \in Nat, Known(h)
    PROVE  GetBlockHeader(h) \in Header /\ GetBlockHeader(h).number >= h
<1>1. Len(chain) \in Nat
  BY DEF Typed, TypeOK
<1> QED BY <1>1, HeaderType DEF GetBlockHeader, Known

(* The block of a transaction that is on the chain. *)
LEMMA BlockOfType ==
    ASSUME Typed, NEW t, OnChain(t)
    PROVE  BlockOf(t) \in 1..Len(chain) /\ BlockOf(t) \in BlockNumber /\ chain[BlockOf(t)].id \in 1..MaxBlocks
<1>1. BlockOf(t) \in 1..Len(chain)
  BY DEF OnChain, BlockOf
<1>2. chain \in Seq(Blocks) /\ Len(chain) \in Nat /\ Len(chain) <= MaxBlocks /\ MaxBlocks \in Nat
  BY SyncAssumption DEF Typed, TypeOK, Blocks, BlockNumber
<1>3. chain[BlockOf(t)] \in Blocks
  BY <1>1, <1>2, ElementOfSeq
<1> QED BY <1>1, <1>2, <1>3 DEF Blocks, BlockNumber

LEMMA TypeInit == Init => Typed
<1> SUFFICES ASSUME Init PROVE Typed
  OBVIOUS
<1>1. Height0 \in Nat /\ MaxBlocks \in Nat /\ Height0 <= MaxBlocks
  BY SyncAssumption
<1>2. chain \in Seq(Blocks) /\ Len(chain) = Height0
  <2>1. chain = [h \in 1..Height0 |-> [id |-> h, txs |-> {}]]
    BY DEF Init
  <2>2. \A h \in 1..Height0 : [id |-> h, txs |-> {}] \in Blocks
    BY <1>1 DEF Blocks
  <2> QED BY <1>1, <2>1, <2>2
<1>3. NoLocals \in Locals /\ DOMAIN notes = Note
  BY <1>1 DEF NoLocals, Locals, BlockNumber, Init, NotesOf!Init
<1>4. proven \in 0..Len(chain) /\ minted \in BlockNumber /\ Len(chain) <= minted
  BY <1>1, <1>2 DEF Init, BlockNumber
<1>5. pc \in [Caller -> {"idle"}] /\ loc \in [Caller -> Locals] /\ {up, syncing, quiet, tame} \subseteq BOOLEAN
  BY Zenon, <1>3 DEF Init
<1>6. /\ anchor \in Header \union {NoAnchor}
      /\ events \in [Tx -> [number : BlockNumber, id : 0..MaxBlocks] \union {Absent}]
  BY DEF Init
<1>7. HashAnchored
  BY <1>5 DEF HashAnchored
<1> QED BY <1>2, <1>3, <1>4, <1>5, <1>6, <1>7, FlagInit DEF Typed, TypeOK, Blocks, Label

(* What the node does keeps the types. *)
LEMMA TypeNode == Typed /\ NodeStep => Typed'
<1> SUFFICES ASSUME Typed, NodeStep PROVE Typed'
  OBVIOUS
<1>1. /\ chain \in Seq(Blocks) /\ Len(chain) \in Nat /\ minted \in 0..MaxBlocks /\ MaxBlocks \in Nat
      /\ Len(chain) <= minted /\ proven \in 0..Len(chain)
  BY SyncAssumption DEF Typed, TypeOK, Blocks, BlockNumber
<1>2. ASSUME chain' \in Seq(Blocks), proven' \in 0..Len(chain'), minted' \in 0..MaxBlocks,
             Len(chain') <= minted', quiet' \in BOOLEAN, tame' \in BOOLEAN,
             UNCHANGED <<anchor, notes, events, up, syncing, pc, loc>>
      PROVE  Typed'
  BY <1>2 DEF Typed, TypeOK, Blocks, BlockNumber, Flagged, Exclusive, HashAnchored
<1>3. ASSUME NEW txs \in SUBSET Tx, Mine(txs) PROVE Typed'
  <2> DEFINE b == [id |-> minted + 1, txs |-> txs]
  <2>1. minted < MaxBlocks /\ chain' = Append(chain, b) /\ minted' = minted + 1 /\ UNCHANGED proven
    BY <1>3 DEF Mine
  <2>2. b \in Blocks
    BY <1>1, <2>1 DEF Blocks
  <2>3. chain' \in Seq(Blocks) /\ Len(chain') = Len(chain) + 1
    BY <1>1, <2>1, <2>2, AppendProperties
  <2>4. proven' \in 0..Len(chain') /\ minted' \in 0..MaxBlocks /\ Len(chain') <= minted'
    BY <1>1, <2>1, <2>3
  <2> QED BY Zenon, <1>2, <1>3, <2>3, <2>4 DEF Mine, disk, Typed, TypeOK
<1>4. ASSUME NEW h \in BlockNumber, Reorg(h) PROVE Typed'
  <2>1. h \in proven..(Len(chain) - 1) /\ chain' = SubSeq(chain, 1, h) /\ UNCHANGED <<proven, minted>>
    BY <1>4 DEF Reorg
  <2>2. h \in Int /\ \A i \in 1..h : chain[i] \in Blocks
    BY <1>1, <2>1, ElementOfSeq
  <2>3. chain' \in Seq(Blocks) /\ Len(chain') = h
    BY <1>1, <2>1, <2>2, SubSeqProperties
  <2>4. proven' \in 0..Len(chain') /\ minted' \in 0..MaxBlocks /\ Len(chain') <= minted'
    BY <1>1, <2>1, <2>3
  <2>5. tame' \in BOOLEAN /\ quiet' \in BOOLEAN
    BY Zenon, <1>4 DEF Reorg
  <2> QED BY <1>2, <1>4, <2>3, <2>4, <2>5 DEF Reorg, disk
<1>5. CASE Prove
  <2>1. proven' \in 0..Len(chain)
    BY <1>1, <1>5 DEF Prove
  <2> QED BY Zenon, <1>1, <1>2, <1>5, <2>1 DEF Prove, disk, Typed, TypeOK
<1> QED BY <1>3, <1>4, <1>5 DEF NodeStep

(* What a caller does keeps them too: every answer it stores is of its kind. *)
LEMMA TypeCaller == Typed /\ (\E c \in Caller : CallerStep(c)) => Typed'
<1> SUFFICES ASSUME Typed, NEW c \in Caller, CallerStep(c) PROVE Typed'
  OBVIOUS
<1> DEFINE Event == [number : BlockNumber, id : 0..MaxBlocks] \union {Absent}
<1>f. Flagged'
  BY FlagStep DEF Typed, Next
<1>t. /\ chain \in Seq(Blocks) /\ Len(chain) \in Nat /\ Len(chain) <= MaxBlocks
      /\ proven \in 0..Len(chain) /\ MaxBlocks \in Nat
      /\ anchor \in Header \union {NoAnchor} /\ anchor.number \in BlockNumber
      /\ events \in [Tx -> Event] /\ DOMAIN notes = Note /\ {up, syncing, quiet, tame} \subseteq BOOLEAN
      /\ loc \in [Caller -> Locals] /\ loc[c] \in Locals
  BY SyncAssumption DEF Typed, TypeOK, Blocks, BlockNumber, Header, NoAnchor
<1>l. /\ loc[c].tip \in BlockNumber /\ loc[c].target \in BlockNumber /\ loc[c].hdr \in Header \union {NoAnchor}
      /\ loc[c].number \in BlockNumber /\ loc[c].id \in 0..MaxBlocks /\ loc[c].ok \in BOOLEAN
      /\ BlockNumber \subseteq Nat /\ NoLocals \in Locals
  BY <1>t DEF Locals, BlockNumber, NoLocals
<1>k. ASSUME UNCHANGED node, anchor' \in Header \union {NoAnchor}, events' \in [Tx -> Event],
             DOMAIN notes' = Note, {up, syncing, quiet, tame}' \subseteq BOOLEAN,
             loc' \in [Caller -> Locals], HashAnchored'
      PROVE  Typed'
  BY <1>k, <1>f DEF Typed, TypeOK, node, Flagged, Label
<1>h. ASSUME NEW p \in Label, Goto(c, p), p # "hash" \/ anchor.number > 0, UNCHANGED anchor
      PROVE  HashAnchored'
  BY <1>h DEF Goto, HashAnchored, Typed, Flagged
<1>n. ASSUME loc' = [loc EXCEPT ![c] = NoLocals] PROVE loc' \in [Caller -> Locals]
  BY <1>n, <1>t, <1>l
<1> HIDE DEF Event
<1> USE DEF Label, InSync, Remote
<1>1. CASE Sync(c)
  <2>9. HashAnchored'
    BY <1>1, <1>h DEF Sync, disk
  <2>2. {up, syncing, quiet, tame}' \subseteq BOOLEAN
    BY Zenon, <1>1, <1>t DEF Sync
  <2> QED BY <1>1, <1>k, <1>t, <2>2, <2>9 DEF Sync, disk
<1>2. CASE StopWaiting(c)
  <2>9. HashAnchored'
    BY <1>2, <1>h DEF StopWaiting, disk
  <2> QED BY <1>2, <1>k, <1>t, <2>9 DEF StopWaiting, disk
<1>3. CASE FetchFirst(c)
  <2>2. GetBlockHeader(0) \in Header
    BY <1>t, AnswerType DEF Known
  <2>1. loc' \in [Caller -> Locals]
    BY Zenon, <1>3, <1>t, <1>l, <2>2 DEF FetchFirst, Locals, Set
  <2>9. HashAnchored'
    BY <1>3, <1>h DEF FetchFirst, disk
  <2> QED BY <1>3, <1>k, <1>t, <2>1, <2>9 DEF FetchFirst, disk
<1>4. CASE StoreAnchor(c)
  <2>1. HashAnchored'
    BY <1>4 DEF StoreAnchor, Goto, HashAnchored, Typed, Flagged, Exclusive
  <2> QED BY <1>4, <1>k, <1>t, <1>l, <2>1 DEF StoreAnchor
<1>5. CASE FetchTip(c)
  <2>2. Tip \in BlockNumber
    BY <1>t DEF Tip, BlockNumber
  <2>1. loc' \in [Caller -> Locals]
    BY Zenon, <1>5, <1>t, <1>l, <2>2 DEF FetchTip, Locals, Set
  <2>9. HashAnchored'
    BY <1>5, <1>h DEF FetchTip, disk
  <2> QED BY <1>5, <1>k, <1>t, <2>1, <2>9 DEF FetchTip, disk
<1>6. CASE CompareBehind(c)
  <2>1. loc' \in [Caller -> Locals]
    BY Zenon, <1>6, <1>t, <1>l DEF CompareBehind, Locals
  <2>9. HashAnchored'
    BY <1>6, <1>h DEF CompareBehind, disk
  <2> QED BY <1>6, <1>k, <1>t, <2>1, <2>9 DEF CompareBehind, disk
<1>7. CASE CompareAhead(c)
  <2>1. PICK p \in {"done", "advance", "hash"} : Goto(c, p) /\ (p = "hash" => anchor.number # 0)
    BY <1>7 DEF CompareAhead
  <2>2. p = "hash" => anchor.number > 0
    BY <1>t, <2>1 DEF BlockNumber
  <2>9. HashAnchored'
    BY <1>7, <1>h, <2>1, <2>2 DEF CompareAhead, disk
  <2> QED BY <1>7, <1>k, <1>t, <2>9 DEF CompareAhead, disk
<1>8. CASE CheckHash(c)
  <2>1. anchor.number - 1 \in BlockNumber
    BY <1>8, <1>t, <1>l DEF CheckHash, Typed, HashAnchored, BlockNumber
  <2>2. \/ UNCHANGED loc
        \/ loc' = [loc EXCEPT ![c] = [@ EXCEPT !.target = anchor.number - 1, !.advance = TRUE]]
    BY <1>8 DEF CheckHash
  <2>3. [loc[c] EXCEPT !.target = anchor.number - 1, !.advance = TRUE] \in Locals
    BY Zenon, <1>t, <2>1 DEF Locals
  <2>4. loc' \in [Caller -> Locals]
    BY <1>t, <2>2, <2>3
  <2>5. PICK p \in {"reorg", "advance"} : Goto(c, p)
    BY <1>8 DEF CheckHash
  <2>9. HashAnchored'
    BY <1>8, <1>h, <2>5 DEF CheckHash, disk
  <2> QED BY <1>8, <1>k, <1>t, <2>4, <2>9 DEF CheckHash, disk
<1>9. CASE Advance(c)
  <2>9. HashAnchored'
    BY <1>9, <1>h DEF Advance, disk
  <2> QED BY <1>9, <1>k, <1>t, <2>9 DEF Advance, disk
<1>10. CASE FetchNew(c)
  <2>2. GetBlockHeader(loc[c].tip) \in Header
    BY Zenon, <1>10, <1>l, AnswerType DEF FetchNew
  <2>1. loc' \in [Caller -> Locals]
    BY <1>10, <1>t, <1>l, <2>2 DEF FetchNew, Locals, Set
  <2>9. HashAnchored'
    BY <1>10, <1>h DEF FetchNew, disk
  <2> QED BY <1>10, <1>k, <1>t, <2>1, <2>9 DEF FetchNew, disk
<1>11. CASE FetchReorg(c)
  <2>2. GetBlockHeader(loc[c].target) \in Header
    BY Zenon, <1>11, <1>l, AnswerType DEF FetchReorg
  <2>1. loc' \in [Caller -> Locals]
    BY Zenon, <1>11, <1>t, <1>l, <2>2 DEF FetchReorg, Locals, Set
  <2>9. HashAnchored'
    BY <1>11, <1>h DEF FetchReorg, disk
  <2> QED BY <1>11, <1>k, <1>t, <2>1, <2>9 DEF FetchReorg, disk
<1>12. CASE RollbackNotes(c)
  <2>1. DOMAIN notes' = Note
    BY Zenon, <1>12 DEF RollbackNotes, NotesOf!Rollback
  <2>9. HashAnchored'
    BY <1>12, <1>h DEF RollbackNotes
  <2> QED BY <1>12, <1>k, <1>t, <2>1, <2>9 DEF RollbackNotes
<1>13. CASE RollbackEvents(c)
  <2>1. events' \in [Tx -> Event]
    BY <1>13, <1>t DEF RollbackEvents, Event
  <2>9. HashAnchored'
    BY <1>13, <1>h DEF RollbackEvents
  <2> QED BY <1>13, <1>k, <1>t, <2>1, <2>9 DEF RollbackEvents
<1>14. CASE FailSync(c)
  <2>1. loc' \in [Caller -> Locals]
    BY Zenon, <1>14, <1>t, <1>l DEF FailSync, Locals, Set
  <2>9. HashAnchored'
    BY <1>14, <1>h DEF FailSync, disk
  <2> QED BY <1>14, <1>k, <1>t, <2>1, <2>9 DEF FailSync, disk
<1>15. CASE EndSync(c)
  <2>1. {up, syncing, quiet, tame}' \subseteq BOOLEAN
    BY Zenon, <1>15, <1>t, <1>l DEF EndSync
  <2>9. HashAnchored'
    BY <1>15, <1>h DEF EndSync, disk
  <2> QED BY <1>15, <1>k, <1>n, <1>t, <2>1, <2>9 DEF EndSync, disk
<1>16. ASSUME NEW n \in Note, FindNote(c, n) \/ FindNullifier(c, n) PROVE Typed'
  <2>1. loc' \in [Caller -> Locals]
    <3>1. Set(c, "note", n)
      BY <1>16 DEF FindNote, FindNullifier
    <3>2. [loc[c] EXCEPT !["note"] = n] \in Locals
      BY Zenon, <1>t DEF Locals
    <3> QED BY <1>t, <3>1, <3>2 DEF Set
  <2>9. HashAnchored'
    BY <1>16, <1>h DEF FindNote, FindNullifier, disk
  <2> QED BY <1>16, <1>k, <1>t, <2>1, <2>9 DEF FindNote, FindNullifier, disk
<1>17. CASE AddNote(c)
  <2>1. DOMAIN notes' = Note
    BY <1>17, <1>t DEF AddNote, NotesOf!Add, NotesOf!AddScope
  <2>9. HashAnchored'
    BY <1>17, <1>h DEF AddNote
  <2> QED BY <1>17, <1>k, <1>n, <1>t, <2>1, <2>9 DEF AddNote
<1>18. CASE ApplyNullifier(c)
  <2>1. DOMAIN notes' = Note
    BY <1>18, <1>t DEF ApplyNullifier, NotesOf!Nullify
  <2>9. HashAnchored'
    BY <1>18, <1>h DEF ApplyNullifier
  <2> QED BY <1>18, <1>k, <1>n, <1>t, <2>1, <2>9 DEF ApplyNullifier
<1>19. ASSUME NEW t \in Tx, FindEvent(c, t) PROVE Typed'
  <2>1. loc' \in [Caller -> Locals]
    BY Zenon, <1>19, <1>t DEF FindEvent, Locals
  <2>9. HashAnchored'
    BY <1>19, <1>h DEF FindEvent, disk
  <2> QED BY <1>19, <1>k, <1>t, <2>1, <2>9 DEF FindEvent, disk
<1>20. CASE GetTxEffect(c)
  <2>1. BlockOf(loc[c].tx) \in BlockNumber /\ chain[BlockOf(loc[c].tx)].id \in 0..MaxBlocks
    BY <1>20, <1>t, BlockOfType DEF GetTxEffect
  <2>2. loc' \in [Caller -> Locals]
    BY Zenon, <1>20, <1>t, <2>1 DEF GetTxEffect, Locals
  <2>9. HashAnchored'
    BY <1>20, <1>h DEF GetTxEffect, disk
  <2> QED BY <1>20, <1>k, <1>t, <2>2, <2>9 DEF GetTxEffect, disk
<1>21. CASE RejectEvent(c)
  <2>9. HashAnchored'
    BY <1>21, <1>h DEF RejectEvent, disk
  <2> QED BY <1>21, <1>k, <1>n, <1>t, <2>9 DEF RejectEvent, disk
<1>22. CASE StoreEvent(c)
  <2>1. events' \in [Tx -> Event]
    BY Zenon, <1>22, <1>t, <1>l DEF StoreEvent, Event
  <2>9. HashAnchored'
    BY <1>22, <1>h DEF StoreEvent
  <2> QED BY <1>22, <1>k, <1>n, <1>t, <2>1, <2>9 DEF StoreEvent
<1> QED
  BY <1>1, <1>2, <1>3, <1>4, <1>5, <1>6, <1>7, <1>8, <1>9, <1>10, <1>11, <1>12, <1>13, <1>14, <1>15,
     <1>16, <1>17, <1>18, <1>19, <1>20, <1>21, <1>22 DEF CallerStep, SyncStep, DiscoveryStep

LEMMA TypeStep == Typed /\ [Next]_vars => Typed'
<1> SUFFICES ASSUME Typed, [Next]_vars PROVE Typed'
  OBVIOUS
<1>1. CASE Restart
  <2>1. Flagged'
    BY FlagStep DEF Typed, Next
  <2>2. NoLocals \in Locals
    BY SyncAssumption DEF NoLocals, Locals, BlockNumber
  <2> QED BY Zenon, <1>1, <2>1, <2>2 DEF Restart, Typed, TypeOK, HashAnchored, node, disk, Flagged, Label
<1>2. CASE UNCHANGED vars
  BY <1>2, FlagStep DEF vars, Typed, TypeOK, HashAnchored, Known
<1> QED BY <1>1, <1>2, TypeNode, TypeCaller DEF Next

(* Chain, stores and callers' variables stay well formed: no block number    *)
(* leaves its range, neither below 0 (handle_reorg one below the anchor) nor *)
(* above the chain.                                                          *)
THEOREM TypeCorrect == Spec => []TypeOK
<1>1. Typed => TypeOK
  BY DEF Typed
<1> QED BY <1>1, TypeInit, TypeStep, PTL DEF Spec

-----------------------------------------------------------------------------
(* A caller's step changes its own variables, and nobody changes the anchor   *)
(* or the history under the caller that is in do_sync.                        *)
LEMMA Frame ==
  ASSUME Typed, NEW c \in Caller, CallerStep(c)
  PROVE  /\ UNCHANGED node
         /\ \A d \in Caller : d # c => pc'[d] = pc[d] /\ loc'[d] = loc[d]
         /\ anchor' # anchor => pc[c] \in {"storeFirst", "storeReorg", "storeNew"}
         /\ events' # events => pc[c] \in {"rollEvents", "storeEvent"}
         /\ up' # up => pc[c] = "done"
         /\ quiet' # quiet => ~syncing
<1> DEFINE Own == /\ \E p : Goto(c, p)
                  /\ loc' = loc \/ \E v : loc' = [loc EXCEPT ![c] = v]
<1> DEFINE Shared == /\ UNCHANGED node
                     /\ anchor' # anchor => pc[c] \in {"storeFirst", "storeReorg", "storeNew"}
                     /\ events' # events => pc[c] \in {"rollEvents", "storeEvent"}
                     /\ up' # up => pc[c] = "done"
                     /\ quiet' # quiet => ~syncing
<1>1. ASSUME Sync(c) PROVE Own /\ Shared
  <2>1. Own
    BY <1>1 DEF Sync
  <2>2. Shared
    BY <1>1 DEF Sync, disk
  <2> QED BY <2>1, <2>2
<1>2. ASSUME SyncStep(c) PROVE Own /\ Shared
  <2>1. Own
    BY <1>2 DEF SyncStep, StopWaiting, FetchFirst, StoreAnchor, FetchTip, CompareBehind, CompareAhead, Set,
              CheckHash, Advance, FetchNew, FetchReorg, RollbackNotes, RollbackEvents, FailSync, EndSync
  <2>2. Shared
    BY Zenon, <1>2 DEF SyncStep, StopWaiting, FetchFirst, StoreAnchor, FetchTip, CompareBehind, CompareAhead, disk,
              CheckHash, Advance, FetchNew, FetchReorg, RollbackNotes, RollbackEvents, FailSync, EndSync
  <2> QED BY <2>1, <2>2
<1>3. ASSUME DiscoveryStep(c) PROVE Own /\ Shared
  <2>1. Own
    BY Zenon, <1>3 DEF DiscoveryStep, FindNote, FindNullifier, FindEvent, AddNote, ApplyNullifier, Set,
              GetTxEffect, RejectEvent, StoreEvent
  <2>2. Shared
    BY Zenon, <1>3 DEF DiscoveryStep, FindNote, FindNullifier, FindEvent, AddNote, ApplyNullifier, disk,
              GetTxEffect, RejectEvent, StoreEvent
  <2> QED BY <2>1, <2>2
<1>4. Own /\ Shared => \A d \in Caller : d # c => pc'[d] = pc[d] /\ loc'[d] = loc[d]
  BY DEF Goto, Typed, TypeOK, Flagged
<1>5. Own /\ Shared
  BY <1>1, <1>2, <1>3 DEF CallerStep
<1> QED BY <1>4, <1>5

LEMMA OthersKept ==
  ASSUME Typed, NEW c \in Caller, CallerStep(c), NEW d \in Caller, d # c
  PROVE  /\ pc'[d] = pc[d] /\ loc'[d] = loc[d]
         /\ pc[d] \in InSync => UNCHANGED <<anchor, quiet, up>> /\ pc[c] \notin InSync
<1>1. pc[d] \in InSync => pc[c] \notin InSync /\ syncing
  BY DEF Typed, Flagged, Exclusive
<1> QED BY <1>1, Frame DEF InSync, Remote
-----------------------------------------------------------------------------
(* What a caller's step does, by the label it starts from: the actions with   *)
(* their effect on the caller's own variables worked out.  What is not named  *)
(* here is in Frame, or no proof is about it.                                 *)
Same(c) == loc'[c] = loc[c]

Enter(c) == pc[c] = "idle" /\ quiet' /\ pc'[c] = IF anchor = NoAnchor THEN "first" ELSE "tip"
Leave(c) == pc[c] \in {"idle", "wait", "addNote", "nullify", "event"} /\ pc'[c] \in {"idle", "wait", "addNote", "nullify"}
Failed(c) == pc[c] \in Remote /\ pc'[c] = "done" /\ ~loc'[c].ok
First(c) == pc[c] = "first" /\ pc'[c] = "storeFirst" /\ loc'[c].hdr = GetBlockHeader(0)
Stored(c) == /\ anchor' = loc[c].hdr /\ Same(c)
             /\ \/ pc[c] = "storeFirst" /\ pc'[c] = "tip"
                \/ pc[c] = "storeReorg" /\ pc'[c] = IF loc[c].advance THEN "advance" ELSE "done"
                \/ pc[c] = "storeNew" /\ pc'[c] = "done"
GotTip(c) == pc[c] = "tip" /\ pc'[c] = "compare" /\ loc'[c].tip = Tip
Behind(c) == /\ pc[c] = "compare" /\ pc'[c] = "reorg" /\ loc[c].tip < anchor.number
             /\ loc'[c].target = loc[c].tip /\ loc'[c].tip = loc[c].tip /\ ~loc'[c].advance
Ahead(c) == /\ pc[c] = "compare" /\ Same(c) /\ loc[c].tip >= anchor.number
            /\ pc'[c] = IF anchor.number = 0 THEN "done" ELSE IF anchor.hash = NoHash THEN "advance" ELSE "hash"
Differs(c) == /\ pc[c] = "hash" /\ pc'[c] = "reorg" /\ Known(anchor.number)
              /\ GetBlockHeader(anchor.number).hash \notin {NoHash, anchor.hash}
              /\ loc'[c].target = anchor.number - 1 /\ loc'[c].tip = loc[c].tip /\ loc'[c].advance
Agrees(c) == /\ pc[c] = "hash" /\ pc'[c] = "advance" /\ Known(anchor.number) /\ Same(c)
             /\ GetBlockHeader(anchor.number).hash \in {NoHash, anchor.hash}
Advances(c) == /\ pc[c] = "advance" /\ Same(c)
               /\ pc'[c] = IF loc[c].tip > anchor.number THEN "fetch" ELSE "done"
GotNew(c) == /\ pc[c] = "fetch" /\ pc'[c] = "storeNew" /\ Known(loc[c].tip)
             /\ loc'[c].hdr = GetBlockHeader(loc[c].tip) /\ loc'[c].tip = loc[c].tip
GotReorg(c) == /\ pc[c] = "reorg" /\ pc'[c] = "rollNotes" /\ Known(loc[c].target)
               /\ loc'[c].hdr = GetBlockHeader(loc[c].target) /\ loc'[c].tip = loc[c].tip
               /\ loc'[c].target = loc[c].target /\ loc'[c].advance = loc[c].advance
Rolled(c) == /\ pc[c] = "rollNotes" /\ pc'[c] = "rollEvents" /\ Same(c)
RolledEvents(c) ==
    /\ pc[c] = "rollEvents" /\ pc'[c] = "storeReorg" /\ Same(c)
    /\ \A t \in Tx : \/ events'[t] = Absent
                     \/ events'[t] = events[t] /\ events[t] # Absent /\ events[t].number <= loc[c].target
Ended(c) == pc[c] = "done" /\ pc'[c] = "idle" /\ up' = (up \/ loc[c].ok)
FoundEvent(c) == pc[c] = "idle" /\ up /\ pc'[c] = "event" /\ loc'[c].tip = anchor.number
GotEffect(c) ==
    /\ pc[c] = "event" /\ pc'[c] = "storeEvent" /\ OnChain(loc[c].tx)
    /\ loc'[c].number = BlockOf(loc[c].tx) /\ loc'[c].id = chain[BlockOf(loc[c].tx)].id
    /\ loc[c].tip = 0 \/ loc'[c].number <= loc[c].tip
StoredEvent(c) ==
    /\ pc[c] = "storeEvent" /\ pc'[c] = "idle"
    /\ \A t \in Tx : \/ events'[t] = events[t]
                     \/ events'[t] = [number |-> loc[c].number, id |-> loc[c].id]

Move(c) ==
    \/ Enter(c) \/ Leave(c) \/ Failed(c) \/ First(c) \/ Stored(c) \/ GotTip(c) \/ Behind(c) \/ Ahead(c)
    \/ Differs(c) \/ Agrees(c) \/ Advances(c) \/ GotNew(c) \/ GotReorg(c) \/ Rolled(c) \/ RolledEvents(c)
    \/ Ended(c) \/ FoundEvent(c) \/ GotEffect(c) \/ StoredEvent(c)

LEMMA Moves == ASSUME Typed, NEW c \in Caller, CallerStep(c) PROVE Move(c)
<1>t. /\ pc \in [Caller -> Label] /\ loc \in [Caller -> Locals] /\ loc[c] \in Locals /\ DOMAIN events = Tx
      /\ loc[c].tip \in Nat /\ loc[c].target \in Nat /\ anchor.number \in Nat
      /\ \A t \in Tx : events[t] # Absent => events[t].number \in Nat
  BY SyncAssumption DEF Typed, TypeOK, Flagged, Locals, BlockNumber, Header, NoAnchor
<1>p. ASSUME NEW p, Goto(c, p) PROVE pc'[c] = p
  BY <1>p, <1>t DEF Goto
<1>s. ASSUME NEW v, loc' = [loc EXCEPT ![c] = v] PROVE loc'[c] = v
  BY <1>s, <1>t
<1>1. CASE Sync(c)
  BY Zenon, <1>1, <1>p DEF Sync, Move, Enter, Leave
<1>2. CASE StopWaiting(c)
  BY <1>2, <1>p DEF StopWaiting, Move, Leave
<1>3. CASE FetchFirst(c)
  <2>1. loc'[c].hdr = GetBlockHeader(0)
    BY <1>3, <1>t DEF FetchFirst, Set, Locals
  <2> QED BY <1>3, <1>p, <2>1 DEF FetchFirst, Move, First
<1>4. CASE StoreAnchor(c)
  BY <1>4, <1>p DEF StoreAnchor, Move, Stored, Same
<1>5. CASE FetchTip(c)
  <2>1. loc'[c].tip = Tip
    BY <1>5, <1>t DEF FetchTip, Set, Locals
  <2> QED BY <1>5, <1>p, <2>1 DEF FetchTip, Move, GotTip
<1>6. CASE CompareBehind(c)
  <2>1. loc'[c].target = loc[c].tip /\ loc'[c].tip = loc[c].tip /\ ~loc'[c].advance
    BY <1>6, <1>t DEF CompareBehind, Locals
  <2> QED BY <1>6, <1>p, <2>1 DEF CompareBehind, Move, Behind
<1>7. CASE CompareAhead(c)
  BY <1>7, <1>p DEF CompareAhead, Move, Ahead, Same
<1>8. CASE CheckHash(c)
  <2>1. CASE GetBlockHeader(anchor.number).hash \in {NoHash, anchor.hash}
    BY <1>8, <1>p, <2>1 DEF CheckHash, Move, Agrees, Same
  <2>2. CASE GetBlockHeader(anchor.number).hash \notin {NoHash, anchor.hash}
    <3>1. loc' = [loc EXCEPT ![c] = [@ EXCEPT !.target = anchor.number - 1, !.advance = TRUE]]
      BY <1>8, <2>2 DEF CheckHash
    <3>2. loc'[c].target = anchor.number - 1 /\ loc'[c].tip = loc[c].tip /\ loc'[c].advance
      BY <1>t, <3>1 DEF Locals
    <3> QED BY <1>8, <1>p, <2>2, <3>2 DEF CheckHash, Move, Differs
  <2> QED BY <2>1, <2>2
<1>9. CASE Advance(c)
  BY <1>9, <1>p DEF Advance, Move, Advances, Same
<1>10. CASE FetchNew(c)
  <2>1. loc'[c].hdr = GetBlockHeader(loc[c].tip) /\ loc'[c].tip = loc[c].tip
    BY <1>10, <1>t DEF FetchNew, Set, Locals
  <2> QED BY Zenon, <1>10, <1>p, <2>1 DEF FetchNew, Move, GotNew
<1>11. CASE FetchReorg(c)
  <2>1. /\ loc'[c].hdr = GetBlockHeader(loc[c].target) /\ loc'[c].tip = loc[c].tip
        /\ loc'[c].target = loc[c].target /\ loc'[c].advance = loc[c].advance
    BY <1>11, <1>t DEF FetchReorg, Set, Locals
  <2> QED BY Zenon, <1>11, <1>p, <2>1 DEF FetchReorg, Move, GotReorg
<1>12. CASE RollbackNotes(c)
  BY <1>12, <1>p DEF RollbackNotes, Move, Rolled, Same
<1>13. CASE RollbackEvents(c)
  <2>1. \A t \in Tx : \/ events'[t] = Absent
                      \/ events'[t] = events[t] /\ events[t] # Absent /\ events[t].number <= loc[c].target
    BY <1>13, <1>t DEF RollbackEvents
  <2> QED BY <1>13, <1>p, <2>1 DEF RollbackEvents, Move, RolledEvents, Same
<1>14. CASE FailSync(c)
  <2>1. ~loc'[c].ok
    BY <1>14, <1>t DEF FailSync, Set, Locals
  <2> QED BY <1>14, <1>p, <2>1 DEF FailSync, Move, Failed
<1>15. CASE EndSync(c)
  BY <1>15, <1>p DEF EndSync, Move, Ended
<1>16. ASSUME NEW n \in Note, FindNote(c, n) \/ FindNullifier(c, n) PROVE Move(c)
  BY <1>16, <1>p DEF FindNote, FindNullifier, Move, Leave
<1>17. CASE AddNote(c) \/ ApplyNullifier(c) \/ RejectEvent(c)
  BY Zenon, <1>17, <1>p DEF AddNote, ApplyNullifier, RejectEvent, Move, Leave
<1>18. ASSUME NEW t \in Tx, FindEvent(c, t) PROVE Move(c)
  <2>1. loc'[c].tip = anchor.number
    BY <1>18, <1>t DEF FindEvent, Locals
  <2> QED BY <1>18, <1>p, <2>1 DEF FindEvent, Move, FoundEvent
<1>19. CASE GetTxEffect(c)
  <2>1. loc'[c].number = BlockOf(loc[c].tx) /\ loc'[c].id = chain[BlockOf(loc[c].tx)].id
    BY <1>19, <1>t DEF GetTxEffect, Locals
  <2>2. loc[c].tip = 0 \/ BlockOf(loc[c].tx) <= loc[c].tip
    BY <1>19 DEF GetTxEffect
  <2> QED BY <1>19, <1>p, <2>1, <2>2 DEF GetTxEffect, Move, GotEffect
<1>20. CASE StoreEvent(c)
  <2>1. \A t \in Tx : events'[t] = events[t] \/ events'[t] = [number |-> loc[c].number, id |-> loc[c].id]
    BY <1>20, <1>t DEF StoreEvent
  <2> QED BY <1>20, <1>p, <2>1 DEF StoreEvent, Move, StoredEvent
<1> QED
  BY <1>1, <1>2, <1>3, <1>4, <1>5, <1>6, <1>7, <1>8, <1>9, <1>10, <1>11, <1>12, <1>13, <1>14, <1>15,
     <1>16, <1>17, <1>18, <1>19, <1>20 DEF CallerStep, SyncStep, DiscoveryStep

-----------------------------------------------------------------------------
(* Where there is an anchor.  It is stored before anything is synchronised or *)
(* discovered, and only ever replaced by another header.                      *)
Placed(c) ==
    /\ pc[c] \in {"first", "storeFirst"} => anchor = NoAnchor
    /\ pc[c] \in InSync \ {"first", "storeFirst", "done"} => anchor # NoAnchor
    /\ pc[c] = "done" /\ loc[c].ok => anchor # NoAnchor
    /\ pc[c] \in {"event", "storeEvent"} => anchor # NoAnchor
    /\ pc[c] \in {"storeFirst", "rollNotes", "rollEvents", "storeReorg", "storeNew"} => loc[c].hdr \in Header

PlaceInv ==
    /\ up => anchor # NoAnchor
    /\ anchor = NoAnchor => \A t \in Tx : events[t] = Absent
    /\ \A c \in Caller : Placed(c)

LEMMA PlaceInit == Init => PlaceInv
  BY DEF Init, PlaceInv, Placed, InSync, Remote

LEMMA PlaceStep == ASSUME Typed, PlaceInv, [Next]_vars PROVE PlaceInv'
<1>a. NoAnchor \notin Header
  BY SyncAssumption DEF NoAnchor, Header
<1>1. ASSUME NEW c \in Caller, CallerStep(c) PROVE PlaceInv'
  <2>m. Move(c) /\ Placed(c)
    BY <1>1, Moves DEF PlaceInv
  <2>h. /\ pc[c] = "first" => GetBlockHeader(0) \in Header
        /\ \A h \in BlockNumber : Known(h) => GetBlockHeader(h) \in Header
    BY AnswerType, SyncAssumption, LenProperties DEF BlockNumber, Typed, TypeOK, Known
  <2>l. loc[c].tip \in BlockNumber /\ loc[c].target \in BlockNumber
    BY DEF Typed, TypeOK, Locals
  <2>n. anchor # NoAnchor => anchor' # NoAnchor
    <3>1. anchor' # anchor => Stored(c)
      BY Zenon, <1>1, <2>m, Frame DEF Move, Enter, Leave, Failed, First, GotTip, Behind, Ahead, Differs, Agrees,
         Advances, GotNew, GotReorg, Rolled, RolledEvents, Ended, FoundEvent, GotEffect, StoredEvent, Remote
    <3> QED BY <1>a, <2>m, <3>1 DEF Placed, Stored
  <2>1. Placed(c)'
    <3>1. CASE pc'[c] \notin InSync \union {"event", "storeEvent"}
      BY <3>1 DEF Placed, InSync, Remote
    <3>2. CASE Enter(c) \/ FoundEvent(c) \/ GotEffect(c) \/ First(c) \/ GotTip(c) \/ Failed(c)
      BY Zenon, <1>1, <1>a, <2>m, <2>h, <2>n, <3>2, Frame
         DEF Placed, InSync, Remote, Enter, FoundEvent, GotEffect, First, GotTip, Failed, PlaceInv
    <3>3. CASE Stored(c) \/ Advances(c) \/ Rolled(c) \/ RolledEvents(c)
      BY <1>1, <1>a, <2>m, <2>n, <3>3, Frame
         DEF Placed, InSync, Remote, Stored, Advances, Rolled, RolledEvents, Same
    <3>4. CASE Behind(c) \/ Ahead(c) \/ Differs(c) \/ Agrees(c) \/ GotNew(c) \/ GotReorg(c)
      BY <1>1, <2>m, <2>h, <2>l, <2>n, <3>4, Frame
         DEF Placed, InSync, Remote, Behind, Ahead, Differs, Agrees, GotNew, GotReorg, Same
    <3> QED BY Zenon, <2>m, <3>1, <3>2, <3>3, <3>4 DEF Move, Leave, Ended, StoredEvent, InSync, Remote
  <2>2. ASSUME NEW d \in Caller, d # c PROVE Placed(d)'
    BY <1>1, <2>2, <2>n, OthersKept DEF PlaceInv, Placed, InSync, Remote
  <2>3. (up => anchor # NoAnchor)'
    BY Zenon, <1>1, <2>m, <2>n, Frame DEF PlaceInv, Placed, Move, Enter, Leave, Failed, First, Stored, GotTip, Behind,
       Ahead, Differs, Agrees, Advances, GotNew, GotReorg, Rolled, RolledEvents, Ended, FoundEvent, GotEffect,
       StoredEvent, Remote
  <2>4. (anchor = NoAnchor => \A t \in Tx : events[t] = Absent)'
    BY <1>1, <2>m, <2>n, Frame DEF PlaceInv, Placed, InSync, Remote
  <2> QED BY <2>1, <2>2, <2>3, <2>4 DEF PlaceInv
<1>2. CASE NodeStep \/ UNCHANGED vars
  <2>1. UNCHANGED <<anchor, events, up, pc, loc>>
    BY Zenon, <1>2 DEF NodeStep, Mine, Reorg, Prove, disk, vars
  <2> QED BY <2>1 DEF PlaceInv, Placed
<1>3. CASE Restart
  BY <1>3 DEF Restart, disk, PlaceInv, Placed, InSync, Remote
<1> QED BY <1>1, <1>2, <1>3 DEF Next

-----------------------------------------------------------------------------
(* With one task, no stored event lies after the anchor, whatever the chain   *)
(* does between its remote calls.                                             *)
OneCaller == \A a, b \in Caller : a = b

BoundedBy(h) == \A t \in Tx : events[t] # Absent => events[t].number <= h

(* The new anchor is above the old one, or above every event that is left; a *)
(* header fetched for a block is never below it, also where block 0 is sent  *)
(* as "latest".                                                              *)
Ordered(c) ==
    /\ pc[c] \in {"rollNotes", "rollEvents"} => loc[c].target <= loc[c].hdr.number
    /\ pc[c] = "storeReorg" => BoundedBy(loc[c].hdr.number)
    /\ pc[c] \in {"advance", "fetch", "storeNew"} => BoundedBy(anchor.number)
    /\ pc[c] = "fetch" => anchor.number < loc[c].tip
    /\ pc[c] = "storeNew" => anchor.number < loc[c].hdr.number
    /\ pc[c] = "event" => loc[c].tip = anchor.number
    /\ pc[c] = "storeEvent" => anchor.number = 0 \/ loc[c].number <= anchor.number

EventInv == EventsUpToAnchor /\ \A c \in Caller : Ordered(c)

LEMMA EventInit == Init => EventInv
<1> SUFFICES ASSUME Init PROVE EventInv
  OBVIOUS
<1>1. (\A t \in Tx : events[t] = Absent) /\ \A c \in Caller : pc[c] = "idle"
  BY DEF Init
<1> QED BY <1>1 DEF EventInv, EventsUpToAnchor, Ordered

LEMMA AnswerNumber ==
  ASSUME Typed, NEW h \in BlockNumber, Known(h)
  PROVE  h > 0 => GetBlockHeader(h).number = h
<1>1. Len(chain) \in Nat
  BY LenProperties DEF Typed, TypeOK
<1> QED BY <1>1 DEF GetBlockHeader, HeaderAt, Genesis, BlockNumber

(* What a caller holds is of its type. *)
LEMMA LocalTypes ==
  ASSUME Typed, NEW c \in Caller
  PROVE  /\ loc[c].tip \in Nat /\ loc[c].target \in Nat /\ loc[c].number \in Nat
         /\ loc[c].tip \in BlockNumber /\ loc[c].target \in BlockNumber
         /\ loc[c].hdr.number \in Nat /\ anchor.number \in Nat /\ Len(chain) \in Nat
         /\ proven \in Nat /\ proven <= Len(chain)
         /\ \A t \in Tx : events[t] # Absent => events[t].number \in Nat
<1>1. /\ loc[c] \in Locals /\ anchor \in Header \union {NoAnchor} /\ Len(chain) \in Nat /\ proven \in 0..Len(chain)
      /\ \A t \in Tx : events[t] # Absent => events[t].number \in BlockNumber
  BY LenProperties DEF Typed, TypeOK
<1>2. BlockNumber \subseteq Nat
  BY SyncAssumption DEF BlockNumber
<1>3. \A h \in Header \union {NoAnchor} : h.number \in Nat
  <2>1. \A h \in Header : h.number \in BlockNumber
    BY DEF Header
  <2>2. NoAnchor.number \in Nat
    BY DEF NoAnchor
  <2> QED BY Zenon, <1>2, <2>1, <2>2
<1>4. /\ loc[c].hdr \in Header \union {NoAnchor}
      /\ {loc[c].tip, loc[c].target, loc[c].number} \subseteq BlockNumber
  BY <1>1 DEF Locals
<1>5. proven \in Nat /\ proven <= Len(chain)
  BY <1>1
<1>6. loc[c].hdr.number \in Nat /\ anchor.number \in Nat
  BY <1>1, <1>3, <1>4
<1>7. \A t \in Tx : events[t] # Absent => events[t].number \in Nat
  BY Zenon, <1>1, <1>2
<1> QED BY Zenon, <1>1, <1>2, <1>4, <1>5, <1>6, <1>7

(* One task: what it knew before a call is still true after it. *)
LEMMA EventCaller ==
  ASSUME OneCaller, Typed, PlaceInv, EventInv, NEW c \in Caller, CallerStep(c)
  PROVE  EventInv'
<1>m. Move(c) /\ Placed(c) /\ Ordered(c) /\ EventsUpToAnchor /\ \A d \in Caller : d = c
  BY Moves DEF OneCaller, PlaceInv, EventInv
<1>h. \A h \in BlockNumber : Known(h) => /\ h <= GetBlockHeader(h).number
                                         /\ h > 0 => GetBlockHeader(h).number = h
  BY AnswerType, AnswerNumber, SyncAssumption DEF BlockNumber
<1>1. CASE Stored(c)
  <2>1. BoundedBy(loc[c].hdr.number) /\ UNCHANGED events
    BY <1>m, <1>1, LocalTypes, Frame DEF Stored, Placed, Ordered, BoundedBy, PlaceInv
  <2>2. Ordered(c)'
    BY <1>1, <2>1 DEF Stored, Ordered, BoundedBy, Same
  <2> QED BY <1>m, <1>1, <2>1, <2>2 DEF EventInv, EventsUpToAnchor, BoundedBy, Stored
<1>2. CASE RolledEvents(c)
  <2>1. UNCHANGED anchor
    BY <1>2, Frame DEF RolledEvents
  <2>2. BoundedBy(loc[c].hdr.number)'
    BY <1>m, <1>2, LocalTypes DEF RolledEvents, Ordered, BoundedBy, Same
  <2>3. Ordered(c)'
    BY <1>2, <2>2 DEF RolledEvents, Ordered, BoundedBy, Same
  <2>4. EventsUpToAnchor'
    BY <1>m, <1>2, <2>1 DEF RolledEvents, EventsUpToAnchor, Anchored
  <2> QED BY <1>m, <2>3, <2>4 DEF EventInv
<1>3. CASE StoredEvent(c)
  <2>1. UNCHANGED anchor
    BY <1>3, Frame DEF StoredEvent
  <2>2. EventsUpToAnchor'
    BY <1>m, <1>3, <2>1 DEF StoredEvent, EventsUpToAnchor, Anchored, Ordered
  <2> QED BY <1>m, <1>3, <2>2 DEF EventInv, Ordered, StoredEvent
<1>4. CASE ~Stored(c) /\ ~RolledEvents(c) /\ ~StoredEvent(c)
  <2>1. UNCHANGED <<anchor, events>>
    BY Zenon, <1>m, <1>4, Frame
       DEF Move, Enter, Leave, Failed, First, GotTip, Behind, Ahead, Differs, Agrees, Advances, GotNew, GotReorg,
           Rolled, Ended, FoundEvent, GotEffect, Remote
  <2>2. BoundedBy(anchor.number)' <=> BoundedBy(anchor.number)
    BY <2>1 DEF BoundedBy
  <2>3. anchor.number # 0 => BoundedBy(anchor.number)
    BY <1>m, LocalTypes DEF EventsUpToAnchor, Anchored, BoundedBy
  <2>4. ASSUME Enter(c) \/ Leave(c) \/ Failed(c) \/ First(c) \/ GotTip(c) \/ Behind(c) \/ Differs(c) \/ Ended(c)
        PROVE  Ordered(c)'
    BY <2>4 DEF Ordered, Enter, Leave, Failed, First, GotTip, Behind, Differs, Ended
  <2>5. ASSUME Ahead(c) \/ Agrees(c) \/ Advances(c) PROVE Ordered(c)'
    <3>1. CASE Ahead(c)
      <4>1. pc'[c] = "advance" => anchor.number # 0
        BY <3>1 DEF Ahead
      <4> QED BY <2>2, <2>3, <3>1, <4>1 DEF Ordered, Ahead
    <3>2. CASE Agrees(c)
      <4>1. anchor.number # 0
        BY <3>2 DEF Agrees, Typed, HashAnchored
      <4> QED BY <2>2, <2>3, <3>2, <4>1 DEF Ordered, Agrees
    <3>3. CASE Advances(c)
      <4>1. BoundedBy(anchor.number)'
        BY <1>m, <2>2, <3>3 DEF Advances, Ordered
      <4>2. pc'[c] = "fetch" => anchor.number < loc[c].tip
        BY <3>3, LocalTypes DEF Advances
      <4> QED BY <2>1, <3>3, <4>1, <4>2 DEF Ordered, Advances, Same
    <3> QED BY <2>5, <3>1, <3>2, <3>3
  <2>6. ASSUME GotNew(c) \/ GotReorg(c) PROVE Ordered(c)'
    <3>1. CASE GotNew(c)
      <4>1. anchor.number < loc[c].tip /\ BoundedBy(anchor.number)'
        BY <1>m, <2>2, <3>1 DEF GotNew, Ordered
      <4>2. anchor.number < loc'[c].hdr.number
        BY <1>h, <3>1, <4>1, LocalTypes DEF GotNew
      <4> QED BY <2>1, <3>1, <4>1, <4>2 DEF Ordered, GotNew
    <3>2. CASE GotReorg(c)
      <4>1. loc'[c].target <= loc'[c].hdr.number
        BY <1>h, <3>2, LocalTypes DEF GotReorg
      <4> QED BY <3>2, <4>1 DEF Ordered, GotReorg
    <3> QED BY <2>6, <3>1, <3>2
  <2>7. ASSUME Rolled(c) \/ FoundEvent(c) \/ GotEffect(c) PROVE Ordered(c)'
    <3>1. CASE Rolled(c)
      BY <1>m, <3>1 DEF Ordered, Rolled, Same
    <3>2. CASE FoundEvent(c)
      BY <2>1, <3>2 DEF Ordered, FoundEvent
    <3>3. CASE GotEffect(c)
      BY <1>m, <2>1, <3>3 DEF Ordered, GotEffect
    <3> QED BY <2>7, <3>1, <3>2, <3>3
  <2>8. Ordered(c)'
    BY Zenon, <1>m, <1>4, <2>4, <2>5, <2>6, <2>7 DEF Move
  <2> QED BY <1>m, <2>1, <2>8 DEF EventInv, EventsUpToAnchor, Anchored
<1> QED BY <1>1, <1>2, <1>3, <1>4

LEMMA EventStep == ASSUME OneCaller, Typed, PlaceInv, EventInv, [Next]_vars PROVE EventInv'
<1>1. CASE NodeStep \/ UNCHANGED vars
  <2>1. UNCHANGED <<anchor, events, pc, loc>>
    BY Zenon, <1>1 DEF NodeStep, Mine, Reorg, Prove, disk, vars
  <2> QED BY <2>1 DEF EventInv, EventsUpToAnchor, Anchored, Ordered, BoundedBy
<1>2. CASE Restart
  BY <1>2 DEF Restart, disk, EventInv, EventsUpToAnchor, Anchored, Ordered
<1> QED BY <1>1, <1>2, EventCaller DEF Next

(* With one task no stored event lies after the anchor, on either tip and     *)
(* with any reorgs, failures and restarts in between: the anchor only moves   *)
(* down after the events above it are gone, and validate_and_store_event      *)
(* compares with the anchor that is still there (handle_reorg).               *)
THEOREM EventsBounded == ASSUME OneCaller PROVE Spec => []EventsUpToAnchor
<1>1. Init => Typed /\ PlaceInv /\ EventInv
  BY TypeInit, PlaceInit, EventInit
<1>2. Typed /\ PlaceInv /\ EventInv /\ [Next]_vars => (Typed /\ PlaceInv /\ EventInv)'
  BY TypeStep, PlaceStep, EventStep
<1>3. EventInv => EventsUpToAnchor
  BY DEF EventInv
<1> QED BY <1>1, <1>2, <1>3, PTL DEF Spec

=============================================================================
