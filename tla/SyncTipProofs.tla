---------------------------- MODULE SyncTipProofs ----------------------------
(***************************************************************************)
(* Where a synchronization ends, for any callers, chain and bounds: on the *)
(* node's tip, and, on the proven tip, with sound events.                  *)
(***************************************************************************)
EXTENDS BlockSyncProofs

(* Where a sync ends.  The header carries the block's hash, and a node that   *)
(* reports the proven tip has one proven block at least: the tip is then      *)
(* never block 0, which is sent as "latest", while there are later blocks.    *)
TipKnown == HashInHeader /\ (SyncChainTip = "proposed" \/ Height0 > 0)

After == {"compare", "hash", "reorg", "rollNotes", "rollEvents", "storeReorg", "advance", "fetch", "storeNew"}
Fetched == {"storeFirst", "rollNotes", "rollEvents", "storeReorg", "storeNew"}
Rolling == {"reorg", "rollNotes", "rollEvents", "storeReorg"}

(* A header as the node sends it, also when its block is gone since. *)
Genuine(hdr) ==
    /\ hdr.number > 0 => hdr.hash = hdr.id /\ hdr.id > 0
    /\ hdr.number = 0 => hdr = Genesis
    /\ hdr.number \in 1..Height0 => hdr = HeaderAt(hdr.number)

Headers ==
    /\ Height0 <= proven
    /\ anchor # NoAnchor => Genuine(anchor)
    /\ \A c \in Caller : pc[c] \in Fetched => Genuine(loc[c].hdr)

(* The block a rollback goes to, wherever the chain is by now. *)
Target(c) ==
    /\ pc[c] = "hash" => anchor.number <= loc[c].tip
    /\ pc[c] \in Rolling => IF loc[c].advance
                            THEN loc[c].target = anchor.number - 1 /\ anchor.number <= loc[c].tip
                                 /\ Height0 <= loc[c].target
                            ELSE loc[c].target = loc[c].tip
    /\ pc[c] = "fetch" => anchor.number < loc[c].tip

(* What a caller holds while the chain stands still. *)
AtTip(c) ==
    /\ pc[c] \in After => loc[c].tip = Tip
    /\ pc[c] \in Rolling \ {"reorg"} => loc[c].hdr = GetBlockHeader(loc[c].target)
    /\ pc[c] = "advance" => anchor.number <= loc[c].tip /\ anchor = HeaderAt(anchor.number)
    /\ pc[c] = "storeNew" => loc[c].hdr = HeaderAt(loc[c].tip)
    /\ pc[c] = "done" /\ loc[c].ok /\ Anchored => anchor = HeaderAt(Tip)

TipInv == Headers /\ \A c \in Caller : Target(c) /\ (quiet => AtTip(c))

LEMMA TipInit == Init => TipInv
  BY SyncAssumption DEF Init, TipInv, Headers, Target, AtTip, After, Fetched, Rolling

(* Proven blocks stay, and any change of the chain is noted. *)
LEMMA NodeKeeps ==
  ASSUME Typed, NodeStep
  PROVE  /\ \A h \in 1..proven : chain'[h] = chain[h]
         /\ proven <= proven' /\ proven' \in Nat /\ proven' <= Len(chain')
         /\ ~quiet' /\ UNCHANGED <<anchor, events, up, pc, loc>>
<1>1. chain \in Seq(Blocks) /\ Len(chain) \in Nat /\ proven \in 0..Len(chain)
  BY LenProperties DEF Typed, TypeOK, Blocks
<1>2. ASSUME NEW txs \in SUBSET Tx, Mine(txs) PROVE \A h \in 1..proven : chain'[h] = chain[h]
  BY <1>1, <1>2 DEF Mine
<1>3. ASSUME NEW h \in BlockNumber, Reorg(h) PROVE \A i \in 1..proven : chain'[i] = chain[i]
  BY <1>1, <1>3 DEF Reorg
<1>4. \A h \in 1..proven : chain'[h] = chain[h]
  BY <1>2, <1>3 DEF NodeStep, Prove
<1>5. proven <= proven' /\ ~quiet' /\ UNCHANGED <<anchor, events, up, pc, loc>>
  <2>1. proven' = proven \/ proven' = proven + 1
    BY Zenon DEF NodeStep, Mine, Reorg, Prove
  <2>2. quiet' = FALSE /\ UNCHANGED <<anchor, events, up, pc, loc>>
    BY Zenon DEF NodeStep, Mine, Reorg, Prove, disk
  <2> QED BY <1>1, <2>1, <2>2
<1>6. proven' \in Nat /\ proven' <= Len(chain')
  <2>1. Typed'
    BY TypeNode
  <2>2. chain' \in Seq([id : 1..MaxBlocks, txs : SUBSET Tx]) /\ proven' \in 0..Len(chain')
    BY <2>1 DEF Typed, TypeOK
  <2> QED BY <2>2, LenProperties
<1> QED BY <1>4, <1>5, <1>6

LEMMA AnswerGenuine ==
  ASSUME TipKnown, Typed, NEW h \in BlockNumber, Known(h)
  PROVE  Genuine(GetBlockHeader(h))
<1>1. chain \in Seq(Blocks) /\ Len(chain) \in Nat /\ h \in Nat
  BY LenProperties, SyncAssumption DEF Typed, TypeOK, Blocks, BlockNumber
<1>2. ASSUME NEW i \in 1..Len(chain) PROVE chain[i].id > 0
  <2>1. chain[i] \in Blocks
    BY <1>1, ElementOfSeq
  <2> QED BY <2>1, SyncAssumption DEF Blocks
<1>3. ASSUME NEW i \in 0..Len(chain) PROVE Genuine(HeaderAt(i))
  BY <1>1, <1>2 DEF Genuine, HeaderAt, Genesis, TipKnown
<1> QED BY <1>1, <1>3 DEF GetBlockHeader, Known

(* An anchor with the hash of the node's block is that block's header. *)
LEMMA SameHash ==
  ASSUME TipKnown, Typed, anchor \in Header, Genuine(anchor), anchor.number > 0, Known(anchor.number)
  PROVE  /\ GetBlockHeader(anchor.number).hash # NoHash
         /\ GetBlockHeader(anchor.number).hash = anchor.hash => anchor = HeaderAt(anchor.number)
<1>1. chain \in Seq(Blocks) /\ Len(chain) \in Nat /\ anchor.number \in 1..Len(chain)
  BY LenProperties, SyncAssumption DEF Typed, TypeOK, Blocks, BlockNumber, Header, Known
<1>2. chain[anchor.number].id > 0
  <2>1. chain[anchor.number] \in Blocks
    BY <1>1, ElementOfSeq
  <2> QED BY <2>1, SyncAssumption DEF Blocks
<1>3. GetBlockHeader(anchor.number) = [number |-> anchor.number, id |-> chain[anchor.number].id,
                                       hash |-> chain[anchor.number].id]
  BY <1>1 DEF GetBlockHeader, HeaderAt, TipKnown
<1>4. anchor = [number |-> anchor.number, id |-> anchor.id, hash |-> anchor.hash]
  BY DEF Header
<1>5. anchor.hash = anchor.id
  BY DEF Genuine
<1> QED BY <1>1, <1>2, <1>3, <1>4, <1>5 DEF GetBlockHeader, NoHash

LEMMA TipCaller ==
  ASSUME TipKnown, Typed, PlaceInv, TipInv, NEW c \in Caller, CallerStep(c)
  PROVE  TipInv'
<1>m. Move(c) /\ Placed(c) /\ Target(c) /\ (quiet => AtTip(c)) /\ Headers
  BY Moves DEF PlaceInv, TipInv
<1>n. /\ UNCHANGED <<chain, proven>> /\ Tip' = Tip /\ \A h : HeaderAt(h)' = HeaderAt(h)
      /\ \A h : GetBlockHeader(h)' = GetBlockHeader(h)
  BY Zenon, Frame DEF node, Tip, HeaderAt, GetBlockHeader
<1>g. \A hdr : Genuine(hdr)' <=> Genuine(hdr)
  BY <1>n DEF Genuine
<1>q. pc[c] \in InSync => quiet' = quiet
  BY Frame DEF Typed, Flagged, Exclusive
<1>h. \A h \in BlockNumber : Known(h) => Genuine(GetBlockHeader(h))
  BY AnswerGenuine
<1>0. GetBlockHeader(0) = HeaderAt(Len(chain)) /\ \A h \in Nat \ {0} : GetBlockHeader(h) = HeaderAt(h)
  BY DEF GetBlockHeader
<1>f. 0 \in BlockNumber /\ Known(0) /\ Height0 \in Nat
  BY SyncAssumption, LocalTypes DEF BlockNumber, Known
<1>1. (anchor # NoAnchor => Genuine(anchor))'
  <2>1. anchor' # anchor => Stored(c)
    BY Zenon, <1>m, Frame DEF Move, Enter, Leave, Failed, First, GotTip, Behind, Ahead, Differs, Agrees,
       Advances, GotNew, GotReorg, Rolled, RolledEvents, Ended, FoundEvent, GotEffect, StoredEvent, Remote
  <2> QED BY <1>m, <1>g, <2>1 DEF Headers, Stored, Fetched
<1>2. (pc[c] \in Fetched => Genuine(loc[c].hdr))'
  BY Zenon, <1>m, <1>g, <1>h, <1>f, LocalTypes DEF Headers, Fetched, Move, Enter, Leave, Failed, First, Stored, GotTip, Behind,
     Ahead, Differs, Agrees, Advances, GotNew, GotReorg, Rolled, RolledEvents, Ended, FoundEvent, GotEffect,
     StoredEvent, Same
<1>3. Headers'
  <2>1. ASSUME NEW d \in Caller PROVE (pc[d] \in Fetched => Genuine(loc[d].hdr))'
    <3>1. CASE d # c
      BY <1>m, <1>g, <3>1, OthersKept DEF Headers
    <3> QED BY <1>2, <3>1
  <2> QED BY Zenon, <1>m, <1>n, <1>1, <2>1 DEF Headers
<1>4. Target(c)' /\ (quiet' => AtTip(c)')
  <2>l. /\ loc[c].tip \in Nat /\ loc[c].target \in Nat /\ anchor.number \in Nat /\ Len(chain) \in Nat
        /\ proven \in Nat /\ proven <= Len(chain) /\ Tip \in Nat /\ Tip <= Len(chain)
    BY LocalTypes DEF Tip
  <2>0. CASE pc'[c] \notin After \union {"done"}
    BY <2>0 DEF Target, AtTip, After, Rolling
  <2>1. CASE Failed(c)
    BY <2>1 DEF Failed, Target, AtTip, After, Rolling
  <2>2. CASE GotTip(c)
    BY <1>n, <2>2 DEF GotTip, Target, AtTip, After, Rolling
  <2>3. CASE Behind(c)
    BY <1>m, <1>n, <1>q, <2>3 DEF Behind, Target, AtTip, After, Rolling, InSync, Remote
  <2>4. CASE Ahead(c)
    <3>1. UNCHANGED anchor /\ anchor # NoAnchor /\ Genuine(anchor) /\ (anchor.number > 0 => anchor.hash # NoHash)
      BY <1>m, <2>4, Frame DEF Ahead, Placed, InSync, Remote, Headers, Genuine, NoHash
    <3> QED BY <1>m, <1>n, <1>q, <2>l, <2>4, <3>1
               DEF Ahead, Target, AtTip, Anchored, After, Rolling, InSync, Remote, Same
  <2>5. CASE Differs(c) \/ Agrees(c)
    <3>1. UNCHANGED anchor /\ anchor \in Header /\ Genuine(anchor) /\ anchor.number > 0 /\ Known(anchor.number)
      BY Zenon, <1>m, <2>5, Frame DEF Differs, Agrees, Placed, InSync, Remote, Headers, Typed, TypeOK, HashAnchored
    <3>2. /\ GetBlockHeader(anchor.number).hash # NoHash
          /\ GetBlockHeader(anchor.number).hash = anchor.hash => anchor = HeaderAt(anchor.number)
      BY <3>1, SameHash
    <3>3. Differs(c) => Height0 < anchor.number
      BY <1>0, <1>f, <2>l, <3>1 DEF Differs, Genuine
    <3> QED BY <1>m, <1>n, <1>f, <1>q, <2>l, <2>5, <3>1, <3>2, <3>3
               DEF Differs, Agrees, Target, AtTip, After, Rolling, InSync, Remote, Same
  <2>6. CASE Advances(c)
    <3>1. UNCHANGED anchor
      BY Zenon, <2>6, Frame DEF Advances
    <3> QED BY <1>m, <1>n, <1>q, <2>l, <2>6, <3>1
               DEF Advances, Target, AtTip, Anchored, After, Rolling, InSync, Remote, Same
  <2>7. CASE GotNew(c)
    <3>1. UNCHANGED anchor
      BY <2>7, Frame DEF GotNew
    <3> QED BY <1>m, <1>n, <1>0, <1>q, <2>l, <2>7, <3>1
               DEF GotNew, Target, AtTip, After, Rolling, InSync, Remote
  <2>8. CASE GotReorg(c) \/ Rolled(c) \/ RolledEvents(c)
    <3>1. UNCHANGED anchor
      BY <2>8, Frame DEF GotReorg, Rolled, RolledEvents
    <3> QED BY <1>m, <1>n, <1>q, <2>8, <3>1
               DEF GotReorg, Rolled, RolledEvents, Target, AtTip, After, Rolling, InSync, Remote, Same
  <2>9. CASE Stored(c) /\ pc[c] = "storeNew"
    BY <1>m, <1>n, <1>q, <2>9 DEF Stored, Target, AtTip, After, Rolling, InSync, Remote, Same
  <2>10. CASE Stored(c) /\ pc[c] = "storeReorg"
    <3>1. ASSUME NEW h \in Nat, h <= Tip, Height0 <= h \/ h = Tip PROVE
            /\ GetBlockHeader(h).number <= Tip /\ GetBlockHeader(h) = HeaderAt(GetBlockHeader(h).number)
            /\ h = Tip => GetBlockHeader(h) = HeaderAt(Tip)
      BY <1>m, <1>f, <2>l, <3>1 DEF GetBlockHeader, HeaderAt, Genesis, Tip, TipKnown, Headers
    <3>2. quiet => /\ loc[c].tip = Tip /\ loc[c].target <= Tip /\ loc[c].hdr = GetBlockHeader(loc[c].target)
                   /\ loc[c].advance => Height0 <= loc[c].target
                   /\ ~loc[c].advance => loc[c].target = Tip
      BY <1>m, <2>l, <2>10 DEF Target, AtTip, Rolling, After
    <3> QED BY <1>m, <1>n, <1>q, <2>l, <2>10, <3>1, <3>2
               DEF Stored, Target, AtTip, After, Rolling, InSync, Remote, Same
  <2> QED BY Zenon, <1>m, <2>0, <2>1, <2>2, <2>3, <2>4, <2>5, <2>6, <2>7, <2>8, <2>9, <2>10
             DEF Move, Enter, Leave, First, Stored, Ended, FoundEvent, GotEffect, StoredEvent, After
<1>5. ASSUME NEW d \in Caller, d # c PROVE Target(d)' /\ (quiet' => AtTip(d)')
  BY Zenon, <1>5, <1>n, OthersKept DEF TipInv, Target, AtTip, Anchored, After, Rolling, InSync, Remote
<1> QED BY <1>3, <1>4, <1>5 DEF TipInv

LEMMA TipStep == ASSUME TipKnown, Typed, PlaceInv, TipInv, [Next]_vars PROVE TipInv'
<1>1. CASE NodeStep
  <2>1. \A h \in 1..Height0 : HeaderAt(h)' = HeaderAt(h)
    <3>1. Height0 \in Nat /\ proven \in Nat /\ Height0 <= proven
      BY SyncAssumption, LenProperties DEF TipInv, Headers, Typed, TypeOK
    <3>2. \A h \in 1..Height0 : h \in 1..proven
      BY <3>1
    <3>3. \A h \in 1..Height0 : chain'[h] = chain[h]
      BY <1>1, <3>2, NodeKeeps, Zenon
    <3> QED BY <3>3, Zenon DEF HeaderAt
  <2>2. \A hdr : Genuine(hdr) => Genuine(hdr)'
    BY <2>1 DEF Genuine
  <2>3. Headers'
    BY <1>1, <2>2, NodeKeeps, SyncAssumption DEF TipInv, Headers, Typed, TypeOK
  <2> QED BY Zenon, <1>1, <2>3, NodeKeeps DEF TipInv, Target
<1>2. CASE Restart
  <2>1. UNCHANGED <<chain, proven, anchor>> /\ \A c \in Caller : pc'[c] = "idle"
    BY <1>2 DEF Restart, disk, node
  <2> QED BY Zenon, <2>1 DEF TipInv, Headers, Genuine, HeaderAt, Target, AtTip, After, Fetched, Rolling
<1>3. CASE UNCHANGED vars
  BY Zenon, <1>3 DEF vars, TipInv, Headers, Genuine, HeaderAt, GetBlockHeader, Tip, Anchored, Target, AtTip
<1> QED BY <1>1, <1>2, <1>3, TipCaller DEF Next

(* A sync during which the chain did not change ends on the configured tip,   *)
(* on this fork, for any number of tasks and whatever came before, provided   *)
(* headers carry hashes (do_sync, handle_reorg).                              *)
THEOREM EndsOnTip == ASSUME TipKnown PROVE Spec => SyncEndsOnTip
<1>1. Init => Typed /\ PlaceInv /\ TipInv
  BY TypeInit, PlaceInit, TipInit
<1>2. Typed /\ PlaceInv /\ TipInv /\ [Next]_vars => (Typed /\ PlaceInv /\ TipInv)'
  BY TypeStep, PlaceStep, TipStep
<1>3. TipInv => [\A c \in Caller : Settles(c) => anchor = HeaderAt(Tip)]_vars
  BY Zenon DEF TipInv, AtTip, Settles, EndSync
<1> QED BY <1>1, <1>2, <1>3, PTL DEF Spec, SyncEndsOnTip

-----------------------------------------------------------------------------
(* On the proven tip, once a sync has succeeded, the anchor only moves up:    *)
(* there is nothing to roll back, and no event is ever lost or left behind.   *)
ProvenTip == TipKnown /\ SyncChainTip = "proven"

OnProven(hdr) == hdr.number <= proven /\ hdr.hash = HeaderAt(hdr.number).hash
Live == up \/ \E t \in Tx : events[t] # Absent

Steady(c) ==
    /\ pc[c] \in {"event", "storeEvent"} => up
    /\ pc[c] = "event" => loc[c].tip \in 1..anchor.number
    /\ pc[c] = "storeEvent" => loc[c].number \in 1..anchor.number /\ loc[c].id = chain[loc[c].number].id
    /\ pc[c] = "storeFirst" => loc[c].hdr.number > 0
    /\ pc[c] \in After => loc[c].tip \in 1..proven
    /\ pc[c] \in Rolling \ {"reorg"} => loc[c].hdr.number = loc[c].target /\ OnProven(loc[c].hdr)
    /\ pc[c] \in {"advance", "fetch", "storeNew"} => anchor.number <= loc[c].tip /\ OnProven(anchor)
    /\ pc[c] = "storeNew" => loc[c].hdr.number = loc[c].tip /\ OnProven(loc[c].hdr)
    /\ pc[c] = "done" /\ loc[c].ok => OnProven(anchor)
    /\ Live => pc[c] \notin Rolling \union {"first", "storeFirst"}
    /\ Live /\ pc[c] = "compare" => anchor.number <= loc[c].tip

ProvenInv ==
    /\ \A c \in Caller : Steady(c)
    /\ anchor # NoAnchor => anchor.number > 0
    /\ Live => anchor # NoAnchor /\ OnProven(anchor)
    /\ \A t \in Tx : events[t] # Absent =>
          events[t].number \in 1..anchor.number /\ events[t].id = chain[events[t].number].id

LEMMA ProvenInit == Init => ProvenInv
<1> SUFFICES ASSUME Init PROVE ProvenInv
  OBVIOUS
<1>1. ~up /\ anchor = NoAnchor /\ (\A t \in Tx : events[t] = Absent) /\ \A c \in Caller : pc[c] = "idle"
  BY DEF Init
<1> QED BY Zenon, <1>1 DEF ProvenInv, Steady, Live, After, Rolling

LEMMA ProvenCaller ==
  ASSUME ProvenTip, Typed, PlaceInv, TipInv, ProvenInv, NEW c \in Caller, CallerStep(c)
  PROVE  ProvenInv'
<1>m. Move(c) /\ Placed(c) /\ Target(c) /\ Steady(c)
  BY Moves DEF PlaceInv, TipInv, ProvenInv
<1>n. /\ UNCHANGED <<chain, proven>> /\ \A h : HeaderAt(h)' = HeaderAt(h)
      /\ \A hdr : OnProven(hdr)' <=> OnProven(hdr)
  BY Frame DEF node, HeaderAt, OnProven
<1>l. /\ loc[c].tip \in Nat /\ loc[c].target \in Nat /\ loc[c].number \in Nat /\ loc[c].hdr.number \in Nat
      /\ anchor.number \in Nat /\ Len(chain) \in Nat /\ Height0 \in Nat
      /\ proven \in Nat /\ proven <= Len(chain) /\ Height0 > 0 /\ Height0 <= proven
      /\ \A t \in Tx : events[t] # Absent => events[t].number \in Nat
  BY LocalTypes, SyncAssumption DEF ProvenTip, TipKnown, TipInv, Headers
<1>h. /\ \A h \in 1..proven : GetBlockHeader(h).number = h /\ OnProven(GetBlockHeader(h))
      /\ GetBlockHeader(0).number = Len(chain)
  BY <1>l DEF GetBlockHeader, HeaderAt, OnProven
<1>r. pc[c] \in Rolling => loc[c].target \in 1..proven /\ loc[c].target <= loc[c].tip
  BY <1>m, <1>l DEF Target, Steady, After, Rolling
<1>a. anchor' # anchor => Stored(c)
  BY Zenon, <1>m, Frame DEF Move, Enter, Leave, Failed, First, GotTip, Behind, Ahead, Differs, Agrees,
     Advances, GotNew, GotReorg, Rolled, RolledEvents, Ended, FoundEvent, GotEffect, StoredEvent, Remote
<1>u. up' # up => Ended(c)
  BY Zenon, <1>m, Frame DEF Move, Enter, Leave, Failed, First, GotTip, Behind, Ahead, Differs, Agrees, Stored,
     Advances, GotNew, GotReorg, Rolled, RolledEvents, FoundEvent, GotEffect, StoredEvent, Remote
<1>e. events' # events => RolledEvents(c) \/ StoredEvent(c)
  BY Zenon, <1>m, Frame DEF Move, Enter, Leave, Failed, First, GotTip, Behind, Ahead, Differs, Agrees, Stored,
     Advances, GotNew, GotReorg, Rolled, Ended, FoundEvent, GotEffect, Remote
<1>v. Live' => Live \/ (Ended(c) /\ loc[c].ok)
  BY Zenon, <1>m, <1>u, <1>e DEF Live, Ended, RolledEvents, StoredEvent, Steady
<1>w. Live => anchor.number <= anchor'.number /\ (anchor' # anchor => OnProven(anchor'))
  BY <1>m, <1>l, <1>a DEF Stored, Steady, Rolling
<1>1. (Live => anchor # NoAnchor /\ OnProven(anchor))'
  <2>1. CASE Live
    <3>1. anchor' # NoAnchor
      <4>1. NoAnchor \notin Header
        BY SyncAssumption DEF NoAnchor, Header
      <4> QED BY <1>m, <1>a, <2>1, <4>1 DEF ProvenInv, Stored, Placed
    <3> QED BY <1>n, <1>w, <2>1, <3>1 DEF ProvenInv
  <2>2. CASE Ended(c) /\ loc[c].ok
    BY Zenon, <1>m, <1>n, <1>a, <2>2 DEF Ended, Stored, Placed, Steady
  <2> QED BY <1>v, <2>1, <2>2
<1>2. (\A t \in Tx : events[t] # Absent =>
          events[t].number \in 1..anchor.number /\ events[t].id = chain[events[t].number].id)'
  <2>1. ASSUME NEW t \in Tx, events'[t] # Absent
        PROVE  /\ events'[t].number \in 1..anchor.number /\ events'[t].id = chain[events'[t].number].id
               /\ Live
    BY <1>m, <1>e, <2>1 DEF ProvenInv, RolledEvents, StoredEvent, Steady, Live
  <2>2. anchor'.number \in Nat
    BY Zenon, <1>l, <1>a DEF Stored
  <2> QED BY <1>n, <1>l, <1>w, <2>1, <2>2
<1>3. (anchor # NoAnchor => anchor.number > 0)'
  BY <1>m, <1>l, <1>a, <1>r DEF ProvenInv, Stored, Steady, After, Rolling
<1>4. Steady(c)'
  <2>1. CASE Leave(c) \/ Ended(c) \/ StoredEvent(c) \/ Failed(c)
    BY Zenon, <2>1 DEF Leave, Ended, StoredEvent, Failed, Remote, Steady, After, Rolling
  <2>2. ~Stored(c) => UNCHANGED anchor
    BY Zenon, <1>a
  <2>3. ~Ended(c) => (Live' => Live)
    BY Zenon, <1>v
  <2>4. CASE Enter(c)
    <3>1. UNCHANGED anchor /\ (Live' => Live)
      BY Zenon, <2>2, <2>3, <2>4 DEF Enter, Stored, Ended
    <3>2. (pc'[c] = "first" /\ ~Live) \/ pc'[c] = "tip"
      BY Zenon, <2>4 DEF Enter, ProvenInv
    <3> QED BY Zenon, <3>1, <3>2 DEF Steady, After, Rolling
  <2>5. CASE First(c)
    <3>1. ~Live'
      BY Zenon, <1>m, <2>3, <2>5 DEF First, Ended, Steady
    <3>2. loc'[c].hdr.number > 0
      BY <1>l, <1>h, <2>5 DEF First
    <3> QED BY Zenon, <2>5, <3>1, <3>2 DEF First, Steady, After, Rolling
  <2>6. CASE GotTip(c)
    <3>1. UNCHANGED anchor /\ (Live' => Live)
      BY Zenon, <2>2, <2>3, <2>6 DEF GotTip, Stored, Ended
    <3>2. loc'[c].tip = proven /\ (Live => anchor.number <= proven)
      BY Zenon, <2>6 DEF GotTip, ProvenTip, Tip, ProvenInv, OnProven
    <3>3. proven \in 1..proven
      BY <1>l
    <3> QED BY Zenon, <1>n, <2>6, <3>1, <3>2, <3>3 DEF GotTip, Steady, After, Rolling
  <2>7. CASE FoundEvent(c)
    <3>1. UNCHANGED <<anchor, up>> /\ anchor.number > 0
      BY Zenon, <1>m, <1>a, <1>u, <2>7 DEF FoundEvent, Stored, Ended, PlaceInv, Placed, ProvenInv
    <3>2. anchor.number \in 1..anchor.number
      BY <1>l, <3>1
    <3> QED BY Zenon, <2>7, <3>1, <3>2 DEF FoundEvent, Steady, After, Rolling
  <2>8. CASE GotEffect(c)
    <3>1. UNCHANGED <<anchor, up>>
      BY Zenon, <1>a, <1>u, <2>8 DEF GotEffect, Stored, Ended
    <3>2. BlockOf(loc[c].tx) \in 1..Len(chain)
      BY Zenon, <2>8, BlockOfType DEF GotEffect
    <3>3. up /\ loc[c].tip \in 1..anchor.number
      BY Zenon, <1>m, <2>8 DEF GotEffect, Steady
    <3>4. /\ loc'[c].number = BlockOf(loc[c].tx) /\ loc'[c].id = chain[loc'[c].number].id
          /\ loc[c].tip = 0 \/ loc'[c].number <= loc[c].tip
      BY Zenon, <2>8 DEF GotEffect
    <3>5. loc'[c].number \in 1..anchor.number
      BY <1>l, <3>2, <3>3, <3>4
    <3> QED BY Zenon, <1>n, <2>8, <3>1, <3>3, <3>4, <3>5 DEF GotEffect, Steady, After, Rolling
  <2>9. CASE Stored(c)
    <3>1. UNCHANGED Live
      BY <1>u, <1>e, <2>9 DEF Live, Stored, Ended, RolledEvents, StoredEvent
    <3> QED BY Zenon, <1>m, <1>n, <1>l, <1>r, <2>9, <3>1 DEF Stored, Same, Steady, After, Rolling
  <2>10. ~Stored(c) /\ ~Ended(c) /\ ~RolledEvents(c) /\ ~StoredEvent(c) => UNCHANGED <<anchor, Live>>
    BY <1>a, <1>u, <1>e DEF Live
  <2>11. CASE Behind(c)
    <3>1. UNCHANGED <<anchor, Live>> /\ ~Live
      <4>1. UNCHANGED <<anchor, Live>>
        BY Zenon, <2>10, <2>11 DEF Behind, Stored, Ended, RolledEvents, StoredEvent
      <4>2. Live => anchor.number <= loc[c].tip
        BY Zenon, <1>m, <2>11 DEF Behind, Steady
      <4> QED BY <1>l, <2>11, <4>1, <4>2 DEF Behind
    <3>2. loc'[c].tip \in 1..proven
      BY Zenon, <1>m, <2>11 DEF Behind, Steady, After
    <3> QED BY Zenon, <1>n, <2>11, <3>1, <3>2 DEF Behind, Steady, After, Rolling
  <2>12. CASE Ahead(c)
    <3>1. UNCHANGED <<anchor, Live>>
      BY Zenon, <2>10, <2>12 DEF Ahead, Stored, Ended, RolledEvents, StoredEvent
    <3>2. anchor.number > 0 /\ Genuine(anchor)
      BY Zenon, <1>m, <2>12 DEF Ahead, Placed, InSync, ProvenInv, TipInv, Headers
    <3>3. pc'[c] = "hash"
      BY <1>l, <2>12, <3>2 DEF Ahead, Genuine, NoHash
    <3> QED BY Zenon, <1>m, <1>n, <2>12, <3>1, <3>3 DEF Ahead, Same, Steady, After, Rolling
  <2>13. CASE Differs(c) \/ Agrees(c)
    <3>1. /\ UNCHANGED <<anchor, Live>> /\ anchor \in Header /\ Genuine(anchor) /\ anchor.number > 0
          /\ Known(anchor.number)
      BY Zenon, <1>m, <2>10, <2>13 DEF Differs, Agrees, Stored, Ended, RolledEvents, StoredEvent, Placed, InSync,
         ProvenInv, TipInv, Headers, Typed, TypeOK
    <3>2. Agrees(c) => OnProven(anchor)
      <4>1. Agrees(c) => anchor.number <= loc[c].tip /\ loc[c].tip <= proven
        BY <1>m DEF Agrees, Target, Steady, After
      <4> QED BY <1>l, <3>1, <4>1, SameHash DEF Agrees, ProvenTip, OnProven
    <3>3. Differs(c) => ~Live
      BY <1>l, <3>1 DEF Differs, ProvenInv, OnProven, GetBlockHeader
    <3> QED BY Zenon, <1>m, <1>n, <1>l, <2>13, <3>1, <3>2, <3>3
            DEF Differs, Agrees, Same, Target, Steady, After, Rolling
  <2>14. CASE Advances(c) \/ GotNew(c)
    BY Zenon, <1>m, <1>n, <1>l, <1>h, <2>10, <2>14
       DEF Advances, GotNew, Stored, Ended, RolledEvents, StoredEvent, Same, Steady, After, Rolling
  <2>15. CASE GotReorg(c) \/ Rolled(c)
    <3>1. UNCHANGED <<anchor, Live>> /\ ~Live /\ loc[c].tip \in 1..proven
      BY Zenon, <1>m, <2>10, <2>15 DEF GotReorg, Rolled, Stored, Ended, RolledEvents, StoredEvent, Steady, After, Rolling
    <3>2. /\ loc'[c].tip = loc[c].tip /\ pc'[c] \in {"rollNotes", "rollEvents"}
          /\ loc'[c].hdr.number = loc'[c].target /\ OnProven(loc'[c].hdr)
      BY Zenon, <1>m, <1>h, <1>r, <2>15 DEF GotReorg, Rolled, Same, Steady, Rolling
    <3> QED BY Zenon, <1>n, <3>1, <3>2 DEF Steady, After, Rolling
  <2>16. CASE RolledEvents(c)
    BY Zenon, <1>m, <1>n, <1>v, <2>16 DEF RolledEvents, Ended, Same, Steady, After, Rolling
  <2> QED BY Zenon, <1>m, <2>1, <2>4, <2>5, <2>6, <2>7, <2>8, <2>9, <2>11, <2>12, <2>13, <2>14, <2>15, <2>16 DEF Move
<1>5. ASSUME NEW d \in Caller, d # c PROVE Steady(d)'
  <2>1. Steady(d) /\ pc'[d] = pc[d] /\ loc'[d] = loc[d]
    BY Zenon, <1>5, OthersKept DEF ProvenInv
  <2>2. CASE pc[d] \in InSync
    <3>1. UNCHANGED anchor /\ (Live' => Live)
      BY <1>5, <1>v, <2>2, OthersKept DEF Ended, InSync
    <3>2. pc[d] \notin {"event", "storeEvent"}
      BY <2>2 DEF InSync, Remote
    <3> QED BY Zenon, <1>n, <2>1, <3>1, <3>2 DEF Steady
  <2>3. CASE pc[d] \in {"event", "storeEvent"}
    <3>1. up' /\ Live
      BY Zenon, <1>u, <2>1, <2>3 DEF Steady, Live, Ended
    <3>2. anchor'.number \in Nat /\ anchor.number <= anchor'.number
      BY <1>l, <1>a, <1>w, <3>1 DEF Stored
    <3>3. /\ pc[d] = "event" => loc[d].tip \in 1..anchor.number
          /\ pc[d] = "storeEvent" => loc[d].number \in 1..anchor.number /\ loc[d].id = chain[loc[d].number].id
      BY Zenon, <2>1 DEF Steady
    <3>4. \A n \in 1..anchor.number : n \in 1..anchor'.number
      BY <1>l, <3>2
    <3> QED BY Zenon, <1>n, <2>1, <2>3, <3>1, <3>3, <3>4 DEF Steady, After, Rolling
  <2>4. CASE pc[d] \notin InSync \union {"event", "storeEvent"}
    <3>1. pc[d] \notin After /\ pc[d] \notin Rolling /\ pc[d] \notin {"done", "first", "storeFirst"}
      BY <2>4 DEF After, Rolling, InSync, Remote
    <3> QED BY Zenon, <2>1, <2>4, <3>1 DEF Steady, After
  <2> QED BY Zenon, <2>2, <2>3, <2>4
<1> QED BY <1>1, <1>2, <1>3, <1>4, <1>5 DEF ProvenInv

LEMMA ProvenStep ==
  ASSUME ProvenTip, Typed, PlaceInv, TipInv, ProvenInv, [Next]_vars
  PROVE  ProvenInv'
<1>1. CASE NodeStep
  <2>1. proven \in Nat /\ anchor.number \in Nat
    BY SyncAssumption, LenProperties DEF Typed, TypeOK, Header, NoAnchor, BlockNumber
  <2>2. \A h \in 0..proven : HeaderAt(h)' = HeaderAt(h)
    BY <1>1, <2>1, NodeKeeps DEF HeaderAt
  <2>3. \A hdr : hdr.number \in Nat /\ OnProven(hdr) => OnProven(hdr)'
    BY <1>1, <2>1, <2>2, NodeKeeps DEF OnProven
  <2>4. UNCHANGED Live
    BY <1>1, NodeKeeps DEF Live
  <2>5. ASSUME NEW c \in Caller PROVE Steady(c)'
    <3>1. loc[c].hdr.number \in Nat /\ loc[c].number \in Nat /\ loc[c].tip \in Nat
      BY LocalTypes
    <3>2. Steady(c) /\ (pc[c] = "storeEvent" => anchor.number <= proven)
      BY Zenon DEF ProvenInv, Steady, Live, OnProven
    <3> QED BY <1>1, <2>1, <2>3, <2>4, <3>1, <3>2, NodeKeeps DEF Steady
  <2>6. ASSUME NEW t \in Tx, events[t] # Absent
        PROVE  events[t].number \in 1..anchor.number /\ events[t].id = chain'[events[t].number].id
    <3>1. anchor.number <= proven
      BY <2>6 DEF ProvenInv, Live, OnProven
    <3> QED BY <1>1, <2>1, <2>6, <3>1, NodeKeeps DEF ProvenInv
  <2> QED BY <1>1, <2>1, <2>3, <2>4, <2>5, <2>6, NodeKeeps DEF ProvenInv
<1>2. CASE Restart
  <2>1. /\ UNCHANGED <<chain, proven, anchor, events>> /\ (Live' => Live)
        /\ \A c \in Caller : pc'[c] = "idle"
    BY <1>2 DEF Restart, disk, node, Live
  <2> QED BY Zenon, <2>1 DEF ProvenInv, Steady, After, Rolling, OnProven, HeaderAt
<1>3. CASE UNCHANGED vars
  BY Zenon, <1>3 DEF vars, ProvenInv, Steady, Live, OnProven, HeaderAt
<1> QED BY Zenon, <1>1, <1>2, <1>3, ProvenCaller DEF Next

(* On the proven tip, with any number of tasks, reorgs of unproven blocks,    *)
(* failures and restarts: no stored event lies after the anchor or in a block *)
(* that is gone, and a sync during which the chain stood still ends on the    *)
(* tip (do_sync, validate_and_store_event).                                   *)
THEOREM SoundOnProvenTip == ASSUME ProvenTip PROVE Spec => SyncSound
<1> DEFINE Inv == Typed /\ PlaceInv /\ TipInv /\ ProvenInv
<1>0. TipKnown
  BY DEF ProvenTip
<1>1. Init => Inv
  BY TypeInit, PlaceInit, TipInit, ProvenInit
<1>2. Inv /\ [Next]_vars => Inv'
  BY <1>0, TypeStep, PlaceStep, TipStep, ProvenStep
<1>3. Inv => [/\ EventsUpToAnchor /\ EventsOnChain
              /\ \A c \in Caller : Settles(c) => anchor = HeaderAt(Tip)]_vars
  <2> SUFFICES ASSUME Inv PROVE /\ EventsUpToAnchor /\ EventsOnChain
                                /\ \A c \in Caller : Settles(c) => anchor = HeaderAt(Tip)
    OBVIOUS
  <2>1. anchor.number \in Nat /\ proven \in Nat /\ Len(chain) \in Nat /\ proven <= Len(chain)
    BY SyncAssumption, LenProperties DEF Typed, TypeOK, Header, NoAnchor, BlockNumber
  <2>2. EventsUpToAnchor
    BY <2>1 DEF EventsUpToAnchor, ProvenInv
  <2>3. EventsOnChain
    BY <2>1 DEF EventsOnChain, ProvenInv, Live, OnProven, Known, HeaderAt
  <2> QED BY Zenon, <2>2, <2>3 DEF TipInv, AtTip, Settles, EndSync
<1> QED BY <1>1, <1>2, <1>3, PTL DEF Spec, SyncSound

=============================================================================
