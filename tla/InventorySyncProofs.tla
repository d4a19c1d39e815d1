------------------------ MODULE InventorySyncProofs ------------------------
(***************************************************************************)
(* Proofs about InventorySync, for all positions, intervals, requests and  *)
(* faults: what the loop publishes about the sources is what they found.   *)
(***************************************************************************)
EXTENDS InventorySync, TLAPS

\* What a merge leaves of a list: the new record of the source, and old records
\* of other sources.
LEMMA MergedRecords ==
  ASSUME NEW existing \in Lists(Times), NEW found \in SUBSET Positions,
         NEW source \in Origins, NEW time \in Times
  PROVE  /\ Merged(existing, found, source, time) \in Lists(Times)
         /\ \A p \in DOMAIN Merged(existing, found, source, time) :
              \/ Merged(existing, found, source, time)[p] = [source |-> source, at |-> time]
              \/ /\ p \in DOMAIN existing /\ existing[p].source # source
                 /\ Merged(existing, found, source, time)[p] = existing[p]
<1> DEFINE new == [source |-> source, at |-> time]
           kept == {p \in DOMAIN existing : existing[p].source # source}
           shadowed == {p \in kept \intersect found : Priority(existing[p]) > Priority(new)}
           list == [p \in kept \union found |-> IF p \in found \ shadowed THEN new ELSE existing[p]]
<1>1. Merged(existing, found, source, time) = list
  BY DEF Merged
<1>2. PICK P \in SUBSET Positions : existing \in [P -> Records(Times)]
  BY DEF Lists
<1>3. kept \subseteq P /\ shadowed \subseteq kept /\ DOMAIN existing = P
  BY <1>2
<1>4. new \in Records(Times)
  BY DEF Records
<1> HIDE DEF new, kept, shadowed
<1>5. ASSUME NEW p \in kept \union found
      PROVE  list[p] = new \/ (p \in kept /\ list[p] = existing[p])
  BY <1>3
<1>6. \A p \in kept \union found : list[p] \in Records(Times)
  BY <1>2, <1>3, <1>4, <1>5
<1>7. list \in [kept \union found -> Records(Times)]
  BY <1>6
<1>8. kept \union found \in SUBSET Positions
  BY <1>2, <1>3
<1>9. list \in Lists(Times)
  BY <1>7, <1>8 DEF Lists
<1>10. \A p \in kept : p \in DOMAIN existing /\ existing[p].source # source
  BY DEF kept
<1>11. DOMAIN list = kept \union found
  OBVIOUS
<1> HIDE DEF list
<1> QED
  BY <1>1, <1>5, <1>9, <1>10, <1>11 DEF new

\* The records of a list have a source and a time.
LEMMA ListRecords ==
  ASSUME NEW list \in Lists(Times), NEW p \in DOMAIN list
  PROVE  list[p] \in Records(Times) /\ list[p].source \in Origins /\ list[p].at \in Times
BY DEF Lists, Records

\* Where stamps are.
LEMMA StampPlaces ==
  ASSUME NEW record
  PROVE  /\ record.source = "region" => StampOf(record, "chests") = "chests" /\ StampOf(record, "blocks") = "blocks"
         /\ record.source = "area" => \A region : StampOf(record, region) = "areas"
         /\ record.source = "block_export" => \A region : StampOf(record, region) = "exports"
BY DEF StampOf

\* Every record of the list is from the time its source's stamp shows.
Fits(list, at, region) ==
  \A p \in DOMAIN list : list[p].at = at[StampOf(list[p], region)]

\* The stamp that belongs to a source.
Belongs(source, region, stamp) ==
  \/ source = "region" /\ stamp = region
  \/ source = "area" /\ stamp = "areas"
  \/ source = "block_export" /\ stamp = "exports"

\* A merge of what a source reports keeps a list that fits.
LEMMA MergeFits ==
  ASSUME NEW list \in Lists(Times), NEW at \in [Stamps -> Times], NEW region \in {"chests", "blocks"},
         Fits(list, at, region), NEW found \in SUBSET Positions,
         NEW source \in Origins, NEW stamp \in Stamps, Belongs(source, region, stamp),
         NEW time \in Times
  PROVE  /\ Merged(list, found, source, time) \in Lists(Times)
         /\ Fits(Merged(list, found, source, time), [at EXCEPT ![stamp] = time], region)
         /\ \A p \in DOMAIN Merged(list, found, source, time) :
              LET record == Merged(list, found, source, time)[p]
              IN  record.source = source \/ (p \in DOMAIN list /\ record = list[p])
<1> DEFINE out == Merged(list, found, source, time)
           at2 == [at EXCEPT ![stamp] = time]
<1>1. /\ out \in Lists(Times)
      /\ \A p \in DOMAIN out :
           \/ out[p] = [source |-> source, at |-> time]
           \/ p \in DOMAIN list /\ list[p].source # source /\ out[p] = list[p]
  <2>1. out \in Lists(Times)
    BY MergedRecords
  <2>2. \A p \in DOMAIN out :
          \/ out[p] = [source |-> source, at |-> time]
          \/ p \in DOMAIN list /\ list[p].source # source /\ out[p] = list[p]
    BY MergedRecords
  <2> QED
    BY <2>1, <2>2
<1> HIDE DEF out
<1>2. at2[stamp] = time /\ \A other \in Stamps : other # stamp => at2[other] = at[other]
  OBVIOUS
<1>3. {"chests", "blocks", "areas", "exports"} \subseteq Stamps
  BY DEF Stamps, Sources
<1> HIDE DEF at2
<1>4. ASSUME NEW p \in DOMAIN out PROVE out[p].at = at2[StampOf(out[p], region)]
  <2>1. CASE out[p] = [source |-> source, at |-> time]
    <3>1. out[p].source = source /\ out[p].at = time
      BY <2>1
    <3>2. StampOf(out[p], region) = stamp
      BY <3>1 DEF StampOf, Belongs
    <3> QED
      BY <1>2, <3>1, <3>2
  <2>2. CASE p \in DOMAIN list /\ list[p].source # source /\ out[p] = list[p]
    <3>1. list[p].source \in Origins /\ list[p].at = at[StampOf(list[p], region)]
      BY <2>2, ListRecords DEF Fits
    <3>2. StampOf(list[p], region) # stamp /\ StampOf(list[p], region) \in Stamps
      BY <1>3, <2>2, <3>1 DEF StampOf, Belongs, Origins
    <3> QED
      BY <1>2, <2>2, <3>1, <3>2
  <2> QED
    BY <1>1, <2>1, <2>2
<1>5. ASSUME NEW p \in DOMAIN out
      PROVE  out[p].source = source \/ (p \in DOMAIN list /\ out[p] = list[p])
  BY <1>1
<1> QED
  BY <1>1, <1>4, <1>5 DEF Fits, out, at2

\* A list without records of a source still fits when the source's stamp changes.
LEMMA OtherFits ==
  ASSUME NEW list \in Lists(Times), NEW at \in [Stamps -> Times], NEW region \in {"chests", "blocks"},
         Fits(list, at, region), NEW stamp \in Stamps, NEW time,
         \A p \in DOMAIN list : ~Belongs(list[p].source, region, stamp)
  PROVE  Fits(list, [at EXCEPT ![stamp] = time], region)
<1>1. {"chests", "blocks", "areas", "exports"} \subseteq Stamps
  BY DEF Stamps, Sources
<1>2. ASSUME NEW p \in DOMAIN list
      PROVE  StampOf(list[p], region) # stamp /\ StampOf(list[p], region) \in Stamps
  BY <1>1, ListRecords DEF StampOf, Belongs, Origins
<1> QED
  BY <1>2 DEF Fits

-----------------------------------------------------------------------------
(* What the steps do to the runtime state and to the index *)

\* The clock and all times are naturals.
LEMMA Clocks ==
  /\ Times \subseteq Nat /\ 0 \in Times
  /\ "chests" \in Fetched /\ "chests" \in Sources /\ Fetched \subseteq Sources
  /\ Sources \subseteq Stages /\ Stages = DOMAIN Rank
BY InventoryAssumption DEF Times, Fetched, Sources, Stages, Rank

\* An attempt is noted for its source only.
LEMMA AttemptNoted ==
  ASSUME mem \in RuntimeStates, now \in Times, NEW s \in Fetched
  PROVE  /\ Attempted(s) \in RuntimeStates
         /\ Attempted(s).attempt = [mem.attempt EXCEPT ![s] = now]
BY DEF Attempted, RuntimeStates

\* A success is noted, and leaves the attempts alone.
LEMMA SuccessNoted ==
  ASSUME NEW state \in RuntimeStates, NEW s \in Sources, NEW time \in Times
  PROVE  /\ Succeeded(state, s, time) \in RuntimeStates
         /\ Succeeded(state, s, time).attempt = state.attempt
BY DEF Succeeded, RuntimeStates

\* The data of an index under construction fit, and no machine came from a
\* chest area.
Sound(data) ==
  /\ data \in Indexes /\ Ghostless(data)
  /\ \A p \in DOMAIN data.blocks : data.blocks[p].source # "area"

\* The stamps only grow, up to now.
Grows(old, new) == \A t \in Stamps : old.at[t] <= new.at[t] /\ new.at[t] <= now

LEMMA GhostlessFits ==
  ASSUME NEW data
  PROVE  Ghostless(data) <=> Fits(data.chests, data.at, "chests") /\ Fits(data.blocks, data.at, "blocks")
BY DEF Ghostless, Fits

\* What the invariant says of the parts of the index under construction.
LEMMA WorkParts ==
  ASSUME IInv
  PROVE  /\ work.at \in [Stamps -> Times] /\ work.chests \in Lists(Times) /\ work.blocks \in Lists(Times)
         /\ Fits(work.chests, work.at, "chests") /\ Fits(work.blocks, work.at, "blocks")
         /\ \A p \in DOMAIN work.blocks : work.blocks[p].source \in {"region", "block_export"}
         /\ now \in Times /\ now \in Nat /\ \A t \in Stamps : work.at[t] \in Nat /\ work.at[t] <= now
<1>1. work \in Indexes /\ now \in Times
  BY DEF IInv, InventoryTypeOK
<1>2. work.at \in [Stamps -> Times] /\ work.chests \in Lists(Times) /\ work.blocks \in Lists(Times)
  BY <1>1 DEF Indexes
<1>3. Fits(work.chests, work.at, "chests") /\ Fits(work.blocks, work.at, "blocks")
  BY GhostlessFits DEF IInv, RecordInv
<1>4. \A p \in DOMAIN work.blocks : work.blocks[p].source \in {"region", "block_export"}
  BY <1>2, ListRecords DEF IInv, RecordInv, Origins
<1>5. \A t \in Stamps : work.at[t] \in Nat /\ work.at[t] <= now
  BY <1>2, Clocks DEF IInv, WriteInv
<1> QED
  BY <1>1, <1>2, <1>3, <1>4, <1>5, Clocks

\* The parts of an index determine whether it is sound.
LEMMA SoundParts ==
  ASSUME NEW at \in [Stamps -> Times], NEW chests \in Lists(Times), NEW blocks \in Lists(Times),
         Fits(chests, at, "chests"), Fits(blocks, at, "blocks"),
         \A p \in DOMAIN blocks : blocks[p].source # "area",
         NEW data, data = [at |-> at, chests |-> chests, blocks |-> blocks]
  PROVE  Sound(data) /\ data.at = at
<1>1. data \in Indexes /\ data.at = at /\ data.chests = chests /\ data.blocks = blocks
  BY DEF Indexes
<1> QED
  BY <1>1, GhostlessFits DEF Sound

\* Setting one stamp to a time from its value up to now.
LEMMA StampGrows ==
  ASSUME IInv, NEW s \in Stamps, NEW time \in work.at[s]..now,
         NEW data, data.at = [work.at EXCEPT ![s] = time]
  PROVE  Grows(work, data) /\ time \in Times
<1>1. work.at \in [Stamps -> Times] /\ now \in Times /\ now \in Nat
      /\ \A t \in Stamps : work.at[t] \in Nat /\ work.at[t] <= now
  BY WorkParts
<1>2. time \in Nat /\ work.at[s] <= time /\ time <= now
  BY <1>1
<1>3. \A t \in Stamps : work.at[t] <= data.at[t] /\ data.at[t] <= now
  BY <1>1, <1>2
<1>4. time \in Times
  BY <1>1, <1>2, InventoryAssumption DEF Times
<1> QED
  BY <1>3, <1>4 DEF Grows

\* A stage of a scan keeps the invariant when the data stay sound, the stamps
\* grow and the attempt of the chests stays.
LEMMA StageKeeps ==
  ASSUME IInv, NEW s \in Stages \ {"chests", "index", "status", "save", "clear"}, Step(s),
         mem' \in RuntimeStates, mem'.attempt["chests"] = mem.attempt["chests"],
         Sound(work'), Grows(work, work')
  PROVE  IInv'
<1>1. /\ s \in todo /\ todo' = todo \ {s}
      /\ UNCHANGED <<now, started, asked, refused, disk, index, status, refresh, requests, behind,
                     lost, scanned>>
  BY DEF Step, Leave, At, fileVars, requestVars
<1>2. InventoryTypeOK'
  BY <1>1 DEF IInv, InventoryTypeOK, Sound
<1>3. RequestInv' /\ RequestsHeard'
  BY <1>1 DEF IInv, RequestInv, RequestsHeard
<1>4. WriteInv'
  <2>1. "index" \in todo
    BY <1>1 DEF IInv, WriteInv
  <2>2. "index" \in todo' /\ ~Idle
    BY <1>1, <2>1 DEF Idle
  <2>3. \A t \in Stamps : index'.at[t] <= now' /\ work'.at[t] <= now'
    BY <1>1 DEF IInv, WriteInv, Grows
  <2>4. \A t \in Stamps : index'.at[t] <= work'.at[t]
    <3>1. \A t \in Stamps : index.at[t] <= work.at[t] /\ work.at[t] <= work'.at[t]
      BY <2>2 DEF IInv, WriteInv, Grows
    <3>2. \A t \in Stamps : index.at[t] \in Nat /\ work.at[t] \in Nat /\ work'.at[t] \in Nat
      BY <1>2, Clocks DEF IInv, InventoryTypeOK, Indexes
    <3> QED
      BY <1>1, <3>1, <3>2
  <2> QED
    BY <2>2, <2>3, <2>4 DEF WriteInv
<1>5. AttemptInv'
  BY <1>1 DEF IInv, AttemptInv, Scope
<1>6. RecordInv'
  BY <1>1 DEF IInv, RecordInv, Sound
<1>7. StatusHonest'
  BY <1>1 DEF IInv, StatusHonest
<1> QED
  BY <1>2, <1>3, <1>4, <1>5, <1>6, <1>7 DEF IInv

\* The index under construction is sound as it is.
LEMMA WorkSound ==
  ASSUME IInv
  PROVE  Sound(work) /\ Grows(work, work) /\ mem \in RuntimeStates /\ now \in Times
         /\ work = [at |-> work.at, chests |-> work.chests, blocks |-> work.blocks]
<1>1. Sound(work) /\ mem \in RuntimeStates /\ now \in Times
  BY DEF IInv, InventoryTypeOK, RecordInv, Sound
<1>2. Grows(work, work)
  BY WorkParts DEF Grows
<1>3. work = [at |-> work.at, chests |-> work.chests, blocks |-> work.blocks]
  BY <1>1 DEF Sound, Indexes
<1> QED
  BY <1>1, <1>2, <1>3

-----------------------------------------------------------------------------
(* The scans *)

LEMMA PlainKeeps ==
  ASSUME IInv, NEW s, ScanPlain(s)
  PROVE  IInv'
<1>1. s \in {"players", "quests"} /\ Step(s)
  BY DEF ScanPlain
<1>2. s \in Stages \ {"chests", "index", "status", "save", "clear"} /\ s \in Sources
  BY <1>1 DEF Stages, Rank, Sources
<1>3. mem' \in RuntimeStates /\ mem'.attempt["chests"] = mem.attempt["chests"]
  <2>1. mem' = mem \/ mem' = Succeeded(mem, s, now)
    BY DEF ScanPlain
  <2> QED
    BY <1>2, <2>1, WorkSound, SuccessNoted
<1>4. Sound(work') /\ Grows(work, work')
  <2>1. CASE work' = work
    BY <2>1, WorkSound
  <2>2. CASE work' = [work EXCEPT !.at["players"] = now]
    <3> DEFINE at == [work.at EXCEPT !["players"] = now]
    <3>1. work' = [at |-> at, chests |-> work.chests, blocks |-> work.blocks]
      BY <2>2, WorkSound
    <3>2. "players" \in Stamps
      BY DEF Stamps, Sources
    <3>3. at \in [Stamps -> Times]
      BY WorkParts
    <3>4. Fits(work.chests, at, "chests")
      BY <3>2, WorkParts, OtherFits DEF Belongs
    <3>5. Fits(work.blocks, at, "blocks")
      BY <3>2, WorkParts, OtherFits DEF Belongs
    <3> HIDE DEF at
    <3>6. Sound(work') /\ work'.at = at
      BY <3>1, <3>3, <3>4, <3>5, SoundParts, WorkParts
    <3>7. now \in work.at["players"]..now
      BY <3>2, WorkParts
    <3> QED
      BY <3>2, <3>6, <3>7, StampGrows DEF at
  <2> QED
    BY <2>1, <2>2 DEF ScanPlain
<1> QED
  BY <1>1, <1>2, <1>3, <1>4, StageKeeps

LEMMA MEKeeps ==
  ASSUME IInv, ScanME
  PROVE  IInv'
<1>1. "me" \in Stages \ {"chests", "index", "status", "save", "clear"} /\ Step("me")
      /\ "me" \in Sources /\ "me" \in Fetched /\ "me" \in Stamps
  BY DEF ScanME, Stages, Rank, Sources, Fetched, Stamps
<1>2. CASE mem' = Attempted("me") /\ UNCHANGED work
  <2>1. mem' \in RuntimeStates /\ mem'.attempt = [mem.attempt EXCEPT !["me"] = now]
    BY <1>1, <1>2, AttemptNoted, WorkSound
  <2>2. mem'.attempt["chests"] = mem.attempt["chests"]
    BY <2>1, WorkSound DEF RuntimeStates
  <2> QED
    BY <1>1, <1>2, <2>1, <2>2, WorkSound, StageKeeps
<1>3. ASSUME NEW time \in work.at["me"]..now, mem' = Succeeded(Attempted("me"), "me", time),
             work' = [work EXCEPT !.at["me"] = time]
      PROVE  IInv'
  <2> DEFINE at == [work.at EXCEPT !["me"] = time]
  <2>1. work' = [at |-> at, chests |-> work.chests, blocks |-> work.blocks]
    BY <1>3, WorkSound
  <2>2. time \in Times
    <3>1. work'.at = at
      BY <2>1
    <3> QED
      BY <1>1, <3>1, StampGrows
  <2>3. at \in [Stamps -> Times]
    BY <2>2, WorkParts
  <2>4. Fits(work.chests, at, "chests")
    BY <1>1, WorkParts, OtherFits DEF Belongs
  <2>5. Fits(work.blocks, at, "blocks")
    BY <1>1, WorkParts, OtherFits DEF Belongs
  <2> HIDE DEF at
  <2>6. Sound(work') /\ work'.at = at
    BY <2>1, <2>3, <2>4, <2>5, SoundParts, WorkParts
  <2>7. Grows(work, work')
    BY <1>1, <2>6, StampGrows DEF at
  <2>8. mem' \in RuntimeStates /\ mem'.attempt = [mem.attempt EXCEPT !["me"] = now]
    BY <1>1, <1>3, <2>2, WorkSound, AttemptNoted, SuccessNoted
  <2> QED
    BY <1>1, <2>6, <2>7, <2>8, StageKeeps
<1> QED
  BY <1>2, <1>3 DEF ScanME

LEMMA BlocksKeep ==
  ASSUME IInv, ScanBlocks
  PROVE  IInv'
<1>1. "blocks" \in Stages \ {"chests", "index", "status", "save", "clear"} /\ Step("blocks")
      /\ "blocks" \in Sources /\ "blocks" \in Stamps
  BY DEF ScanBlocks, Stages, Rank, Sources, Stamps
<1>2. CASE UNCHANGED <<mem, work>>
  BY <1>1, <1>2, WorkSound, StageKeeps
<1>3. ASSUME NEW found \in SUBSET Positions, mem' = Succeeded(mem, "blocks", now),
             work' = [work EXCEPT !.at["blocks"] = now,
                        !.blocks = [p \in found |-> [source |-> "region", at |-> now]]]
      PROVE  IInv'
  <2> DEFINE at == [work.at EXCEPT !["blocks"] = now]
             list == [p \in found |-> [source |-> "region", at |-> now]]
  <2>1. work' = [at |-> at, chests |-> work.chests, blocks |-> list]
    BY <1>3, WorkSound
  <2>2. now \in Times /\ now \in work.at["blocks"]..now
    BY <1>1, WorkParts
  <2>3. at \in [Stamps -> Times]
    BY <2>2, WorkParts
  <2>4. Fits(work.chests, at, "chests")
    BY <1>1, WorkParts, OtherFits DEF Belongs
  <2>5. list \in Lists(Times)
    <3>1. [source |-> "region", at |-> now] \in Records(Times)
      BY <2>2 DEF Records, Origins
    <3>2. list \in [found -> Records(Times)]
      BY <3>1
    <3> QED
      BY <3>2 DEF Lists
  <2>6. at["blocks"] = now
    BY <1>1, WorkParts
  <2>7. \A p \in DOMAIN list : list[p].source = "region" /\ list[p].at = now
    OBVIOUS
  <2> HIDE DEF at, list
  <2>8. Fits(list, at, "blocks")
    BY <2>6, <2>7, StampPlaces DEF Fits
  <2>9. Sound(work') /\ work'.at = at
    <3>1. \A p \in DOMAIN list : list[p].source # "area"
      BY <2>7
    <3> QED
      BY <2>1, <2>3, <2>4, <2>5, <2>8, <3>1, SoundParts, WorkParts
  <2>10. Grows(work, work')
    BY <1>1, <2>2, <2>9, StampGrows DEF at
  <2>11. mem' \in RuntimeStates /\ mem'.attempt = mem.attempt
    BY <1>1, <1>3, <2>2, WorkSound, SuccessNoted
  <2> QED
    BY <1>1, <2>9, <2>10, <2>11, StageKeeps
<1> QED
  BY <1>2, <1>3 DEF ScanBlocks

\* A merge into a list of the index under construction.
LEMMA WorkMerge ==
  ASSUME IInv, NEW found \in SUBSET Positions, NEW source \in Origins, NEW stamp \in Stamps,
         NEW time \in Times
  PROVE  /\ Belongs(source, "chests", stamp) =>
              /\ Merged(work.chests, found, source, time) \in Lists(Times)
              /\ Fits(Merged(work.chests, found, source, time), [work.at EXCEPT ![stamp] = time], "chests")
         /\ Belongs(source, "blocks", stamp) =>
              /\ Merged(work.blocks, found, source, time) \in Lists(Times)
              /\ Fits(Merged(work.blocks, found, source, time), [work.at EXCEPT ![stamp] = time], "blocks")
              /\ source # "area" => \A p \in DOMAIN Merged(work.blocks, found, source, time) :
                   Merged(work.blocks, found, source, time)[p].source # "area"
<1>1. ASSUME Belongs(source, "chests", stamp)
      PROVE  /\ Merged(work.chests, found, source, time) \in Lists(Times)
             /\ Fits(Merged(work.chests, found, source, time), [work.at EXCEPT ![stamp] = time], "chests")
  BY <1>1, WorkParts, MergeFits
<1>2. ASSUME Belongs(source, "blocks", stamp)
      PROVE  /\ Merged(work.blocks, found, source, time) \in Lists(Times)
             /\ Fits(Merged(work.blocks, found, source, time), [work.at EXCEPT ![stamp] = time], "blocks")
  BY <1>2, WorkParts, MergeFits
<1>3. ASSUME source # "area", NEW p \in DOMAIN Merged(work.blocks, found, source, time)
      PROVE  Merged(work.blocks, found, source, time)[p].source # "area"
  <2> DEFINE out == Merged(work.blocks, found, source, time)
  <2>1. out[p] = [source |-> source, at |-> time] \/ (p \in DOMAIN work.blocks /\ out[p] = work.blocks[p])
    BY <1>3, WorkParts, MergedRecords
  <2> HIDE DEF out
  <2>2. out[p].source # "area"
    BY <1>3, <2>1, WorkParts
  <2> QED
    BY <2>2 DEF out
<1> QED
  BY <1>1, <1>2, <1>3

LEMMA ExportsKeep ==
  ASSUME IInv, ScanExports
  PROVE  IInv'
<1>1. "exports" \in Stages \ {"chests", "index", "status", "save", "clear"} /\ Step("exports")
      /\ "exports" \in Sources /\ "exports" \in Fetched /\ "exports" \in Stamps
  BY DEF ScanExports, Stages, Rank, Sources, Fetched, Stamps
<1>2. CASE mem' = Attempted("exports") /\ UNCHANGED work
  <2>1. mem' \in RuntimeStates /\ mem'.attempt = [mem.attempt EXCEPT !["exports"] = now]
    BY <1>1, <1>2, AttemptNoted, WorkSound
  <2>2. mem'.attempt["chests"] = mem.attempt["chests"]
    BY <2>1, WorkSound DEF RuntimeStates
  <2> QED
    BY <1>1, <1>2, <2>1, <2>2, WorkSound, StageKeeps
<1>3. ASSUME NEW time \in work.at["exports"]..now, NEW found \in SUBSET Positions,
             mem' = Succeeded(Attempted("exports"), "exports", time),
             work' = [at |-> [work.at EXCEPT !["exports"] = time],
                      chests |-> Merged(work.chests, found, "block_export", time),
                      blocks |-> Merged(work.blocks, found, "block_export", time)]
      PROVE  IInv'
  <2>1. "block_export" \in Origins /\ "block_export" # "area"
        /\ Belongs("block_export", "chests", "exports") /\ Belongs("block_export", "blocks", "exports")
    BY DEF Origins, Belongs
  <2> DEFINE at == [work.at EXCEPT !["exports"] = time]
             chests == Merged(work.chests, found, "block_export", time)
             blocks == Merged(work.blocks, found, "block_export", time)
  <2>2. Grows(work, work') /\ time \in Times
    <3>1. work'.at = at
      BY <1>3
    <3> QED
      BY <1>1, <3>1, StampGrows
  <2>3. at \in [Stamps -> Times]
    BY <2>2, WorkParts
  <2>4. /\ chests \in Lists(Times) /\ Fits(chests, at, "chests")
        /\ blocks \in Lists(Times) /\ Fits(blocks, at, "blocks")
        /\ \A p \in DOMAIN blocks : blocks[p].source # "area"
    BY <1>1, <2>1, <2>2, WorkMerge
  <2>5. work' = [at |-> at, chests |-> chests, blocks |-> blocks]
    BY <1>3
  <2> HIDE DEF at, chests, blocks
  <2>6. Sound(work')
    BY <2>3, <2>4, <2>5, SoundParts
  <2>7. mem' \in RuntimeStates /\ mem'.attempt = [mem.attempt EXCEPT !["exports"] = now]
    BY <1>1, <1>3, <2>2, WorkSound, AttemptNoted, SuccessNoted
  <2>8. mem'.attempt["chests"] = mem.attempt["chests"]
    BY <2>7, WorkSound DEF RuntimeStates
  <2> QED
    BY <1>1, <2>2, <2>6, <2>7, <2>8, StageKeeps
<1> QED
  BY <1>2, <1>3 DEF ScanExports

LEMMA AreasKeep ==
  ASSUME IInv, ScanAreas
  PROVE  IInv'
<1>1. "areas" \in Stages \ {"chests", "index", "status", "save", "clear"} /\ Step("areas")
      /\ "areas" \in Stamps /\ UNCHANGED mem
  BY DEF ScanAreas, Stages, Rank, Stamps
<1>2. CASE UNCHANGED work
  BY <1>1, <1>2, WorkSound, StageKeeps
<1>3. ASSUME NEW found \in SUBSET Positions,
             work' = [work EXCEPT !.at["areas"] = now,
                        !.chests = Merged(work.chests, found, "area", now)]
      PROVE  IInv'
  <2>1. "area" \in Origins /\ Belongs("area", "chests", "areas")
    BY DEF Origins, Belongs
  <2> DEFINE at == [work.at EXCEPT !["areas"] = now]
             chests == Merged(work.chests, found, "area", now)
  <2>2. work' = [at |-> at, chests |-> chests, blocks |-> work.blocks]
    BY <1>3, WorkSound
  <2>3. Grows(work, work') /\ now \in Times
    <3>1. work'.at = at /\ now \in work.at["areas"]..now
      BY <1>1, <2>2, WorkParts
    <3> QED
      BY <1>1, <3>1, StampGrows
  <2>4. at \in [Stamps -> Times]
    BY <2>3, WorkParts
  <2>5. chests \in Lists(Times) /\ Fits(chests, at, "chests")
    BY <1>1, <2>1, <2>3, WorkMerge
  <2>6. Fits(work.blocks, at, "blocks")
    BY <1>1, WorkParts, OtherFits DEF Belongs
  <2> HIDE DEF at, chests
  <2>7. Sound(work')
    BY <2>2, <2>4, <2>5, <2>6, SoundParts, WorkParts
  <2> QED
    BY <1>1, <2>3, <2>7, WorkSound, StageKeeps
<1> QED
  BY <1>2, <1>3 DEF ScanAreas

LEMMA RegionsKeep ==
  ASSUME IInv, ScanChests
  PROVE  IInv'
<1>1. "scanning" \in Stages \ {"chests", "index", "status", "save", "clear"} /\ Step("scanning")
      /\ "chests" \in Stamps /\ "chests" \in Sources
  BY DEF ScanChests, Stages, Rank, Stamps, Sources
<1>2. CASE UNCHANGED <<mem, work>>
  BY <1>1, <1>2, WorkSound, StageKeeps
<1>3. ASSUME NEW found \in SUBSET Positions, mem' = Succeeded(mem, "chests", now),
             work' = [work EXCEPT !.at["chests"] = now,
                        !.chests = Merged(work.chests, found, "region", now)]
      PROVE  IInv'
  <2>1. "region" \in Origins /\ Belongs("region", "chests", "chests")
    BY DEF Origins, Belongs
  <2> DEFINE at == [work.at EXCEPT !["chests"] = now]
             chests == Merged(work.chests, found, "region", now)
  <2>2. work' = [at |-> at, chests |-> chests, blocks |-> work.blocks]
    BY <1>3, WorkSound
  <2>3. Grows(work, work') /\ now \in Times
    <3>1. work'.at = at /\ now \in work.at["chests"]..now
      BY <1>1, <2>2, WorkParts
    <3> QED
      BY <1>1, <3>1, StampGrows
  <2>4. at \in [Stamps -> Times]
    BY <2>3, WorkParts
  <2>5. chests \in Lists(Times) /\ Fits(chests, at, "chests")
    BY <1>1, <2>1, <2>3, WorkMerge
  <2>6. Fits(work.blocks, at, "blocks")
    BY <1>1, WorkParts, OtherFits DEF Belongs
  <2> HIDE DEF at, chests
  <2>7. Sound(work')
    BY <2>2, <2>4, <2>5, <2>6, SoundParts, WorkParts
  <2>8. mem' \in RuntimeStates /\ mem'.attempt = mem.attempt
    BY <1>1, <1>3, <2>3, WorkSound, SuccessNoted
  <2> QED
    BY <1>1, <2>3, <2>7, <2>8, StageKeeps
<1> QED
  BY <1>2, <1>3 DEF ScanChests

-----------------------------------------------------------------------------
(* The begin and the end of a cycle, and the surroundings *)

\* Nothing is under construction between the cycles, and nothing at the start.
LEMMA EmptySound ==
  /\ Sound(EmptyIndex) /\ \A t \in Stamps : EmptyIndex.at[t] = 0
<1> DEFINE at == [s \in Stamps |-> 0]
<1>1. EmptyIndex = [at |-> at, chests |-> Empty, blocks |-> Empty]
  BY DEF EmptyIndex, NoStamps
<1>2. DOMAIN Empty = {} /\ Empty \in Lists(Times)
  <2>1. Empty = [p \in {} |-> p]
    BY DEF Empty
  <2>2. [p \in {} |-> p] \in [{} -> Records(Times)]
    OBVIOUS
  <2> QED
    BY <2>1, <2>2 DEF Lists
<1>3. at \in [Stamps -> Times]
  BY Clocks
<1>4. Fits(Empty, at, "chests") /\ Fits(Empty, at, "blocks")
  BY <1>2 DEF Fits
<1> HIDE DEF at
<1>5. Sound(EmptyIndex) /\ EmptyIndex.at = at
  BY <1>1, <1>2, <1>3, <1>4, SoundParts
<1> QED
  BY <1>5 DEF at

LEMMA InvInit == Init => IInv
<1> SUFFICES ASSUME Init PROVE IInv
  OBVIOUS
<1>1. now = 1 /\ now \in Times
  BY InventoryAssumption DEF Init, Times
<1>2. [scan |-> [s \in Sources |-> 0], attempt |-> [s \in Fetched |-> 0]] \in RuntimeStates
  BY Clocks DEF RuntimeStates
<1>3. NoStamps \in [Stamps -> Times] /\ \A t \in Stamps : NoStamps[t] = 0
  BY Clocks DEF NoStamps
<1>4. InventoryTypeOK
  <2>1. now \in Times /\ started \in Times /\ scanned \in Times /\ requests \in 0..MaxRequests
    BY <1>1, Clocks, InventoryAssumption DEF Init
  <2>2. todo \subseteq Stages /\ refused \in BOOLEAN /\ mem \in RuntimeStates /\ disk \in RuntimeStates
    BY <1>2 DEF Init
  <2>3. work \in Indexes /\ index \in Indexes
    BY EmptySound DEF Init, Sound
  <2>4. status \in [at : [Stamps -> Times], refused : BOOLEAN]
    BY <1>3 DEF Init
  <2> QED
    BY <2>1, <2>2, <2>3, <2>4 DEF InventoryTypeOK
<1>5. RequestInv /\ RequestsHeard
  BY DEF Init, RequestInv, RequestsHeard
<1>6. WriteInv
  BY <1>1, EmptySound DEF Init, WriteInv, Idle
<1>7. AttemptInv
  BY DEF Init, AttemptInv
<1>8. RecordInv
  BY EmptySound DEF Init, RecordInv, Sound
<1>9. StatusHonest
  BY <1>3, EmptySound DEF Init, StatusHonest
<1> QED
  BY <1>4, <1>5, <1>6, <1>7, <1>8, <1>9 DEF IInv

\* A request names sources.
LEMMA Scopes1 ==
  ASSUME NEW request \in {None} \union [number : Nat, scope : Scopes]
  PROVE  Scope(request) \subseteq Sources
<1>1. CASE request = None
  BY <1>1 DEF Scope
<1>2. CASE request # None
  <2>1. request.scope \in Scopes /\ request.scope \in Sources \union {"all"}
    BY <1>2, InventoryAssumption
  <2>2. CASE request.scope = "all"
    BY <1>2, <2>2 DEF Scope
  <2>3. CASE request.scope # "all"
    BY <1>2, <2>1, <2>3 DEF Scope
  <2> QED
    BY <2>2, <2>3
<1> QED
  BY <1>1, <1>2

LEMMA BeginKeeps ==
  ASSUME IInv, BeginCycle
  PROVE  IInv'
<1> DEFINE due == {s \in Sources : Due(s)} \union Scope(refresh)
<1>1. /\ todo = {} /\ todo' = Schedule(due) /\ asked' = refresh /\ started' = now
      /\ work' = index /\ refused' = FALSE
      /\ UNCHANGED <<now, mem, disk, index, status, refresh, requests, behind, lost, scanned>>
  BY DEF BeginCycle, Idle, fileVars, requestVars
<1>2. due \subseteq Sources
  BY Scopes1 DEF IInv, RequestInv
<1>3. todo' \subseteq Stages /\ "index" \in todo' /\ ("chests" \in todo' => "chests" \in due)
  <2>1. Sources \subseteq Stages /\ {"index", "status", "save", "clear", "areas", "scanning"} \subseteq Stages
    BY DEF Stages, Rank, Sources
  <2> HIDE DEF due
  <2> QED
    BY <1>1, <1>2, <2>1 DEF Schedule
<1>4. InventoryTypeOK'
  BY <1>1, <1>3 DEF IInv, InventoryTypeOK
<1>5. RequestInv' /\ RequestsHeard'
  BY <1>1 DEF IInv, RequestInv, RequestsHeard
<1>6. WriteInv'
  <2>1. \A t \in Stamps : index.at[t] <= now /\ index.at[t] \in Nat
    BY Clocks DEF IInv, InventoryTypeOK, Indexes, WriteInv
  <2> QED
    BY <1>1, <1>3, <2>1 DEF WriteInv
<1>7. AttemptInv'
  <2>1. ASSUME "chests" \in todo', scanned # 0
        PROVE  now - scanned >= Interval["chests"] \/ "chests" \in Scope(asked')
    <3>1. "chests" \in Scope(refresh) \/ Due("chests")
      BY <1>3, <2>1
    <3>2. CASE Due("chests")
      <4>1. mem.attempt["chests"] = scanned
        BY <2>1 DEF IInv, AttemptInv
      <4> QED
        BY <2>1, <3>2, <4>1, Clocks DEF Due, DueSince
    <3> QED
      BY <1>1, <3>1, <3>2
  <2>2. scanned # 0 => mem.attempt["chests"] = scanned /\ disk.attempt["chests"] = scanned
    BY DEF IInv, AttemptInv
  <2> QED
    BY <1>1, <2>1, <2>2 DEF AttemptInv
<1>8. RecordInv' /\ StatusHonest'
  BY <1>1 DEF IInv, RecordInv, StatusHonest
<1> QED
  BY <1>4, <1>5, <1>6, <1>7, <1>8 DEF IInv

\* The rest of a cycle after a stage of its own.
LEMMA Popped ==
  ASSUME InventoryTypeOK, NEW s \in Stages, Leave(s), "index" \in todo \/ todo \subseteq {"status", "save", "clear"}
  PROVE  /\ s \in todo /\ todo # {} /\ todo' \subseteq todo /\ todo' \subseteq Stages /\ s \notin todo'
         /\ "index" \in todo' \/ todo' \subseteq {"status", "save", "clear"}
         /\ s \in {"index", "status", "save", "clear"} => "index" \notin todo' /\ "chests" \notin todo'
         /\ s \in {"status", "save", "clear"} => "index" \notin todo
<1>1. s \in todo /\ todo' = todo \ {s} /\ \A other \in todo : Rank[s] <= Rank[other]
  BY DEF Leave, At
<1>2. todo \subseteq Stages
  BY DEF InventoryTypeOK
<1>3. \A other \in Stages : Rank[other] >= 9 => other \in {"index", "status", "save", "clear"}
  BY DEF Stages, Rank
<1>4. /\ \A other \in {"index", "status", "save", "clear"} : Rank[other] >= 9
      /\ \A other \in {"status", "save", "clear"} : Rank[other] > 9
      /\ Rank["index"] = 9 /\ \A other \in Stages : Rank[other] \in Nat
      /\ Rank["chests"] = 7
  BY DEF Rank, Stages
<1> HIDE DEF Rank, Stages
<1>5. s \in {"index", "status", "save", "clear"} => todo \subseteq {"index", "status", "save", "clear"}
  <2> SUFFICES ASSUME s \in {"index", "status", "save", "clear"}, NEW other \in todo
               PROVE  other \in {"index", "status", "save", "clear"}
    OBVIOUS
  <2>1. Rank[s] >= 9 /\ Rank[s] <= Rank[other] /\ Rank[s] \in Nat /\ Rank[other] \in Nat
    BY <1>1, <1>2, <1>4
  <2>2. Rank[other] >= 9
    BY <2>1
  <2> QED
    BY <1>2, <1>3, <2>2
<1>6. s \in {"status", "save", "clear"} => "index" \notin todo
  BY <1>1, <1>2, <1>4
<1>7. s = "index" => todo' \subseteq {"status", "save", "clear"}
  BY <1>1, <1>5
<1> QED
  BY <1>1, <1>2, <1>5, <1>6, <1>7

LEMMA BeginChestsKeeps ==
  ASSUME IInv, BeginChests
  PROVE  IInv'
<1>1. /\ Leave("chests") /\ mem' = Attempted("chests")
      /\ \/ disk' = mem' /\ scanned' = now
         \/ scanned' = 0 /\ UNCHANGED disk
      /\ UNCHANGED <<now, started, asked, work, refused, index, status, refresh, requests, behind, lost>>
  BY DEF BeginChests, requestVars
<1>2. InventoryTypeOK /\ ("index" \in todo \/ todo \subseteq {"status", "save", "clear"}) /\ "chests" \in Stages
  BY Clocks DEF IInv, WriteInv
<1>3. /\ "chests" \in todo /\ todo # {} /\ todo' \subseteq Stages /\ "chests" \notin todo'
      /\ "index" \in todo' \/ todo' \subseteq {"status", "save", "clear"}
  BY <1>1, <1>2, Popped
<1>4. mem' \in RuntimeStates /\ mem'.attempt["chests"] = now
  <2>1. mem \in RuntimeStates /\ now \in Times
    BY <1>2 DEF InventoryTypeOK
  <2>2. mem' \in RuntimeStates /\ mem'.attempt = [mem.attempt EXCEPT !["chests"] = now]
    BY <1>1, <2>1, AttemptNoted, Clocks
  <2>3. mem.attempt \in [Fetched -> Times]
    BY <2>1 DEF RuntimeStates
  <2> QED
    BY <2>2, <2>3, Clocks
<1>5. InventoryTypeOK'
  BY <1>1, <1>2, <1>3, <1>4, Clocks DEF InventoryTypeOK
<1>6. RequestInv' /\ RequestsHeard'
  BY <1>1 DEF IInv, RequestInv, RequestsHeard
<1>7. WriteInv'
  <2>1. "index" \in todo
    BY <1>2, <1>3
  <2>2. "index" \in todo'
    BY <1>1, <2>1 DEF Leave
  <2> QED
    BY <1>1, <1>3, <2>2 DEF IInv, WriteInv, Idle
<1>8. AttemptInv'
  BY <1>1, <1>3, <1>4 DEF AttemptInv
<1>9. RecordInv' /\ StatusHonest'
  BY <1>1 DEF IInv, RecordInv, StatusHonest
<1> QED
  BY <1>5, <1>6, <1>7, <1>8, <1>9 DEF IInv

LEMMA IndexKeeps ==
  ASSUME IInv, WriteIndex
  PROVE  IInv'
<1>1. /\ Leave("index") /\ "index" \in Stages
      /\ (index' = work /\ UNCHANGED refused) \/ (refused' = TRUE /\ UNCHANGED index)
      /\ UNCHANGED <<now, started, asked, mem, work, disk, status, refresh, requests, behind, lost, scanned>>
  BY DEF WriteIndex, requestVars, Stages, Rank
<1>2. InventoryTypeOK /\ ("index" \in todo \/ todo \subseteq {"status", "save", "clear"})
  BY DEF IInv, WriteInv
<1>3. /\ todo # {} /\ todo' \subseteq Stages /\ "index" \notin todo' /\ "chests" \notin todo'
      /\ todo' \subseteq {"status", "save", "clear"}
  BY <1>1, <1>2, Popped
<1>4. InventoryTypeOK'
  BY <1>1, <1>2, <1>3 DEF InventoryTypeOK
<1>5. RequestInv' /\ RequestsHeard'
  BY <1>1 DEF IInv, RequestInv, RequestsHeard
<1>6. \A t \in Stamps : /\ index.at[t] <= work.at[t] /\ index.at[t] \in Nat /\ work.at[t] \in Nat
                        /\ work.at[t] <= now /\ index.at[t] <= now
  BY <1>2, <1>3, Clocks DEF IInv, WriteInv, Idle, InventoryTypeOK, Indexes
<1>7. WriteInv'
  <2>1. \A t \in Stamps : index'.at[t] <= work'.at[t] /\ index'.at[t] <= now' /\ work'.at[t] <= now'
    BY <1>1, <1>6
  <2>2. refused' \/ index' = work'
    BY <1>1
  <2> QED
    BY <1>3, <2>1, <2>2 DEF WriteInv
<1>8. AttemptInv'
  BY <1>1, <1>3 DEF IInv, AttemptInv
<1>9. RecordInv'
  BY <1>1 DEF IInv, RecordInv
<1>10. StatusHonest'
  <2>1. ASSUME ~status.refused, NEW t \in Stamps PROVE status.at[t] <= index'.at[t]
    <3>1. status.at[t] <= index.at[t] /\ status.at[t] \in Nat
      BY <1>2, <2>1, Clocks DEF IInv, StatusHonest, InventoryTypeOK
    <3> QED
      BY <1>1, <1>6, <3>1
  <2> QED
    BY <1>1, <2>1 DEF StatusHonest
<1> QED
  BY <1>4, <1>5, <1>7, <1>8, <1>9, <1>10 DEF IInv

LEMMA StatusKeeps ==
  ASSUME IInv, WriteStatus
  PROVE  IInv'
<1>1. /\ Leave("status") /\ "status" \in Stages
      /\ status' = [at |-> work.at, refused |-> refused] \/ UNCHANGED status
      /\ UNCHANGED <<now, started, asked, mem, work, refused, disk, index, refresh, requests, behind,
                     lost, scanned>>
  BY DEF WriteStatus, requestVars, Stages, Rank
<1>2. InventoryTypeOK /\ ("index" \in todo \/ todo \subseteq {"status", "save", "clear"})
  BY DEF IInv, WriteInv
<1>3. /\ todo # {} /\ todo' \subseteq Stages /\ "index" \notin todo /\ "index" \notin todo'
      /\ "chests" \notin todo' /\ todo' \subseteq {"status", "save", "clear"}
  BY <1>1, <1>2, Popped
<1>4. refused \/ index = work
  BY <1>3 DEF IInv, WriteInv, Idle
<1>5. work.at \in [Stamps -> Times] /\ \A t \in Stamps : work.at[t] \in Nat
  BY WorkParts
<1>6. StatusHonest'
  <2>1. CASE UNCHANGED status
    BY <1>1, <2>1 DEF IInv, StatusHonest
  <2>2. CASE status' = [at |-> work.at, refused |-> refused]
    <3>1. status'.at = work.at /\ status'.refused = refused
      BY <2>2
    <3>2. \A t \in Stamps : work.at[t] <= work.at[t]
      BY <1>5
    <3> QED
      BY <1>1, <1>4, <3>1, <3>2 DEF StatusHonest
  <2> QED
    BY <1>1, <2>1, <2>2
<1>7. InventoryTypeOK'
  <2>1. refused \in BOOLEAN
    BY <1>2 DEF InventoryTypeOK
  <2> QED
    BY <1>1, <1>2, <1>3, <1>5, <2>1 DEF InventoryTypeOK
<1>8. RequestInv' /\ RequestsHeard'
  BY <1>1 DEF IInv, RequestInv, RequestsHeard
<1>9. WriteInv'
  BY <1>1, <1>3, <1>4 DEF IInv, WriteInv, Idle
<1>10. AttemptInv' /\ RecordInv'
  BY <1>1, <1>3 DEF IInv, AttemptInv, RecordInv
<1> QED
  BY <1>6, <1>7, <1>8, <1>9, <1>10 DEF IInv

LEMMA SaveKeeps ==
  ASSUME IInv, Save
  PROVE  IInv'
<1>1. /\ Leave("save") /\ "save" \in Stages
      /\ disk' = mem \/ UNCHANGED disk
      /\ UNCHANGED <<now, started, asked, mem, work, refused, index, status, refresh, requests, behind,
                     lost, scanned>>
  BY DEF Save, requestVars, Stages, Rank
<1>2. InventoryTypeOK /\ ("index" \in todo \/ todo \subseteq {"status", "save", "clear"})
  BY DEF IInv, WriteInv
<1>3. /\ todo # {} /\ todo' \subseteq Stages /\ "index" \notin todo /\ "index" \notin todo'
      /\ "chests" \notin todo' /\ todo' \subseteq {"status", "save", "clear"}
  BY <1>1, <1>2, Popped
<1>4. InventoryTypeOK'
  BY <1>1, <1>2, <1>3 DEF InventoryTypeOK
<1>5. RequestInv' /\ RequestsHeard' /\ RecordInv' /\ StatusHonest'
  BY <1>1 DEF IInv, RequestInv, RequestsHeard, RecordInv, StatusHonest
<1>6. WriteInv'
  BY <1>1, <1>3 DEF IInv, WriteInv, Idle
<1>7. AttemptInv'
  BY <1>1, <1>3 DEF IInv, AttemptInv
<1> QED
  BY <1>4, <1>5, <1>6, <1>7 DEF IInv

\* The cycle has ended or is dead: only the files are left.
LEMMA EndKeeps ==
  ASSUME IInv, todo' = {}, started' = 0, asked' = None, work' = EmptyIndex, refused' = FALSE,
         mem' \in {mem, disk}, refresh' \in {refresh, None}, lost' \subseteq behind,
         UNCHANGED <<now, disk, index, status, requests, behind, scanned>>
  PROVE  IInv'
<1>1. InventoryTypeOK'
  BY EmptySound, Clocks DEF IInv, InventoryTypeOK, Sound
<1>2. RequestInv' /\ RequestsHeard'
  BY DEF IInv, RequestInv, RequestsHeard
<1>3. WriteInv'
  <2>1. \A t \in Stamps : 0 <= now
    BY Clocks DEF IInv, InventoryTypeOK
  <2> QED
    BY <2>1, EmptySound DEF IInv, WriteInv, Idle
<1>4. AttemptInv' /\ StatusHonest'
  BY DEF IInv, AttemptInv, StatusHonest
<1>5. RecordInv'
  BY EmptySound DEF IInv, RecordInv, Sound
<1> QED
  BY <1>1, <1>2, <1>3, <1>4, <1>5 DEF IInv

LEMMA TickKeeps ==
  ASSUME IInv, Tick
  PROVE  IInv'
<1>1. /\ now < MaxTime /\ now' = now + 1 /\ (Idle \/ At("scanning"))
      /\ UNCHANGED <<todo, started, asked, work, refused, mem, disk, index, status, refresh, requests,
                     behind, lost, scanned>>
  BY DEF Tick, cycleVars, fileVars, requestVars
<1>2. InventoryTypeOK /\ now \in Nat
  BY Clocks DEF IInv, InventoryTypeOK
<1>3. "chests" \notin todo
  BY <1>1 DEF Idle, At, Rank
<1>4. now' \in Times
  BY <1>1, <1>2, InventoryAssumption DEF Times
<1>5. InventoryTypeOK'
  BY <1>1, <1>2, <1>4 DEF InventoryTypeOK
<1>6. RequestInv' /\ RequestsHeard' /\ RecordInv' /\ StatusHonest'
  BY <1>1 DEF IInv, RequestInv, RequestsHeard, RecordInv, StatusHonest
<1>7. WriteInv'
  <2>1. \A t \in Stamps : index.at[t] \in Nat /\ work.at[t] \in Nat
    BY <1>2, Clocks DEF InventoryTypeOK, Indexes
  <2>2. \A t \in Stamps : index.at[t] <= now /\ work.at[t] <= now
    BY DEF IInv, WriteInv
  <2>3. \A t \in Stamps : index'.at[t] <= now' /\ work'.at[t] <= now'
    BY <1>1, <1>2, <2>1, <2>2
  <2> QED
    BY <1>1, <2>3 DEF IInv, WriteInv, Idle
<1>8. AttemptInv'
  BY <1>1, <1>3 DEF IInv, AttemptInv
<1> QED
  BY <1>5, <1>6, <1>7, <1>8 DEF IInv

LEMMA RequestKeeps ==
  ASSUME IInv, NEW scope \in Scopes, Request(scope)
  PROVE  IInv'
<1>1. /\ requests < MaxRequests /\ requests' = requests + 1
      /\ refresh' = [number |-> requests', scope |-> scope]
      /\ behind' = IF asked # None THEN behind \union {requests'} ELSE behind
      /\ UNCHANGED <<now, todo, started, asked, work, refused, mem, disk, index, status, lost, scanned>>
  BY DEF Request, cycleVars, fileVars
<1>2. InventoryTypeOK /\ requests' \in 0..MaxRequests /\ requests' \in Nat
  BY <1>1, InventoryAssumption DEF IInv, InventoryTypeOK
<1>3. InventoryTypeOK'
  BY <1>1, <1>2 DEF InventoryTypeOK
<1>4. RequestInv' /\ RequestsHeard'
  <2>1. refresh' \in [number : Nat, scope : Scopes] /\ refresh'.number = requests'
    BY <1>1, <1>2
  <2>2. asked' # None => refresh'.number \in behind'
    BY <1>1, <2>1
  <2> QED
    BY <1>1, <2>1, <2>2 DEF IInv, RequestInv, RequestsHeard
<1>5. WriteInv' /\ AttemptInv' /\ RecordInv' /\ StatusHonest'
  BY <1>1 DEF IInv, WriteInv, Idle, AttemptInv, RecordInv, StatusHonest
<1> QED
  BY <1>3, <1>4, <1>5 DEF IInv

LEMMA ClearKeeps ==
  ASSUME IInv, Clear
  PROVE  IInv'
<1>1. /\ Leave("clear") /\ "clear" \in Stages
      /\ started' = 0 /\ asked' = None /\ work' = EmptyIndex /\ refused' = FALSE
      /\ UNCHANGED <<now, mem, disk, index, status, requests, behind, scanned>>
  BY DEF Clear, fileVars, Stages, Rank
<1>2. todo' = {}
  <2>1. /\ "clear" \in todo /\ todo' = todo \ {"clear"}
        /\ \A other \in todo : Rank["clear"] <= Rank[other]
    BY <1>1 DEF Leave, At
  <2>2. todo \subseteq Stages
    BY DEF IInv, InventoryTypeOK
  <2>3. \A other \in Stages : Rank["clear"] <= Rank[other] => other = "clear"
    BY DEF Rank, Stages
  <2> QED
    BY <2>1, <2>2, <2>3
<1>3. refresh' \in {refresh, None} /\ lost' \subseteq behind
  <2>1. lost \subseteq behind
    BY DEF IInv, RequestsHeard
  <2>2. CASE HasRefresh /\ refresh' = None
            /\ lost' = IF refresh \in {None, asked} THEN lost ELSE lost \union {refresh.number}
    <3>1. refresh \in {None, asked} \/ refresh.number \in behind
      BY <2>2 DEF IInv, RequestInv, HasRefresh
    <3> QED
      BY <2>1, <2>2, <3>1
  <2>3. CASE UNCHANGED <<refresh, lost>>
    BY <2>1, <2>3
  <2> QED
    BY <2>2, <2>3 DEF Clear
<1> QED
  BY <1>1, <1>2, <1>3, EndKeeps

LEMMA CrashKeeps ==
  ASSUME IInv, Crash
  PROVE  IInv'
<1>1. lost \subseteq behind
  BY DEF IInv, RequestsHeard
<1> QED
  BY <1>1, EndKeeps DEF Crash, fileVars, requestVars

(***************************************************************************)
(* Every stage, the clock, the tools and a crash keep the invariant.       *)
(***************************************************************************)
LEMMA InvStep == IInv /\ [Next]_vars => IInv'
<1> SUFFICES ASSUME IInv, [Next]_vars PROVE IInv'
  OBVIOUS
<1>1. CASE UNCHANGED vars
  <2>1. UNCHANGED <<now, todo, started, asked, work, refused, mem, disk, index, status, refresh,
                    requests, behind, lost, scanned>>
    BY <1>1 DEF vars, cycleVars, fileVars, requestVars
  <2>2. InventoryTypeOK' /\ RequestInv' /\ WriteInv' /\ AttemptInv'
    BY <2>1 DEF IInv, InventoryTypeOK, RequestInv, WriteInv, Idle, AttemptInv
  <2>3. RecordInv' /\ StatusHonest' /\ RequestsHeard'
    BY <2>1 DEF IInv, RecordInv, StatusHonest, RequestsHeard
  <2> QED
    BY <2>2, <2>3 DEF IInv
<1>2. CASE Cycle
  BY <1>2, BeginKeeps, PlainKeeps, MEKeeps, BlocksKeep, ExportsKeep, AreasKeep, BeginChestsKeeps,
     RegionsKeep, IndexKeeps, StatusKeeps, SaveKeeps, ClearKeeps DEF Cycle
<1>3. CASE Tick \/ Crash \/ \E scope \in Scopes : Request(scope)
  BY <1>3, TickKeeps, CrashKeeps, RequestKeeps
<1> QED
  BY <1>1, <1>2, <1>3 DEF Next

(***************************************************************************)
(* The invariant holds in every reachable state.                           *)
(***************************************************************************)
THEOREM InvariantHolds == Spec => []IInv
BY InvInit, InvStep, PTL DEF Spec

(***************************************************************************)
(* No record of the published index outlives the next scan of its source,  *)
(* whatever is merged, fails or crashes (mergeChestRecords,                *)
(* mergeBlockRecords and the cycle of main).                               *)
(***************************************************************************)
THEOREM RecordsAreCurrent == Spec => []NoGhosts
<1>1. IInv => NoGhosts
  BY DEF IInv, RecordInv, NoGhosts
<1> QED
  BY <1>1, InvariantHolds, PTL

(***************************************************************************)
(* The status names no newer scan than the index holds, unless it reports  *)
(* that the index could not be written (main, after the scans).            *)
(***************************************************************************)
THEOREM StatusIsHonest == Spec => []StatusHonest
<1>1. IInv => StatusHonest
  BY DEF IInv
<1> QED
  BY <1>1, InvariantHolds, PTL

(***************************************************************************)
(* Only a request written behind another one is removed unread             *)
(* (clearRefreshRequest).                                                  *)
(***************************************************************************)
THEOREM RequestsAreHeard == Spec => []RequestsHeard
<1>1. IInv => RequestsHeard
  BY DEF IInv
<1> QED
  BY <1>1, InvariantHolds, PTL

(***************************************************************************)
(* Scans of all regions begin an interval apart, over crashes too, unless  *)
(* one is asked for or the attempt could not be saved (fetchDue and the    *)
(* save before scanChests).                                                *)
(***************************************************************************)
THEOREM ChestScansApart == Spec => ChestScansSpaced
<1>1. IInv /\ [Next]_vars =>
        [At("chests") /\ At("scanning")' =>
           scanned = 0 \/ now - scanned >= Interval["chests"] \/ "chests" \in Scope(asked)]_vars
  BY DEF IInv, AttemptInv, At
<1> QED
  BY <1>1, InvariantHolds, PTL DEF Spec, ChestScansSpaced
=============================================================================
