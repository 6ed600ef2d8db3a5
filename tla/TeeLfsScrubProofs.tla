-------------------------- MODULE TeeLfsScrubProofs --------------------------
(***************************************************************************)
(* Theorems about TeeLfsScrub, for every number of blocks, units and       *)
(* objects.                                                                *)
(***************************************************************************)
EXTENDS TeeLfsScrub, TLAPS

LEMMA Bounds == /\ Root \in Block
                /\ 0 \in Unit
                /\ Block \subseteq Nat
                /\ Unit \subseteq Nat
  BY BlocksAssumption, UnitsAssumption DEF Block, Unit, Root

LEMMA UsedAreBlocks ==
  TypeOK => DataBlocks \subseteq Block /\ Live \subseteq Block /\ Held \subseteq Block /\ Used \subseteq Block
<1> SUFFICES ASSUME TypeOK
             PROVE  DataBlocks \subseteq Block /\ Live \subseteq Block /\ Held \subseteq Block /\ Used \subseteq Block
  OBVIOUS
<1>1. DataBlocks \subseteq Block
  <2>1. \A f \in File : owned[f] # Absent => owned[f] \subseteq Block
    BY DEF TypeOK
  <2> QED
    BY <2>1 DEF DataBlocks
<1>2. Held \subseteq Block
  <2>1. \A f \in File : held[f] # Absent => held[f] \subseteq Block
    BY DEF TypeOK
  <2> QED
    BY <2>1 DEF Held
<1> QED
  BY <1>1, <1>2, Bounds DEF Live, Used, TypeOK

LEMMA AbsentIsNoSet == ASSUME NEW S \in SUBSET Block PROVE S # Absent
  BY AbsentAssumption DEF Block

\* Changing one unit leaves every other unit alone.
LEMMA SetUnitEffect ==
  ASSUME TypeOK, NEW b \in Block, NEW u \in Unit, NEW v \in Content, SetUnit(b, u, v)
  PROVE  /\ flash' \in [Block -> [Unit -> Content]]
         /\ flash'[b][u] = v
         /\ \A c \in Block \ {b} : flash'[c] = flash[c]
         /\ \A w \in Unit \ {u} : flash'[b][w] = flash[b][w]
  BY DEF TypeOK, SetUnit

\* A block that is not touched stays whole.
LEMMA SetUnitWhole ==
  ASSUME TypeOK, NEW b \in Block, NEW u \in Unit, NEW v \in Content, SetUnit(b, u, v),
         NEW c \in Block, c # b, Whole(c)
  PROVE  Whole(c)'
<1>1. flash'[c] = flash[c]
  BY SetUnitEffect
<1> QED
  BY <1>1 DEF Whole

-----------------------------------------------------------------------------
\* When only the lists of the handles change, and by blocks that no committed
\* object and no other handle has, every block still has one owner.
LEMMA ExclusiveHeld ==
  ASSUME IndInv, NEW f \in File, NEW S \in SUBSET Block,
         held' = [held EXCEPT ![f] = S], owned' = owned, fresh' = {},
         S \subseteq fresh \cup (IF owned[f] = Absent THEN {} ELSE owned[f])
                       \cup (IF held[f] = Absent THEN {} ELSE held[f])
  PROVE  Exclusive' /\ held' \in [File -> {Absent} \cup SUBSET Block]
<1> USE DEF IndInv
<1>1. held'[f] = S /\ \A g \in File \ {f} : held'[g] = held[g]
  BY DEF TypeOK
<1>2. \A g \in File : /\ owned[g] # Absent => fresh \cap owned[g] = {}
                      /\ held[g] # Absent => fresh \cap held[g] = {}
  BY DEF Exclusive, Live, DataBlocks, Held
<1>3. Root \notin S
  BY DEF Exclusive, Live
<1>4. \A g \in File \ {f} : /\ owned[g] # Absent => S \cap owned[g] = {}
                            /\ held[g] # Absent => S \cap held[g] = {}
  BY <1>2 DEF Exclusive
<1>5. \A g \in File : held'[g] # Absent => Root \notin held'[g]
  BY <1>1, <1>3 DEF Exclusive
<1>6. \A g, h \in File : held'[g] # Absent /\ g # h =>
        /\ owned[h] # Absent => held'[g] \cap owned[h] = {}
        /\ held'[h] # Absent => held'[g] \cap held'[h] = {}
  <2> SUFFICES ASSUME NEW g \in File, NEW h \in File, held'[g] # Absent, g # h
               PROVE  /\ owned[h] # Absent => held'[g] \cap owned[h] = {}
                      /\ held'[h] # Absent => held'[g] \cap held'[h] = {}
    OBVIOUS
  <2>1. CASE g = f
    BY <1>1, <1>4, <2>1
  <2>2. CASE g # f /\ h = f
    BY <1>1, <1>4, <2>2 DEF Exclusive
  <2>3. CASE g # f /\ h # f
    BY <1>1, <2>3 DEF Exclusive
  <2> QED
    BY <2>1, <2>2, <2>3
<1>7. held' \in [File -> {Absent} \cup SUBSET Block]
  BY DEF TypeOK
<1> QED
  BY <1>5, <1>6, <1>7 DEF Exclusive

LEMMA InitInv == Init => IndInv
<1> SUFFICES ASSUME Init PROVE IndInv
  OBVIOUS
<1> USE DEF Init
<1>1. TypeOK
  BY Bounds, BlocksAssumption DEF TypeOK, Content
<1>2. DataBlocks = {} /\ Live = {Root} /\ Held = {}
  BY DEF DataBlocks, Live, Held
<1>3. Exclusive
  BY <1>2 DEF Exclusive
<1>4. UpdateInv
  BY DEF UpdateInv, UpdatePC, PortPC
<1>5. RemoveInv
  BY DEF RemoveInv, PortPC
<1>6. DamageIsUnseen
  BY <1>2, Bounds DEF DamageIsUnseen, Whole
<1> QED
  BY <1>1, <1>3, <1>4, <1>5, <1>6 DEF IndInv

LEMMA StutterInv == IndInv /\ UNCHANGED vars => IndInv'
  BY DEF IndInv, TypeOK, Exclusive, UpdateInv, RemoveInv, DamageIsUnseen, Whole, Live,
         Used, Held, DataBlocks, vars, UpdatePC, PortPC

\* Every way back to "idle" that leaves the flash's live blocks alone.
LEMMA ReturnInv ==
  ASSUME IndInv, Return, UNCHANGED <<owned, lost>>,
         flash' \in [Block -> [Unit -> Content]],
         \A b \in Live \ lost : flash'[b] = flash[b],
         held' \in [File -> {Absent} \cup SUBSET Block], detached' \in SUBSET File, Exclusive'
  PROVE  IndInv'
<1> USE DEF IndInv, Return
<1>1. TypeOK'
  BY Bounds, BlocksAssumption DEF TypeOK
<1>2. Live' = Live
  BY DEF Live, DataBlocks
<1>3. UpdateInv'
  BY DEF UpdateInv, UpdatePC, PortPC
<1>4. RemoveInv'
  BY DEF RemoveInv, PortPC
<1>5. DamageIsUnseen'
  BY <1>2 DEF DamageIsUnseen, Whole
<1> QED
  BY <1>1, <1>3, <1>4, <1>5

-----------------------------------------------------------------------------
(* Handles *)

LEMMA HandlesInv ==
  ASSUME IndInv, NEW f \in File, Close(f) \/ Rename(f) \/ Create(f) \/ Drop(f)
  PROVE  IndInv'
<1> USE DEF IndInv, call
<1>1. /\ pc = "idle" /\ fresh = {} /\ UNCHANGED <<flash, pc, call, lost>>
      /\ \/ /\ held' = [held EXCEPT ![f] = Absent] /\ UNCHANGED owned
            /\ detached' = detached \ {f}
         \/ /\ UNCHANGED <<held, owned>> /\ detached' = detached \cup {f}
         \/ /\ owned' = [owned EXCEPT ![f] = {}]
            /\ UNCHANGED <<held, detached>>
         \/ /\ owned' = [owned EXCEPT ![f] = Absent]
            /\ UNCHANGED <<held, detached>>
  BY DEF Close, Rename, Create, Drop, UpdateInv, UpdatePC
<1>2. TypeOK'
  BY <1>1 DEF TypeOK
<1>3. /\ \A g \in File : owned'[g] # Absent => owned'[g] = {} \/ (owned[g] # Absent /\ owned'[g] = owned[g])
      /\ \A g \in File : held'[g] # Absent => held[g] # Absent /\ held'[g] = held[g]
  BY <1>1 DEF TypeOK
<1>4. Live' \subseteq Live /\ Held' \subseteq Held
  BY <1>3 DEF Live, DataBlocks, Held
<1>5. Exclusive'
  BY <1>1, <1>3 DEF Exclusive
<1>6. UpdateInv'
  BY <1>1 DEF UpdateInv, UpdatePC, PortPC
<1>7. RemoveInv'
  BY <1>1 DEF RemoveInv, PortPC
<1>8. DamageIsUnseen'
  BY <1>1, <1>4 DEF DamageIsUnseen, Whole
<1> QED
  BY <1>2, <1>5, <1>6, <1>7, <1>8

-----------------------------------------------------------------------------
(* Updates *)

LEMMA UpdateBeginInv ==
  ASSUME IndInv, NEW f \in File, NEW k \in SUBSET Block, NEW n \in 0..MaxFresh,
         UpdateBegin(f, k, n)
  PROVE  IndInv'
<1> USE DEF IndInv, UpdateBegin
<1>1. TypeOK'
  BY MaxFreshAssumption DEF TypeOK
<1>2. Live' = Live /\ Held' = Held /\ fresh = {} /\ fresh' = {}
  BY DEF Live, DataBlocks, Held, UpdateInv, UpdatePC
<1>3. Exclusive'
  BY <1>2 DEF Exclusive
<1>4. UpdateInv'
  <2>1. n = 0 \/ n > 0
    BY MaxFreshAssumption
  <2>2. \A b \in owned[f] \ lost : Whole(b)
    BY DEF DamageIsUnseen, Live, DataBlocks
  <2>3. k \subseteq owned[f] \cup (IF held[f] = Absent THEN {} ELSE held[f])
    BY DEF Kept
  <2>4. \A b \in k \ lost : Whole(b)
    BY <2>2 DEF Kept
  <2>5. \A b \in k \ lost : Whole(b)'
    BY <2>4 DEF Whole
  <2> QED
    BY <1>2, <2>1, <2>3, <2>5 DEF UpdateInv, UpdatePC, PortPC
<1>5. RemoveInv'
  BY DEF RemoveInv, PortPC
<1>6. DamageIsUnseen'
  BY <1>2 DEF DamageIsUnseen, Whole
<1> QED
  BY <1>1, <1>3, <1>4, <1>5, <1>6

LEMMA AllocInv ==
  ASSUME IndInv, NEW b \in Block, Alloc(b)
  PROVE  IndInv'
<1> USE DEF IndInv, Alloc
<1>1. TypeOK'
  BY Bounds, BlocksAssumption DEF TypeOK, UpdateInv, Block
<1>2. Live' = Live /\ Held' = Held /\ b \notin Live /\ b \notin Held
  BY DEF Live, DataBlocks, Held, Used
<1>3. Exclusive'
  BY <1>2 DEF Exclusive
<1>4. UpdateInv'
  <2>1. \A c \in fresh : Whole(c)
    BY DEF UpdateInv, PortPC
  <2>2. \A c \in fresh' : Whole(c)' \/ (pc' \in PortPC /\ c = blk')
    BY <2>1 DEF Whole, PortPC
  <2>3. file \in File /\ keep \subseteq Live \cup Held
    BY DEF UpdateInv, UpdatePC, Live, DataBlocks, Held
  <2>4. \A c \in keep' \ lost' : Whole(c)'
    BY <1>2, <2>3 DEF UpdateInv, UpdatePC, Whole
  <2> QED
    BY <2>2, <2>4 DEF UpdateInv, UpdatePC, PortPC
<1>5. RemoveInv'
  BY DEF RemoveInv, PortPC
<1>6. DamageIsUnseen'
  BY <1>2 DEF DamageIsUnseen, Whole
<1> QED
  BY <1>1, <1>3, <1>4, <1>5, <1>6

\* An update that fails leaves its blocks to the handle.
LEMMA UpdateFailsInv ==
  ASSUME IndInv, pc \in UpdatePC, NEW linked \in SUBSET fresh, UpdateFails(linked),
         flash' \in [Block -> [Unit -> Content]],
         \A b \in Live \ lost : flash'[b] = flash[b]
  PROVE  IndInv'
<1>1. Return /\ UNCHANGED <<owned, detached, lost>> /\ fresh' = {}
  BY DEF UpdateFails, Return
<1>2. Exclusive' /\ held' \in [File -> {Absent} \cup SUBSET Block]
  <2>1. CASE UNCHANGED held
    BY <1>1, <2>1 DEF IndInv, TypeOK, Exclusive
  <2>2. CASE linked # {}
    <3> DEFINE S == keep \cup linked \cup (IF held[file] = Absent THEN {} ELSE held[file])
    <3>1. held' = [held EXCEPT ![file] = S]
      BY <2>2 DEF UpdateFails
    <3>2. file \in File /\ S \in SUBSET Block
      BY DEF IndInv, TypeOK, UpdateInv
    <3>3. S \subseteq fresh \cup (IF owned[file] = Absent THEN {} ELSE owned[file])
                       \cup (IF held[file] = Absent THEN {} ELSE held[file])
      BY DEF IndInv, UpdateInv
    <3> HIDE DEF S
    <3> QED
      BY <1>1, <3>1, <3>2, <3>3, ExclusiveHeld
  <2> QED
    BY <2>1, <2>2 DEF UpdateFails
<1> QED
  BY <1>1, <1>2, ReturnInv DEF IndInv, TypeOK

\* Every step of the port works on a fresh block.
LEMMA PortBlock ==
  ASSUME IndInv, pc \in PortPC
  PROVE  blk \in Block /\ off \in Unit /\ blk \notin Live /\ blk \in fresh
  BY DEF IndInv, TypeOK, UpdateInv, Exclusive

\* The blocks an update keeps are none of the port's.
LEMMA KeepIsSafe ==
  ASSUME IndInv, pc \in UpdatePC
  PROVE  keep \subseteq Block /\ keep \cap fresh = {} /\ file \in File
<1>1. keep \subseteq Live \cup Held
  BY DEF IndInv, UpdateInv, Live, DataBlocks, Held
<1> QED
  BY <1>1 DEF IndInv, TypeOK, UpdateInv, Exclusive

LEMMA KeptStayWhole ==
  ASSUME IndInv, pc \in PortPC, UNCHANGED <<keep, lost>>,
         \A c \in Block \ {blk} : flash'[c] = flash[c]
  PROVE  \A c \in keep' \ lost' : Whole(c)'
<1>1. keep \subseteq Block /\ blk \notin keep
  BY PortBlock, KeepIsSafe DEF PortPC, UpdatePC
<1>2. \A c \in keep \ lost : Whole(c)
  BY DEF IndInv, UpdateInv, PortPC, UpdatePC
<1> QED
  BY <1>1, <1>2 DEF Whole

LEMMA ZeroizeUnitInv ==
  ASSUME IndInv, ZeroizeUnit
  PROVE  IndInv'
<1> USE DEF IndInv, ZeroizeUnit
<1>1. pc \in PortPC /\ blk \in Block /\ off \in Unit /\ blk \notin Live /\ blk \in fresh
  BY PortBlock DEF PortPC
<1>2. /\ flash' \in [Block -> [Unit -> Content]]
      /\ \A c \in Block \ {blk} : flash'[c] = flash[c]
  BY <1>1, SetUnitEffect DEF Content
<1>3. off' \in Unit /\ pc' \in {"zeroize", "erase"} /\ (pc' = "erase" => off' = 0)
  BY <1>1, UnitsAssumption DEF Unit
<1>4. TypeOK'
  BY <1>2, <1>3 DEF TypeOK
<1>5. Live' = Live /\ Held' = Held
  BY DEF Live, DataBlocks, Held
<1>6. Exclusive'
  BY <1>5 DEF Exclusive
<1>7. UpdateInv'
  <2>1. \A c \in fresh' : Whole(c)' \/ c = blk'
    BY <1>2 DEF Whole, UpdateInv, TypeOK
  <2>2. \A c \in keep' \ lost' : Whole(c)'
    BY <1>1, <1>2, KeptStayWhole
  <2> QED
    BY <1>1, <1>3, <2>1, <2>2 DEF UpdateInv, UpdatePC, PortPC
<1>8. RemoveInv'
  BY <1>3 DEF RemoveInv, PortPC
<1>9. DamageIsUnseen'
  BY <1>1, <1>2, <1>5, UsedAreBlocks DEF DamageIsUnseen, Whole
<1> QED
  BY <1>4, <1>6, <1>7, <1>8, <1>9

LEMMA EraseBlockInv ==
  ASSUME IndInv, EraseBlock
  PROVE  IndInv'
<1> USE DEF IndInv, EraseBlock
<1>1. pc \in PortPC /\ blk \in Block /\ off \in Unit /\ blk \notin Live /\ blk \in fresh
  BY PortBlock DEF PortPC
<1>2. /\ flash' \in [Block -> [Unit -> Content]]
      /\ \A c \in Block \ {blk} : flash'[c] = flash[c]
      /\ \A u \in Unit : flash'[blk][u] = "erased"
  BY <1>1 DEF TypeOK, Content
<1>3. off' = 0
  BY DEF UpdateInv
<1>4. TypeOK'
  BY <1>2 DEF TypeOK
<1>5. Live' = Live /\ Held' = Held
  BY DEF Live, DataBlocks, Held
<1>6. Exclusive'
  BY <1>5 DEF Exclusive
<1>7. UpdateInv'
  <2>1. \A c \in fresh' : Whole(c)' \/ c = blk'
    BY <1>2 DEF Whole, UpdateInv, TypeOK
  <2>2. \A u \in Unit : flash'[blk'][u] = IF u < off' THEN "data" ELSE "erased"
    BY <1>2, <1>3, Bounds
  <2>3. \A c \in keep' \ lost' : Whole(c)'
    BY <1>1, <1>2, KeptStayWhole
  <2> QED
    BY <1>1, <2>1, <2>2, <2>3 DEF UpdateInv, UpdatePC, PortPC
<1>8. RemoveInv'
  BY DEF RemoveInv, PortPC
<1>9. DamageIsUnseen'
  BY <1>1, <1>2, <1>5, UsedAreBlocks DEF DamageIsUnseen, Whole
<1> QED
  BY <1>4, <1>6, <1>7, <1>8, <1>9

LEMMA ProgUnitInv ==
  ASSUME IndInv, ProgUnit
  PROVE  IndInv'
<1> USE DEF IndInv, ProgUnit
<1>1. pc \in PortPC /\ blk \in Block /\ off \in Unit /\ blk \notin Live /\ blk \in fresh
  BY PortBlock DEF PortPC
<1>2. flash[blk][off] = "erased"
  BY <1>1 DEF UpdateInv, Unit
<1>3. SetUnit(blk, off, "data")
  BY <1>2 DEF Programmed
<1>4. /\ flash' \in [Block -> [Unit -> Content]]
      /\ \A c \in Block \ {blk} : flash'[c] = flash[c]
      /\ flash'[blk][off] = "data"
      /\ \A w \in Unit \ {off} : flash'[blk][w] = flash[blk][w]
  BY <1>1, <1>3, SetUnitEffect DEF Content
<1>5. \/ off + 1 < Units /\ off' = off + 1 /\ pc' = pc
      \/ off + 1 = Units /\ off' = 0 /\ pc' = IF want = 0 THEN "commit" ELSE "alloc"
  BY <1>1, UnitsAssumption DEF Unit
<1>6. off' \in Unit /\ pc' \in {"prog", "commit", "alloc"} /\ (pc' # "prog" => off' = 0)
  BY <1>1, <1>5, UnitsAssumption DEF Unit
<1>7. TypeOK'
  BY <1>4, <1>6 DEF TypeOK
<1>8. Live' = Live /\ Held' = Held
  BY DEF Live, DataBlocks, Held
<1>9. Exclusive'
  BY <1>8 DEF Exclusive
<1>10. UpdateInv'
  <2>1. \A u \in Unit : u <= off => flash'[blk][u] = "data"
    BY <1>1, <1>4 DEF UpdateInv, Unit
  <2>2. \A c \in keep' \ lost' : Whole(c)'
    BY <1>1, <1>4, KeptStayWhole
  <2>3. CASE off + 1 < Units
    <3>1. \A u \in Unit : flash'[blk][u] = IF u < off' THEN "data" ELSE "erased"
      BY <1>1, <1>4, <1>5, <2>1, <2>3 DEF UpdateInv, Unit
    <3>2. \A c \in fresh' : Whole(c)' \/ c = blk'
      BY <1>4 DEF Whole, UpdateInv, TypeOK
    <3> QED
      BY <1>1, <1>5, <2>3, <2>2, <3>1, <3>2 DEF UpdateInv, UpdatePC, PortPC
  <2>4. CASE off + 1 = Units
    <3>1. \A u \in Unit : flash'[blk][u] = "data"
      BY <1>1, <2>1, <2>4, UnitsAssumption DEF Unit
    <3>2. \A c \in fresh' : Whole(c)'
      BY <1>4, <3>1 DEF Whole, UpdateInv, TypeOK
    <3>3. pc' \in {"commit", "alloc"} /\ (pc' = "alloc" => want > 0)
      BY <1>5, <2>4, UnitsAssumption DEF TypeOK
    <3> QED
      BY <2>2, <3>2, <3>3 DEF UpdateInv, UpdatePC, PortPC
  <2> QED
    BY <1>5, <2>3, <2>4
<1>11. RemoveInv'
  BY <1>6 DEF RemoveInv, PortPC
<1>12. DamageIsUnseen'
  BY <1>1, <1>4, <1>8, UsedAreBlocks DEF DamageIsUnseen, Whole
<1> QED
  BY <1>7, <1>9, <1>10, <1>11, <1>12

LEMMA FailedUpdateInv ==
  ASSUME IndInv, AllocFails \/ PortFails \/ CommitFails
  PROVE  IndInv'
<1>1. CASE AllocFails
  BY <1>1, UpdateFailsInv DEF AllocFails, IndInv, TypeOK, UpdatePC
<1>2. CASE CommitFails
  <2>1. pc \in UpdatePC /\ Return /\ UNCHANGED <<flash, owned, detached, lost>> /\ fresh' = {}
    BY <1>2 DEF CommitFails, Return, UpdatePC
  <2>2. file \in File /\ keep \cup fresh \in SUBSET Block /\ held' = [held EXCEPT ![file] = keep \cup fresh]
    BY <1>2, <2>1, KeepIsSafe DEF CommitFails, IndInv, TypeOK
  <2>3. keep \cup fresh \subseteq fresh \cup (IF owned[file] = Absent THEN {} ELSE owned[file])
                       \cup (IF held[file] = Absent THEN {} ELSE held[file])
    BY <2>1 DEF IndInv, UpdateInv
  <2>4. Exclusive' /\ held' \in [File -> {Absent} \cup SUBSET Block]
    BY <2>1, <2>2, <2>3, ExclusiveHeld
  <2> QED
    BY <2>1, <2>4, ReturnInv DEF IndInv, TypeOK
<1>3. CASE PortFails
  <2>1. blk \in Block /\ off \in Unit /\ blk \notin Live
    BY <1>3, PortBlock DEF PortFails, PortPC
  <2>2. /\ flash' \in [Block -> [Unit -> Content]]
        /\ \A c \in Block \ {blk} : flash'[c] = flash[c]
    BY <1>3, <2>1, SetUnitEffect DEF PortFails, Content, IndInv, TypeOK
  <2>3. \A b \in Live \ lost : flash'[b] = flash[b]
    BY <2>1, <2>2, UsedAreBlocks DEF IndInv
  <2>4. pc \in UpdatePC
    BY <1>3 DEF PortFails, UpdatePC
  <2>5. PICK linked \in SUBSET fresh : UpdateFails(linked)
    BY <1>3 DEF PortFails
  <2> QED
    BY <2>2, <2>3, <2>4, <2>5, UpdateFailsInv
<1> QED
  BY <1>1, <1>2, <1>3

LEMMA CommitInv ==
  ASSUME IndInv, Commit
  PROVE  IndInv'
<1> USE DEF IndInv, Commit, Return
<1>1. /\ file \in File
      /\ fresh \subseteq Block /\ keep \subseteq Block
      /\ fresh \cap Live = {} /\ fresh \cap Held = {}
      /\ \A b \in fresh : Whole(b)
      /\ \A b \in keep \ lost : Whole(b)
      /\ owned[file] # Absent
      /\ keep \subseteq owned[file] \cup (IF held[file] = Absent THEN {} ELSE held[file])
  BY DEF UpdateInv, UpdatePC, PortPC, TypeOK, Exclusive
<1>2. /\ owned'[file] = keep \cup fresh /\ \A g \in File \ {file} : owned'[g] = owned[g]
      /\ held'[file] = Absent /\ \A g \in File \ {file} : held'[g] = held[g]
  BY <1>1 DEF TypeOK
<1>3. TypeOK'
  BY <1>1, Bounds, BlocksAssumption DEF TypeOK
<1>4. \A g \in File \ {file} : /\ owned[g] # Absent => fresh \cap owned[g] = {} /\ keep \cap owned[g] = {}
                               /\ held[g] # Absent => fresh \cap held[g] = {} /\ keep \cap held[g] = {}
  <2>1. \A g \in File : /\ owned[g] # Absent => owned[g] \subseteq Live
                        /\ held[g] # Absent => held[g] \subseteq Held
    BY DEF Live, DataBlocks, Held
  <2> QED
    BY <1>1, <2>1 DEF Exclusive
<1>5. Live' \subseteq Live \cup keep \cup fresh
  BY <1>2 DEF Live, DataBlocks
<1>6. Exclusive'
  <2>1. \A f \in File : owned'[f] # Absent => Root \notin owned'[f]
    <3>1. Root \notin fresh
      BY <1>1 DEF Live
    <3>2. Root \notin keep
      BY <1>1 DEF Exclusive
    <3> QED
      BY <1>2, <3>1, <3>2 DEF Exclusive
  <2>2. \A f, g \in File : owned'[f] # Absent /\ owned'[g] # Absent /\ f # g
                             => owned'[f] \cap owned'[g] = {}
    BY <1>2, <1>4 DEF Exclusive
  <2>3. \A f \in File : held'[f] # Absent => f # file /\ held[f] # Absent /\ held'[f] = held[f]
    BY <1>2
  <2>4. \A f, g \in File : held'[f] # Absent /\ f # g =>
          /\ owned'[g] # Absent => held'[f] \cap owned'[g] = {}
          /\ held'[g] # Absent => held'[f] \cap held'[g] = {}
    BY <1>2, <1>4, <2>3 DEF Exclusive
  <2> QED
    BY <2>1, <2>2, <2>3, <2>4 DEF Exclusive
<1>7. UpdateInv'
  BY DEF UpdateInv, UpdatePC, PortPC
<1>8. RemoveInv'
  BY DEF RemoveInv, PortPC
<1>9. DamageIsUnseen'
  BY <1>1, <1>5 DEF DamageIsUnseen, Whole
<1> QED
  BY <1>3, <1>6, <1>7, <1>8, <1>9

-----------------------------------------------------------------------------
(* Remove *)

LEMMA RemoveBeginInv ==
  ASSUME IndInv, NEW f \in File, RemoveBegin(f)
  PROVE  IndInv'
<1> USE DEF IndInv, RemoveBegin
<1>1. TypeOK'
  BY DEF TypeOK
<1>2. Live' = Live /\ Held' = Held
  BY DEF Live, DataBlocks, Held
<1>3. Exclusive'
  BY <1>2 DEF Exclusive
<1>4. UpdateInv'
  BY DEF UpdateInv, UpdatePC, PortPC, Whole
<1>5. RemoveInv'
  BY DEF RemoveInv, PortPC
<1>6. DamageIsUnseen'
  BY <1>2 DEF DamageIsUnseen, Whole
<1> QED
  BY <1>1, <1>3, <1>4, <1>5, <1>6

LEMMA LfsRemoveInv ==
  ASSUME IndInv, LfsRemove
  PROVE  IndInv'
<1> USE DEF IndInv, LfsRemove
<1>1. /\ file \in File /\ fresh = {}
      /\ owned'[file] = Absent /\ \A g \in File \ {file} : owned'[g] = owned[g]
  BY DEF RemoveInv, UpdateInv, UpdatePC, TypeOK
<1>2. TypeOK'
  BY <1>1 DEF TypeOK
<1>3. Live' \subseteq Live /\ Held' = Held
  BY <1>1 DEF Live, DataBlocks, Held
<1>4. Exclusive'
  BY <1>1, <1>3 DEF Exclusive
<1>5. UpdateInv'
  BY <1>1 DEF UpdateInv, UpdatePC, PortPC
<1>6. RemoveInv'
  <2>1. owned[file] \cap Live' = {}
    <3>1. \A g \in File : owned'[g] # Absent => owned'[g] \cap owned[file] = {}
      BY <1>1 DEF Exclusive
    <3> QED
      BY <1>1, <3>1 DEF Live, DataBlocks, Exclusive
  <2>2. due' \subseteq before' \ Used'
    BY <1>1, <1>3, <2>1 DEF Used
  <2> QED
    BY <2>2 DEF RemoveInv, PortPC
<1>7. DamageIsUnseen'
  BY <1>3 DEF DamageIsUnseen, Whole
<1> QED
  BY <1>2, <1>4, <1>5, <1>6, <1>7

LEMMA RemoveReturns ==
  ASSUME IndInv, LfsRemoveFails \/ RemoveReturn
  PROVE  IndInv'
<1>1. Return /\ UNCHANGED <<flash, owned, held, detached, lost>> /\ fresh = {}
  BY DEF LfsRemoveFails, RemoveReturn, IndInv, UpdateInv, UpdatePC
<1>2. Exclusive'
  BY <1>1 DEF IndInv, Exclusive, Return
<1> QED
  BY <1>1, <1>2, ReturnInv DEF IndInv, TypeOK

LEMMA SecondWalkInv ==
  ASSUME IndInv, SecondWalk
  PROVE  IndInv'
<1> USE DEF IndInv, SecondWalk
<1>1. PICK seen \in SUBSET Block :
        /\ Walk(seen)
        /\ doomed' = before \ seen
        /\ lost' = lost \cup (doomed' \cap Used)
  BY DEF ToZero
<1>2. seen \subseteq Used /\ Used \subseteq Block
  BY <1>1, UsedAreBlocks DEF Walk
<1>3. TypeOK'
  BY <1>1 DEF TypeOK
<1>4. Live' = Live /\ Held' = Held /\ Used' = Used
  BY DEF Live, DataBlocks, Held, Used
<1>5. Exclusive'
  BY <1>4 DEF Exclusive
<1>6. UpdateInv'
  BY DEF UpdateInv, UpdatePC, PortPC, Whole
<1>7. RemoveInv'
  <2>1. due' \subseteq doomed'
    BY <1>1, <1>2 DEF RemoveInv
  <2>2. blk' = 0 /\ off' = 0
    BY DEF RemoveInv, PortPC
  <2>3. \A b \in due', u \in Unit : ~(b < blk' \/ (b = blk' /\ u < off'))
    BY <1>3, <2>2 DEF TypeOK, Block, Unit
  <2> QED
    BY <1>1, <1>4, <2>1, <2>2, <2>3 DEF RemoveInv
<1>8. DamageIsUnseen'
  BY <1>1, <1>4 DEF DamageIsUnseen, Whole
<1> QED
  BY <1>3, <1>5, <1>6, <1>7, <1>8

LEMMA ScrubUnitInv ==
  ASSUME IndInv, ScrubUnit
  PROVE  IndInv'
<1> USE DEF IndInv, ScrubUnit
<1>1. blk \in Block /\ off \in Unit /\ doomed \subseteq Block
  BY DEF TypeOK
<1>2. PICK v \in Content : SetUnit(blk, off, v) /\ ((v = "zero" /\ due' = due) \/ due' = due \ {blk})
  BY <1>1 DEF TypeOK, Content
<1>3. /\ flash' \in [Block -> [Unit -> Content]]
      /\ flash'[blk][off] = v
      /\ \A c \in Block \ {blk} : flash'[c] = flash[c]
      /\ \A w \in Unit \ {off} : flash'[blk][w] = flash[blk][w]
  BY <1>1, <1>2, SetUnitEffect
<1>4. \/ off + 1 < Units /\ off' = off + 1 /\ blk' = blk
      \/ off + 1 = Units /\ off' = 0 /\ blk' = blk + 1
  BY <1>1, UnitsAssumption DEF NextUnit, Unit
<1>5. off' \in Unit /\ blk' \in 0..Blocks /\ (blk' # blk => off' = 0)
  BY <1>1, <1>4, BlocksAssumption, UnitsAssumption DEF Unit, Block
<1>6. TypeOK'
  BY <1>2, <1>3, <1>5 DEF TypeOK
<1>7. Live' = Live /\ Held' = Held /\ Used' = Used
  BY DEF Live, DataBlocks, Held, Used
<1>8. Exclusive'
  BY <1>7 DEF Exclusive
<1>9. UpdateInv'
  BY DEF UpdateInv, UpdatePC, PortPC
<1>10. RemoveInv'
  <2>1. due' \subseteq due /\ due \subseteq doomed
    BY <1>2 DEF RemoveInv
  <2>2. \A b \in due', u \in Unit : b < blk' \/ (b = blk' /\ u < off') => flash'[b][u] = "zero"
    <3> SUFFICES ASSUME NEW b \in due', NEW u \in Unit, b < blk' \/ (b = blk' /\ u < off')
                 PROVE  flash'[b][u] = "zero"
      OBVIOUS
    <3>1. b \in due /\ b \in Block
      BY <1>1, <2>1
    <3>2. b < blk \/ (b = blk /\ u <= off)
      BY <1>1, <1>4, <3>1, UnitsAssumption DEF Unit, Block
    <3>3. CASE b < blk
      BY <1>1, <1>3, <3>1, <3>3 DEF RemoveInv, Block
    <3>4. CASE b = blk /\ u = off
      BY <1>2, <1>3, <3>4
    <3>5. CASE b = blk /\ u < off
      BY <1>1, <1>3, <3>1, <3>5 DEF RemoveInv, Unit
    <3> QED
      BY <1>1, <3>2, <3>3, <3>4, <3>5 DEF Unit
  <2> QED
    BY <1>5, <1>7, <2>1, <2>2 DEF RemoveInv, PortPC
<1>11. DamageIsUnseen'
  <2>1. blk \notin Live \ lost
    BY DEF RemoveInv, Used
  <2> QED
    BY <1>3, <1>7, <2>1, UsedAreBlocks DEF DamageIsUnseen, Whole
<1> QED
  BY <1>6, <1>8, <1>9, <1>10, <1>11

LEMMA ScrubSkipInv ==
  ASSUME IndInv, ScrubSkip
  PROVE  IndInv'
<1> USE DEF IndInv, ScrubSkip
<1>1. blk \in Block /\ blk' \in 0..Blocks /\ off = 0
  BY BlocksAssumption DEF Block, RemoveInv
<1>2. TypeOK'
  BY <1>1 DEF TypeOK
<1>3. Live' = Live /\ Held' = Held /\ Used' = Used
  BY DEF Live, DataBlocks, Held, Used
<1>4. Exclusive'
  BY <1>3 DEF Exclusive
<1>5. UpdateInv'
  BY DEF UpdateInv, UpdatePC, PortPC
<1>6. RemoveInv'
  <2>1. \A b \in due, u \in Unit : b < blk' \/ (b = blk' /\ u < off') => flash'[b][u] = "zero"
    <3> SUFFICES ASSUME NEW b \in due, NEW u \in Unit, b < blk' \/ (b = blk' /\ u < off')
                 PROVE  flash'[b][u] = "zero"
      OBVIOUS
    <3>1. b \in doomed /\ b \in Block /\ b # blk
      BY DEF RemoveInv, TypeOK
    <3>2. b < blk
      BY <1>1, <3>1 DEF Block, Unit
    <3> QED
      BY <3>2 DEF RemoveInv
  <2> QED
    BY <1>1, <1>3, <2>1 DEF RemoveInv, PortPC
<1>7. DamageIsUnseen'
  BY <1>3 DEF DamageIsUnseen, Whole
<1> QED
  BY <1>2, <1>4, <1>5, <1>6, <1>7

LEMMA CrashInv ==
  ASSUME IndInv, Crash
  PROVE  IndInv'
<1>1. /\ Return /\ UNCHANGED <<owned, lost>>
      /\ held' = [f \in File |-> Absent] /\ detached' = {} /\ fresh' = {}
  BY DEF Crash, Return
<1>3. Exclusive'
  <2>1. \A f \in File : held'[f] = Absent
    BY <1>1
  <2> QED
    BY <1>1, <2>1 DEF IndInv, Exclusive
<1>4. held' \in [File -> {Absent} \cup SUBSET Block] /\ detached' \in SUBSET File
  BY <1>1
<1>2. /\ flash' \in [Block -> [Unit -> Content]]
      /\ \A b \in Live \ lost : flash'[b] = flash[b]
  <2>1. CASE UNCHANGED flash
    BY <2>1 DEF IndInv, TypeOK
  <2>2. CASE /\ pc \in PortPC \/ (pc = "scrub" /\ blk \in doomed)
             /\ SetUnit(blk, off, "junk")
    <3>1. blk \in Block /\ off \in Unit
      BY <2>2, PortBlock DEF IndInv, TypeOK
    <3>2. blk \notin Live \ lost
      BY <2>2, PortBlock DEF IndInv, RemoveInv, Used
    <3> QED
      BY <2>2, <3>1, <3>2, SetUnitEffect, UsedAreBlocks DEF IndInv, Content
  <2> QED
    BY <2>1, <2>2 DEF Crash, PortPC
<1> QED
  BY <1>1, <1>2, <1>3, <1>4, ReturnInv

-----------------------------------------------------------------------------
\* The strengthened invariant: blocks have one owner, an update's blocks are
\* whole but for the one in the port's hands, what a remove owes is free and in
\* no handle's list, and only blocks a second walk missed are damaged.
THEOREM Inductive == Spec => []IndInv
<1>1. Init => IndInv
  BY InitInv
<1>2. IndInv /\ [Next]_vars => IndInv'
  <2> SUFFICES ASSUME IndInv, [Next]_vars PROVE IndInv'
    OBVIOUS
  <2>1. CASE Update
    BY <2>1, UpdateBeginInv, AllocInv, FailedUpdateInv, ZeroizeUnitInv, EraseBlockInv,
       ProgUnitInv, CommitInv DEF Update
  <2>2. CASE Remove
    BY <2>2, RemoveBeginInv, LfsRemoveInv, RemoveReturns, SecondWalkInv, ScrubUnitInv,
       ScrubSkipInv DEF Remove
  <2>3. CASE Crash
    BY <2>3, CrashInv
  <2>4. CASE Handles
    BY <2>4, HandlesInv DEF Handles
  <2>5. CASE UNCHANGED vars
    BY <2>5, StutterInv
  <2> QED
    BY <2>1, <2>2, <2>3, <2>4, <2>5 DEF Next
<1> QED
  BY <1>1, <1>2, PTL DEF Spec

\* Every variable keeps its type: no loop of remove or of the port leaves the
\* flash.
THEOREM TypeCorrect == Spec => []TypeOK
<1>1. IndInv => TypeOK
  BY DEF IndInv
<1> QED
  BY <1>1, Inductive, PTL

\* A remove that succeeds has zeroed every unit of every block of its object
\* that the first walk saw, no failed write was meant for, and the object's own
\* handle did not hold in a list it had not committed.
THEOREM RemovedScrubbed == Spec => []RemovedIsScrubbed
<1>1. IndInv => RemovedIsScrubbed
  <2> SUFFICES ASSUME IndInv, pc = "scrub", blk = Blocks, NEW b \in due
               PROVE  Scrubbed(b)
    BY DEF RemovedIsScrubbed
  <2>1. b \in Block
    BY DEF IndInv, TypeOK
  <2>2. b < blk
    BY <2>1, BlocksAssumption DEF Block
  <2> QED
    BY <2>2 DEF IndInv, RemoveInv, Scrubbed
<1> QED
  BY <1>1, Inductive, PTL

\* Whatever fails, a damaged live block is one the second walk of some remove
\* did not see.
THEOREM DamageBounded == Spec => []DamageIsUnseen
<1>1. IndInv => DamageIsUnseen
  BY DEF IndInv
<1> QED
  BY <1>1, Inductive, PTL

\* When block walks do not fail, they miss nothing that is in use.
LEMMA NoneLost == ("walk" \notin Fault) => (Spec => [](lost = {}))
<1> SUFFICES ASSUME "walk" \notin Fault PROVE Spec => [](lost = {})
  OBVIOUS
<1> DEFINE None == lost = {}
<1>1. Init => None
  BY DEF Init
<1>2. None /\ [Next]_vars => None'
  <2> SUFFICES ASSUME None, [Next]_vars PROVE None'
    OBVIOUS
  <2>1. CASE SecondWalk
    BY <2>1 DEF SecondWalk, Walk, ToZero
  <2>2. CASE \E b \in Block : Alloc(b)
    BY <2>2 DEF Alloc
  <2>3. CASE Handles
    BY <2>3 DEF Handles, Close, Rename, Create, Drop
  <2> QED
    BY <2>1, <2>2, <2>3 DEF Next, Update, Remove, Crash, UpdateBegin, AllocFails, ZeroizeUnit,
       EraseBlock, ProgUnit, PortFails, UpdateFails, Commit, CommitFails,
       RemoveBegin, LfsRemove, LfsRemoveFails, ScrubUnit, ScrubSkip, RemoveReturn, vars
<1> HIDE DEF None
<1>3. Spec => []None
  BY <1>1, <1>2, PTL DEF Spec
<1> QED
  BY <1>3 DEF None

\* Then no live block is ever touched, wherever power is lost and whichever
\* other flash operation fails.
THEOREM LiveBlocksSafe == ("walk" \notin Fault) => (Spec => []OnlyFreedZeroed)
<1> SUFFICES ASSUME "walk" \notin Fault PROVE Spec => []OnlyFreedZeroed
  OBVIOUS
<1>1. IndInv /\ lost = {} => OnlyFreedZeroed
  BY DEF IndInv, DamageIsUnseen, OnlyFreedZeroed
<1> QED
  BY <1>1, NoneLost, Inductive, PTL

\* And no block is touched that a handle holds in a list it has not committed,
\* its object removed or not: what a caller was told is written stays readable.
THEOREM HeldBlocksSafe == ("walk" \notin Fault) => (Spec => HeldUntouched)
<1> SUFFICES ASSUME "walk" \notin Fault PROVE Spec => HeldUntouched
  OBVIOUS
<1>1. IndInv /\ lost = {} /\ [Next]_vars => [\A b \in Held : flash'[b] = flash[b]]_vars
  <2> SUFFICES ASSUME IndInv, lost = {}, Next, NEW b \in Held
               PROVE  flash'[b] = flash[b]
    OBVIOUS
  <2>1. b \in Block /\ b \notin fresh /\ b \in Used
    BY UsedAreBlocks DEF IndInv, Exclusive, Used
  <2>2. CASE \E v \in Content : SetUnit(blk, off, v) /\ blk # b
    BY <2>1, <2>2 DEF SetUnit, IndInv, TypeOK
  <2>3. pc \in PortPC => blk # b
    BY <2>1, PortBlock
  <2>4. pc = "scrub" /\ blk \in doomed => blk # b
    BY <2>1 DEF IndInv, RemoveInv
  <2>5. CASE ZeroizeUnit
    BY <2>2, <2>3, <2>5 DEF ZeroizeUnit, PortPC, Content
  <2>6. CASE EraseBlock
    BY <2>1, <2>3, <2>6 DEF EraseBlock, PortPC, IndInv, TypeOK
  <2>7. CASE ProgUnit
    BY <2>2, <2>3, <2>7 DEF ProgUnit, Programmed, PortPC, Content
  <2>8. CASE PortFails
    BY <2>2, <2>3, <2>8 DEF PortFails, PortPC, Content
  <2>9. CASE ScrubUnit
    <3>1. blk \in Block /\ off \in Unit
      BY <2>9 DEF ScrubUnit, IndInv, TypeOK
    <3>2. \E v \in Content : SetUnit(blk, off, v)
      BY <2>9, <3>1 DEF ScrubUnit, Content, IndInv, TypeOK
    <3> QED
      BY <2>2, <2>4, <2>9, <3>2 DEF ScrubUnit
  <2>10. CASE Crash
    BY <2>2, <2>3, <2>4, <2>10 DEF Crash, PortPC, Content
  <2>11. CASE Handles
    BY <2>11 DEF Handles, Close, Rename, Create, Drop
  <2> QED
    BY <2>5, <2>6, <2>7, <2>8, <2>9, <2>10, <2>11
    DEF Next, Update, Remove, UpdateBegin, Alloc, AllocFails, UpdateFails, Commit, CommitFails,
        RemoveBegin, LfsRemove, LfsRemoveFails, SecondWalk, ScrubSkip, RemoveReturn
<1> QED
  BY <1>1, NoneLost, Inductive, PTL DEF Spec, HeldUntouched
=============================================================================
