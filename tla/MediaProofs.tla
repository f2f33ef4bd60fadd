----------------------------- MODULE MediaProofs -----------------------------
(***************************************************************************)
(* The quota and the links hold for any number of assets, users, Moins and *)
(* instances, any quota and any batch.                                     *)
(***************************************************************************)
EXTENDS Media, FiniteSetTheorems, TLAPS

(* The tables and the requests keep their types.                           *)
LEMMA TypeStep == TypeOK /\ [Next]_vars => TypeOK'
<1> SUFFICES ASSUME TypeOK, [Next]_vars PROVE TypeOK'
  OBVIOUS
<1> USE MediaAssumption DEF TypeOK, Stored, tableVars, postVars, requestVars, sweepVars
<1>1. ASSUME NEW a \in Asset, Begin(a) PROVE TypeOK'
  BY <1>1 DEF Begin
<1>2. ASSUME NEW a \in Asset, Admit(a) PROVE TypeOK'
  BY <1>2 DEF Admit
<1>3. ASSUME NEW a \in Asset, Store(a) PROVE TypeOK'
  BY <1>3 DEF Store
<1>4. ASSUME NEW a \in Asset, Abort(a) PROVE TypeOK'
  BY <1>4 DEF Abort, Uploading
<1>5. ASSUME NEW a \in Asset, Age(a) PROVE TypeOK'
  BY <1>5 DEF Age
<1>6. ASSUME NEW a \in Asset, DeleteStart(a) PROVE TypeOK'
  BY <1>6 DEF DeleteStart
<1>7. ASSUME NEW a \in Asset, DeleteEnd(a) PROVE TypeOK'
  BY <1>7 DEF DeleteEnd, Remove
<1>8. ASSUME NEW p \in Post, NEW S \in SUBSET Asset, Check(p, S) PROVE TypeOK'
  BY <1>8 DEF Check
<1>9. ASSUME NEW p \in Post, NEW a \in Asset, Attach(p, a) PROVE TypeOK'
  BY <1>9 DEF Attach
<1>10. ASSUME NEW p \in Post, NEW a \in Asset, AttachFails(p, a) PROVE TypeOK'
  BY <1>10 DEF AttachFails, Unwrite
<1>11. ASSUME NEW p \in Post, CommitPost(p) PROVE TypeOK'
  BY <1>11 DEF CommitPost
<1>12. ASSUME NEW p \in Post, Rollback(p) PROVE TypeOK'
  BY <1>12 DEF Rollback, Unwrite
<1>13. ASSUME NEW p \in Post, Detach(p) PROVE TypeOK'
  BY <1>13 DEF Detach
<1>14. ASSUME NEW u \in User, NEW a \in Asset, Pick(u, a) PROVE TypeOK'
  BY <1>14 DEF Pick
<1>15. ASSUME NEW u \in User, SetAvatar(u) PROVE TypeOK'
  BY <1>15 DEF SetAvatar
<1>16. ASSUME NEW u \in User, ClearAvatar(u) PROVE TypeOK'
  BY <1>16 DEF ClearAvatar
<1>17. ASSUME NEW i \in Instance, SweepStart(i) PROVE TypeOK'
  BY <1>17 DEF SweepStart
<1>18. ASSUME NEW i \in Instance, SweepDelete(i) PROVE TypeOK'
  BY <1>18 DEF SweepDelete, Remove
<1>19. ASSUME NEW i \in Instance, SweepFails(i) PROVE TypeOK'
  BY <1>19 DEF SweepFails
<1>20. ASSUME NEW i \in Instance, NEW a \in Asset, SweepTake(i, a) PROVE TypeOK'
  BY <1>20 DEF SweepTake
<1>21. CASE UNCHANGED vars
  BY <1>21 DEF vars
<1>22. QED
  BY <1>1, <1>2, <1>3, <1>4, <1>5, <1>6, <1>7, <1>8, <1>9, <1>10, <1>11, <1>12, <1>13, <1>14,
     <1>15, <1>16, <1>17, <1>18, <1>19, <1>20, <1>21
     DEF Next, Upload, WritePost, Profile, DeleteOrphans

(* The types hold of every behaviour.                                      *)
THEOREM TypeCorrect == Spec => []TypeOK
<1>1. Init => TypeOK
  BY MediaAssumption DEF Init, TypeOK
<1>2. QED
  BY <1>1, TypeStep, PTL DEF Spec

-----------------------------------------------------------------------------
(* Row locks.                                                              *)

(* Every step keeps the links and the victims.                             *)
LEMMA LockStep ==
    TypeOK /\ LinksAreStored /\ VictimsAreExclusive /\ [Next]_vars
      => LinksAreStored' /\ VictimsAreExclusive'
<1> SUFFICES ASSUME TypeOK, LinksAreStored, VictimsAreExclusive, [Next]_vars
             PROVE  LinksAreStored' /\ VictimsAreExclusive'
  OBVIOUS
<1> USE MediaAssumption
    DEF TypeOK, LinksAreStored, VictimsAreExclusive, Stored, KeyShared, Locked,
        tableVars, postVars, requestVars, sweepVars
<1>1. ASSUME NEW a \in Asset, Begin(a) PROVE LinksAreStored' /\ VictimsAreExclusive'
  <2>1. LinksAreStored'
    BY <1>1 DEF Begin
  <2>2. VictimsAreExclusive'
    BY <1>1 DEF Begin
  <2>3. QED
    BY <2>1, <2>2
<1>2. ASSUME NEW a \in Asset, Admit(a) PROVE LinksAreStored' /\ VictimsAreExclusive'
  <2>1. LinksAreStored'
    BY <1>2 DEF Admit
  <2>2. VictimsAreExclusive'
    BY <1>2 DEF Admit
  <2>3. QED
    BY <2>1, <2>2
<1>3. ASSUME NEW a \in Asset, Store(a) PROVE LinksAreStored' /\ VictimsAreExclusive'
  <2>1. LinksAreStored'
    BY <1>3 DEF Store
  <2>2. VictimsAreExclusive'
    BY <1>3 DEF Store
  <2>3. QED
    BY <2>1, <2>2
<1>4. ASSUME NEW a \in Asset, Abort(a) PROVE LinksAreStored' /\ VictimsAreExclusive'
  <2>1. LinksAreStored'
    BY <1>4 DEF Abort, Uploading
  <2>2. VictimsAreExclusive'
    BY <1>4 DEF Abort, Uploading
  <2>3. QED
    BY <2>1, <2>2
<1>5. ASSUME NEW a \in Asset, Age(a) PROVE LinksAreStored' /\ VictimsAreExclusive'
  BY <1>5 DEF Age
<1>6. ASSUME NEW a \in Asset, DeleteStart(a) PROVE LinksAreStored' /\ VictimsAreExclusive'
  BY <1>6 DEF DeleteStart
<1>7. ASSUME NEW a \in Asset, DeleteEnd(a) PROVE LinksAreStored' /\ VictimsAreExclusive'
  <2>1. LinksAreStored'
    BY <1>7 DEF DeleteEnd, Remove
  <2>2. VictimsAreExclusive'
    BY <1>7 DEF DeleteEnd, Remove
  <2>3. QED
    BY <2>1, <2>2
<1>8. ASSUME NEW p \in Post, NEW S \in SUBSET Asset, Check(p, S) PROVE LinksAreStored' /\ VictimsAreExclusive'
  BY <1>8 DEF Check
<1>9. ASSUME NEW p \in Post, NEW a \in Asset, Attach(p, a) PROVE LinksAreStored' /\ VictimsAreExclusive'
  <2>1. LinksAreStored'
    BY <1>9 DEF Attach
  <2>2. VictimsAreExclusive'
    BY <1>9 DEF Attach
  <2>3. QED
    BY <2>1, <2>2
<1>10. ASSUME NEW p \in Post, NEW a \in Asset, AttachFails(p, a) PROVE LinksAreStored' /\ VictimsAreExclusive'
  BY <1>10 DEF AttachFails, Unwrite
<1>11. ASSUME NEW p \in Post, CommitPost(p) PROVE LinksAreStored' /\ VictimsAreExclusive'
  <2>1. LinksAreStored'
    BY <1>11 DEF CommitPost
  <2>2. VictimsAreExclusive'
    BY <1>11 DEF CommitPost
  <2>3. QED
    BY <2>1, <2>2
<1>12. ASSUME NEW p \in Post, Rollback(p) PROVE LinksAreStored' /\ VictimsAreExclusive'
  BY <1>12 DEF Rollback, Unwrite
<1>13. ASSUME NEW p \in Post, Detach(p) PROVE LinksAreStored' /\ VictimsAreExclusive'
  BY <1>13 DEF Detach
<1>14. ASSUME NEW u \in User, NEW a \in Asset, Pick(u, a) PROVE LinksAreStored' /\ VictimsAreExclusive'
  BY <1>14 DEF Pick
<1>15. ASSUME NEW u \in User, SetAvatar(u) PROVE LinksAreStored' /\ VictimsAreExclusive'
  BY <1>15 DEF SetAvatar
<1>16. ASSUME NEW u \in User, ClearAvatar(u) PROVE LinksAreStored' /\ VictimsAreExclusive'
  BY <1>16 DEF ClearAvatar
<1>17. ASSUME NEW i \in Instance, SweepStart(i) PROVE LinksAreStored' /\ VictimsAreExclusive'
  BY <1>17 DEF SweepStart
<1>18. ASSUME NEW i \in Instance, SweepDelete(i) PROVE LinksAreStored' /\ VictimsAreExclusive'
  <2>1. LinksAreStored'
    BY <1>18 DEF SweepDelete, Remove
  <2>2. VictimsAreExclusive'
    BY <1>18 DEF SweepDelete, Remove
  <2>3. QED
    BY <2>1, <2>2
<1>19. ASSUME NEW i \in Instance, SweepFails(i) PROVE LinksAreStored' /\ VictimsAreExclusive'
  <2>1. LinksAreStored'
    BY <1>19 DEF SweepFails
  <2>2. VictimsAreExclusive'
    BY <1>19 DEF SweepFails
  <2>3. QED
    BY <2>1, <2>2
<1>20. ASSUME NEW i \in Instance, NEW a \in Asset, SweepTake(i, a) PROVE LinksAreStored' /\ VictimsAreExclusive'
  <2>1. LinksAreStored'
    BY <1>20 DEF SweepTake, Available
  <2>2. VictimsAreExclusive'
    BY <1>20 DEF SweepTake, Available
  <2>3. QED
    BY <2>1, <2>2
<1>21. CASE UNCHANGED vars
  BY <1>21 DEF vars
<1>22. QED
  BY <1>1, <1>2, <1>3, <1>4, <1>5, <1>6, <1>7, <1>8, <1>9, <1>10, <1>11, <1>12, <1>13, <1>14,
     <1>15, <1>16, <1>17, <1>18, <1>19, <1>20, <1>21
     DEF Next, Upload, WritePost, Profile, DeleteOrphans

(* Initially there are neither links nor victims.                          *)
LEMMA LockInit == Init => LinksAreStored /\ VictimsAreExclusive
BY DEF Init, LinksAreStored, VictimsAreExclusive

(* LinksAreStored, for every number of Moins, removals and instances.      *)
THEOREM LinksStayStored == Spec => []LinksAreStored
BY LockInit, LockStep, TypeCorrect, PTL DEF Spec

(* VictimsAreExclusive, for every number of instances.                     *)
THEOREM VictimsStayExclusive == Spec => []VictimsAreExclusive
BY LockInit, LockStep, TypeCorrect, PTL DEF Spec

-----------------------------------------------------------------------------
(* The quota.  What counts are the assets that nobody has used yet.        *)
Fresh(u) == {a \in Stored \ used : OwnerOf[a] = u}

(* One upload of a user at a time, and while it is admitted there is room  *)
(* for it.                                                                 *)
Room ==
    /\ \A a \in Asset : Referred(a) => a \in used
    /\ \A a, b \in Asset : (Uploading(a) /\ Uploading(b) /\ OwnerOf[a] = OwnerOf[b]) => a = b
    /\ \A a \in Asset : asset[a] = "admitted" => Cardinality(Fresh(OwnerOf[a])) < Quota
    /\ \A u \in User : Cardinality(Fresh(u)) <= Quota

(* The sets that are counted are finite, and a smaller one counts less.    *)
LEMMA FreshFinite == \A u \in User : IsFiniteSet(Fresh(u)) /\ Cardinality(Fresh(u)) \in Nat
<1> SUFFICES ASSUME NEW u \in User PROVE IsFiniteSet(Fresh(u)) /\ Cardinality(Fresh(u)) \in Nat
  OBVIOUS
<1>1. Fresh(u) \subseteq Asset
  BY DEF Fresh, Stored
<1>2. QED
  BY <1>1, FS_Subset, FS_CardinalityType, MediaAssumption

(* A step that stores nothing and forgets no use leaves no more of them.   *)
LEMMA FreshShrinks ==
    ASSUME NEW u \in User, Stored' \subseteq Stored, used \subseteq used'
    PROVE  Cardinality(Fresh(u))' <= Cardinality(Fresh(u)) /\ Cardinality(Fresh(u))' \in Nat
<1>1. Fresh(u)' \subseteq Fresh(u)
  BY DEF Fresh
<1>2. QED
  BY <1>1, FreshFinite, FS_Subset, FS_CardinalityType

(* Room is kept by a step that stores nothing, admits nothing and begins   *)
(* no upload.                                                              *)
LEMMA RoomShrinks ==
    ASSUME TypeOK, Room, Stored' \subseteq Stored, used \subseteq used',
           \A a \in Asset : Referred(a)' => a \in used',
           \A a \in Asset : Uploading(a)' => asset'[a] = asset[a]
    PROVE  Room'
<1>1. \A u \in User : Cardinality(Fresh(u))' <= Cardinality(Fresh(u))
                       /\ Cardinality(Fresh(u))' \in Nat /\ Cardinality(Fresh(u)) \in Nat
  BY FreshShrinks, FreshFinite
<1>2. \A a, b \in Asset : (Uploading(a)' /\ Uploading(b)' /\ OwnerOf[a] = OwnerOf[b]) => a = b
  BY DEF Uploading, Room
<1>3. \A a \in Asset : asset'[a] = "admitted" => Cardinality(Fresh(OwnerOf[a]))' < Quota
  <2> SUFFICES ASSUME NEW a \in Asset, asset'[a] = "admitted"
               PROVE  Cardinality(Fresh(OwnerOf[a]))' < Quota
    OBVIOUS
  <2>1. asset[a] = "admitted" /\ OwnerOf[a] \in User
    BY MediaAssumption DEF Uploading
  <2>2. Cardinality(Fresh(OwnerOf[a])) < Quota
    BY <2>1 DEF Room
  <2>3. QED
    BY <2>1, <2>2, <1>1, MediaAssumption
<1>4. \A u \in User : Cardinality(Fresh(u))' <= Quota
  BY <1>1, MediaAssumption DEF Room
<1>5. QED
  BY <1>1, <1>2, <1>3, <1>4 DEF Room

(* Every step keeps it.                                                    *)
LEMMA RoomStep == TypeOK /\ Room /\ [Next]_vars => Room'
<1> SUFFICES ASSUME TypeOK, Room, [Next]_vars PROVE Room'
  OBVIOUS
<1> USE MediaAssumption DEF tableVars, postVars, requestVars, sweepVars
<1>r. \A a \in Asset : Referred(a) => a \in used
  BY DEF Room
<1>1. ASSUME NEW a \in Asset, Begin(a) PROVE Room'
  <2>1. \A v \in User : Fresh(v)' = Fresh(v)
    BY <1>1 DEF Begin, Fresh, Stored, TypeOK
  <2>2. \A x \in Asset : Referred(x)' => x \in used'
    BY <1>1, <1>r DEF Begin, Referred, TypeOK
  <2>3. \A x, y \in Asset : (Uploading(x)' /\ Uploading(y)' /\ OwnerOf[x] = OwnerOf[y]) => x = y
    BY <1>1 DEF Begin, Lockable, Uploading, Room, TypeOK
  <2>4. \A x \in Asset : asset'[x] = "admitted" => asset[x] = "admitted"
    BY <1>1 DEF Begin, TypeOK
  <2>5. QED
    BY <2>1, <2>2, <2>3, <2>4 DEF Room
<1>2. ASSUME NEW a \in Asset, Admit(a) PROVE Room'
  <2>1. \A v \in User : Fresh(v)' = Fresh(v)
    BY <1>2 DEF Admit, Fresh, Stored, TypeOK
  <2>2. \A x \in Asset : Referred(x)' => x \in used'
    BY <1>2, <1>r DEF Admit, Referred, TypeOK
  <2>3. \A x, y \in Asset : (Uploading(x)' /\ Uploading(y)' /\ OwnerOf[x] = OwnerOf[y]) => x = y
    BY <1>2 DEF Admit, Uploading, Room, TypeOK
  <2>4. \A x \in Asset : asset'[x] = "admitted" => Cardinality(Fresh(OwnerOf[x])) < Quota
    <3> SUFFICES ASSUME NEW x \in Asset, asset'[x] = "admitted"
                 PROVE  Cardinality(Fresh(OwnerOf[x])) < Quota
      OBVIOUS
    <3>1. CASE x # a
      BY <1>2, <3>1 DEF Admit, Room, TypeOK
    <3>2. CASE x = a
      <4>1. Cardinality(Unattached(OwnerOf[a])) < Quota /\ IsFiniteSet(Unattached(OwnerOf[a]))
        <5>1. Unattached(OwnerOf[a]) \subseteq Asset
          BY DEF Unattached, Stored
        <5>2. IsFiniteSet(Unattached(OwnerOf[a])) /\ Cardinality(Unattached(OwnerOf[a])) \in Nat
          BY <5>1, FS_Subset, FS_CardinalityType
        <5>3. QED
          BY <1>2, <3>2, <5>2 DEF Admit, TypeOK
      <4>2. Fresh(OwnerOf[a]) \subseteq Unattached(OwnerOf[a])
        BY <1>r DEF Fresh, Unattached, Stored
      <4>3. Cardinality(Fresh(OwnerOf[a])) <= Cardinality(Unattached(OwnerOf[a]))
           /\ Cardinality(Unattached(OwnerOf[a])) \in Nat /\ Cardinality(Fresh(OwnerOf[a])) \in Nat
        BY <4>1, <4>2, FS_Subset, FS_CardinalityType
      <4>4. QED
        BY <4>1, <4>3, <3>2
    <3>3. QED
      BY <3>1, <3>2
  <2>5. QED
    BY <2>1, <2>2, <2>3, <2>4 DEF Room
<1>3. ASSUME NEW a \in Asset, Store(a) PROVE Room'
  <2>1. /\ \A v \in User : v # OwnerOf[a] => Fresh(v)' = Fresh(v)
        /\ Fresh(OwnerOf[a])' \subseteq Fresh(OwnerOf[a]) \cup {a}
    BY <1>3 DEF Store, Fresh, Stored, TypeOK
  <2>2. \A x \in Asset : Referred(x)' => x \in used'
    BY <1>3, <1>r DEF Store, Referred, TypeOK
  <2>3. \A x, y \in Asset : (Uploading(x)' /\ Uploading(y)' /\ OwnerOf[x] = OwnerOf[y]) => x = y
    BY <1>3 DEF Store, Uploading, Room, TypeOK
  <2>4. \A x \in Asset : asset'[x] = "admitted" => asset[x] = "admitted" /\ OwnerOf[x] # OwnerOf[a]
    BY <1>3 DEF Store, Uploading, Room, TypeOK
  <2>5. Cardinality(Fresh(OwnerOf[a])') <= Quota
    <3>1. Cardinality(Fresh(OwnerOf[a])) < Quota /\ OwnerOf[a] \in User
      BY <1>3 DEF Store, Room
    <3>5. IsFiniteSet(Fresh(OwnerOf[a])) /\ Cardinality(Fresh(OwnerOf[a])) \in Nat
      BY <3>1, FreshFinite
    <3>6. a \notin Fresh(OwnerOf[a])
      BY <1>3 DEF Store, Fresh, Stored
    <3>2. /\ IsFiniteSet(Fresh(OwnerOf[a]) \cup {a})
          /\ Cardinality(Fresh(OwnerOf[a]) \cup {a}) = Cardinality(Fresh(OwnerOf[a])) + 1
      BY <3>5, <3>6, FS_AddElement, Zenon
    <3>3. /\ Cardinality(Fresh(OwnerOf[a])') <= Cardinality(Fresh(OwnerOf[a]) \cup {a})
          /\ Cardinality(Fresh(OwnerOf[a])') \in Nat /\ Cardinality(Fresh(OwnerOf[a]) \cup {a}) \in Nat
      BY <2>1, <3>2, FS_Subset, FS_CardinalityType
    <3>4. QED
      BY <3>1, <3>2, <3>3, <3>5, MediaAssumption
  <2>6. \A x \in Asset : asset'[x] = "admitted" => Cardinality(Fresh(OwnerOf[x]))' < Quota
    BY <2>1, <2>4 DEF Room
  <2>7. \A v \in User : Cardinality(Fresh(v))' <= Quota
    BY <2>1, <2>5 DEF Room
  <2>8. QED
    BY <2>2, <2>3, <2>6, <2>7 DEF Room
<1>4. ASSUME NEW a \in Asset, Abort(a) PROVE Room'
  <2>1. Stored' \subseteq Stored /\ used \subseteq used'
    BY <1>4 DEF Abort, Uploading, Stored, TypeOK
  <2>2. \A x \in Asset : Referred(x)' => x \in used'
    BY <1>4, <1>r DEF Abort, Uploading, Referred, TypeOK
  <2>3. \A x \in Asset : Uploading(x)' => asset'[x] = asset[x]
    BY <1>4 DEF Abort, Uploading, Uploading, TypeOK
  <2>4. QED
    BY <2>1, <2>2, <2>3, RoomShrinks
<1>5. ASSUME NEW a \in Asset, Age(a) PROVE Room'
  <2>1. Stored' \subseteq Stored /\ used \subseteq used'
    BY <1>5 DEF Age, Stored, TypeOK
  <2>2. \A x \in Asset : Referred(x)' => x \in used'
    BY <1>5, <1>r DEF Age, Referred, TypeOK
  <2>3. \A x \in Asset : Uploading(x)' => asset'[x] = asset[x]
    BY <1>5 DEF Age, Uploading, TypeOK
  <2>4. QED
    BY <2>1, <2>2, <2>3, RoomShrinks
<1>6. ASSUME NEW a \in Asset, DeleteStart(a) PROVE Room'
  <2>1. Stored' \subseteq Stored /\ used \subseteq used'
    BY <1>6 DEF DeleteStart, Stored, TypeOK
  <2>2. \A x \in Asset : Referred(x)' => x \in used'
    BY <1>6, <1>r DEF DeleteStart, Referred, TypeOK
  <2>3. \A x \in Asset : Uploading(x)' => asset'[x] = asset[x]
    BY <1>6 DEF DeleteStart, Uploading, TypeOK
  <2>4. QED
    BY <2>1, <2>2, <2>3, RoomShrinks
<1>7. ASSUME NEW a \in Asset, DeleteEnd(a) PROVE Room'
  <2>1. Stored' \subseteq Stored /\ used \subseteq used'
    BY <1>7 DEF DeleteEnd, Remove, Stored, TypeOK
  <2>2. \A x \in Asset : Referred(x)' => x \in used'
    BY <1>7, <1>r DEF DeleteEnd, Remove, Referred, TypeOK
  <2>3. \A x \in Asset : Uploading(x)' => asset'[x] = asset[x]
    BY <1>7 DEF DeleteEnd, Remove, Uploading, TypeOK
  <2>4. QED
    BY <2>1, <2>2, <2>3, RoomShrinks
<1>8. ASSUME NEW p \in Post, NEW S \in SUBSET Asset, Check(p, S) PROVE Room'
  <2>1. Stored' \subseteq Stored /\ used \subseteq used'
    BY <1>8 DEF Check, Stored, TypeOK
  <2>2. \A x \in Asset : Referred(x)' => x \in used'
    BY <1>8, <1>r DEF Check, Referred, TypeOK
  <2>3. \A x \in Asset : Uploading(x)' => asset'[x] = asset[x]
    BY <1>8 DEF Check, Uploading, TypeOK
  <2>4. QED
    BY <2>1, <2>2, <2>3, RoomShrinks
<1>9. ASSUME NEW p \in Post, NEW a \in Asset, Attach(p, a) PROVE Room'
  <2>1. Stored' \subseteq Stored /\ used \subseteq used'
    BY <1>9 DEF Attach, Stored, TypeOK
  <2>2. \A x \in Asset : Referred(x)' => x \in used'
    BY <1>9, <1>r DEF Attach, Referred, TypeOK
  <2>3. \A x \in Asset : Uploading(x)' => asset'[x] = asset[x]
    BY <1>9 DEF Attach, Uploading, TypeOK
  <2>4. QED
    BY <2>1, <2>2, <2>3, RoomShrinks
<1>10. ASSUME NEW p \in Post, NEW a \in Asset, AttachFails(p, a) PROVE Room'
  <2>1. Stored' \subseteq Stored /\ used \subseteq used'
    BY <1>10 DEF AttachFails, Unwrite, Stored, TypeOK
  <2>2. \A x \in Asset : Referred(x)' => x \in used'
    BY <1>10, <1>r DEF AttachFails, Unwrite, Referred, TypeOK
  <2>3. \A x \in Asset : Uploading(x)' => asset'[x] = asset[x]
    BY <1>10 DEF AttachFails, Unwrite, Uploading, TypeOK
  <2>4. QED
    BY <2>1, <2>2, <2>3, RoomShrinks
<1>11. ASSUME NEW p \in Post, CommitPost(p) PROVE Room'
  <2>1. Stored' \subseteq Stored /\ used \subseteq used'
    BY <1>11 DEF CommitPost, Stored, TypeOK
  <2>2. \A x \in Asset : Referred(x)' => x \in used'
    BY <1>11, <1>r DEF CommitPost, Referred, TypeOK
  <2>3. \A x \in Asset : Uploading(x)' => asset'[x] = asset[x]
    BY <1>11 DEF CommitPost, Uploading, TypeOK
  <2>4. QED
    BY <2>1, <2>2, <2>3, RoomShrinks
<1>12. ASSUME NEW p \in Post, Rollback(p) PROVE Room'
  <2>1. Stored' \subseteq Stored /\ used \subseteq used'
    BY <1>12 DEF Rollback, Unwrite, Stored, TypeOK
  <2>2. \A x \in Asset : Referred(x)' => x \in used'
    BY <1>12, <1>r DEF Rollback, Unwrite, Referred, TypeOK
  <2>3. \A x \in Asset : Uploading(x)' => asset'[x] = asset[x]
    BY <1>12 DEF Rollback, Unwrite, Uploading, TypeOK
  <2>4. QED
    BY <2>1, <2>2, <2>3, RoomShrinks
<1>13. ASSUME NEW p \in Post, Detach(p) PROVE Room'
  <2>1. Stored' \subseteq Stored /\ used \subseteq used'
    BY <1>13 DEF Detach, Stored, TypeOK
  <2>2. \A x \in Asset : Referred(x)' => x \in used'
    BY <1>13, <1>r DEF Detach, Referred, TypeOK
  <2>3. \A x \in Asset : Uploading(x)' => asset'[x] = asset[x]
    BY <1>13 DEF Detach, Uploading, TypeOK
  <2>4. QED
    BY <2>1, <2>2, <2>3, RoomShrinks
<1>14. ASSUME NEW u \in User, NEW a \in Asset, Pick(u, a) PROVE Room'
  <2>1. Stored' \subseteq Stored /\ used \subseteq used'
    BY <1>14 DEF Pick, Stored, TypeOK
  <2>2. \A x \in Asset : Referred(x)' => x \in used'
    BY <1>14, <1>r DEF Pick, Referred, TypeOK
  <2>3. \A x \in Asset : Uploading(x)' => asset'[x] = asset[x]
    BY <1>14 DEF Pick, Uploading, TypeOK
  <2>4. QED
    BY <2>1, <2>2, <2>3, RoomShrinks
<1>15. ASSUME NEW u \in User, SetAvatar(u) PROVE Room'
  <2>1. Stored' \subseteq Stored /\ used \subseteq used'
    BY <1>15 DEF SetAvatar, Stored, TypeOK
  <2>2. \A x \in Asset : Referred(x)' => x \in used'
    BY <1>15, <1>r DEF SetAvatar, Referred, TypeOK
  <2>3. \A x \in Asset : Uploading(x)' => asset'[x] = asset[x]
    BY <1>15 DEF SetAvatar, Uploading, TypeOK
  <2>4. QED
    BY <2>1, <2>2, <2>3, RoomShrinks
<1>16. ASSUME NEW u \in User, ClearAvatar(u) PROVE Room'
  <2>1. Stored' \subseteq Stored /\ used \subseteq used'
    BY <1>16 DEF ClearAvatar, Stored, TypeOK
  <2>2. \A x \in Asset : Referred(x)' => x \in used'
    BY <1>16, <1>r DEF ClearAvatar, Referred, TypeOK
  <2>3. \A x \in Asset : Uploading(x)' => asset'[x] = asset[x]
    BY <1>16 DEF ClearAvatar, Uploading, TypeOK
  <2>4. QED
    BY <2>1, <2>2, <2>3, RoomShrinks
<1>17. ASSUME NEW i \in Instance, SweepStart(i) PROVE Room'
  <2>1. Stored' \subseteq Stored /\ used \subseteq used'
    BY <1>17 DEF SweepStart, Stored, TypeOK
  <2>2. \A x \in Asset : Referred(x)' => x \in used'
    BY <1>17, <1>r DEF SweepStart, Referred, TypeOK
  <2>3. \A x \in Asset : Uploading(x)' => asset'[x] = asset[x]
    BY <1>17 DEF SweepStart, Uploading, TypeOK
  <2>4. QED
    BY <2>1, <2>2, <2>3, RoomShrinks
<1>18. ASSUME NEW i \in Instance, SweepDelete(i) PROVE Room'
  <2>1. Stored' \subseteq Stored /\ used \subseteq used'
    BY <1>18 DEF SweepDelete, Remove, Stored, TypeOK
  <2>2. \A x \in Asset : Referred(x)' => x \in used'
    BY <1>18, <1>r DEF SweepDelete, Remove, Referred, TypeOK
  <2>3. \A x \in Asset : Uploading(x)' => asset'[x] = asset[x]
    BY <1>18 DEF SweepDelete, Remove, Uploading, TypeOK
  <2>4. QED
    BY <2>1, <2>2, <2>3, RoomShrinks
<1>19. ASSUME NEW i \in Instance, SweepFails(i) PROVE Room'
  <2>1. Stored' \subseteq Stored /\ used \subseteq used'
    BY <1>19 DEF SweepFails, Stored, TypeOK
  <2>2. \A x \in Asset : Referred(x)' => x \in used'
    BY <1>19, <1>r DEF SweepFails, Referred, TypeOK
  <2>3. \A x \in Asset : Uploading(x)' => asset'[x] = asset[x]
    BY <1>19 DEF SweepFails, Uploading, TypeOK
  <2>4. QED
    BY <2>1, <2>2, <2>3, RoomShrinks
<1>20. ASSUME NEW i \in Instance, NEW a \in Asset, SweepTake(i, a) PROVE Room'
  <2>1. Stored' \subseteq Stored /\ used \subseteq used'
    BY <1>20 DEF SweepTake, Stored, TypeOK
  <2>2. \A x \in Asset : Referred(x)' => x \in used'
    BY <1>20, <1>r DEF SweepTake, Referred, TypeOK
  <2>3. \A x \in Asset : Uploading(x)' => asset'[x] = asset[x]
    BY <1>20 DEF SweepTake, Uploading, TypeOK
  <2>4. QED
    BY <2>1, <2>2, <2>3, RoomShrinks
<1>21. CASE UNCHANGED vars
  BY <1>21 DEF vars, Room, Referred, Uploading, Fresh, Stored
<1>22. QED
  BY <1>1, <1>2, <1>3, <1>4, <1>5, <1>6, <1>7, <1>8, <1>9, <1>10, <1>11, <1>12, <1>13, <1>14,
     <1>15, <1>16, <1>17, <1>18, <1>19, <1>20, <1>21
     DEF Next, Upload, WritePost, Profile, DeleteOrphans

(* QuotaHolds, for every quota and every number of users and uploads.      *)
THEOREM QuotaIsKept == Spec => []QuotaHolds
<1>1. Init => Room
  <2> SUFFICES ASSUME Init PROVE Room
    OBVIOUS
  <2>1. \A u \in User : Fresh(u) = {}
    BY DEF Init, Fresh, Stored
  <2>2. QED
    BY <2>1, FS_EmptySet, MediaAssumption DEF Init, Room, Referred, Uploading
<1>2. Room => QuotaHolds
  BY DEF Room, QuotaHolds, Fresh
<1>3. QED
  BY <1>1, <1>2, RoomStep, TypeCorrect, PTL DEF Spec
=============================================================================
