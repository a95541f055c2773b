---------------------------- MODULE PartyProofs ----------------------------
(* Proofs about Party, Channels and Conditions, for any number of players   *)
(* and any conditions.                                                      *)
(*                                                                          *)
(* Party: PartyInv, types and PartiesSound with Led (the leader of a party  *)
(* is a player of it), is inductive.  The operators of the party class come *)
(* first, on one party and without the state (UpdatedFacts, PassedFacts,    *)
(* LeftFacts, UninvitedFacts); an action then replaces one party by what    *)
(* such an operator makes of it, and FollowKeeps and SamePeopleKeeps carry  *)
(* the pointers of the players over.                                        *)
(*                                                                          *)
(* Channels: ChatInv, types and the three parts of MembersSound, is         *)
(* inductive, with one lemma for each part.                                 *)
(*                                                                          *)
(* Conditions: a player is Good when its effects are what its list and its  *)
(* equipment give (Exact), the ring's condition is listed while it is worn  *)
(* (RingKept) and a death is due without health (Due).  Every operator      *)
(* takes a good player to a good one, and so does every loop over the list: *)
(* what a loop does is a trace of its steps (StepTraced).  The worth of a   *)
(* list is a trace too (WorthTraced), which says what adding, replacing and *)
(* removing one condition does to it.                                       *)
EXTENDS Party, Channels, Conditions, QueueLemmas

-----------------------------------------------------------------------------
(* Parties.                                                                 *)

(* std::find and erase: the one place of p is gone, the rest stays in order.*)
LEMMA WithoutFirstFacts ==
    ASSUME NEW s \in Seq(Players), NEW p, IsInjective(s)
    PROVE  /\ WithoutFirst(s, p) \in Seq(Players)
           /\ IsInjective(WithoutFirst(s, p))
           /\ ToSet(WithoutFirst(s, p)) = ToSet(s) \ {p}
<1>1. CASE p \notin ToSet(s)
    BY <1>1 DEF WithoutFirst
<1>2. CASE p \in ToSet(s)
  <2> DEFINE at == CHOOSE i \in DOMAIN s : s[i] = p /\ \A j \in 1..i - 1 : s[j] # p
             t == RemoveAt(s, at)
             n == Len(s)
  <2>1. n \in Nat /\ DOMAIN s = 1..n /\ \A i \in 1..n : s[i] \in Players
    OBVIOUS
  <2>2. at \in 1..n /\ s[at] = p
    <3>1. PICK i \in 1..n : s[i] = p
      BY <1>2, <2>1 DEF ToSet
    <3>2. \A j \in 1..i - 1 : s[j] # p
      BY <2>1, <3>1 DEF IsInjective
    <3>3. QED
      BY <2>1, <3>1, <3>2
  <2> HIDE DEF at, n
  <2>3. /\ t \in Seq(Players) /\ Len(t) = n - 1
        /\ \A i \in 1..n - 1 : t[i] = IF i < at THEN s[i] ELSE s[i + 1]
    <3> DEFINE l == SubSeq(s, 1, at - 1)  r == SubSeq(s, at + 1, n)
    <3>1. /\ l \in Seq(Players) /\ Len(l) = at - 1
          /\ \A i \in 1..at - 1 : l[i] = s[i]
      BY <2>1, <2>2
    <3>2. /\ r \in Seq(Players) /\ Len(r) = n - at
          /\ \A i \in 1..n - at : r[i] = s[i + at]
      BY <2>1, <2>2
    <3>3. t = l \o r
      BY DEF RemoveAt, n
    <3> HIDE DEF l, r, t
    <3>4. t \in Seq(Players) /\ Len(t) = n - 1
      <4> l \in Seq(Players) /\ r \in Seq(Players)
        BY <3>1, <3>2
      <4>1. l \o r \in Seq(Players) /\ Len(l \o r) = Len(l) + Len(r)
        OBVIOUS
      <4>2. Len(l) + Len(r) = n - 1
        BY <3>1, <3>2, <2>1, <2>2
      <4>3. QED
        BY <4>1, <4>2, <3>3
    <3>5. ASSUME NEW i \in 1..n - 1 PROVE t[i] = IF i < at THEN s[i] ELSE s[i + 1]
      <4>1. CASE i < at
        BY <3>1, <3>2, <3>3, <4>1, <2>1, <2>2
      <4>2. CASE ~(i < at)
        <5>1. t[i] = r[i - (at - 1)]
          BY <3>1, <3>2, <3>3, <4>2, <2>1, <2>2
        <5>2. i - (at - 1) \in 1..n - at /\ i - (at - 1) + at = i + 1
          BY <4>2, <2>1, <2>2
        <5>3. QED
          BY <3>2, <4>2, <5>1, <5>2
      <4>3. QED
        BY <4>1, <4>2
    <3>6. QED
      BY <3>4, <3>5
  <2>4. WithoutFirst(s, p) = t
    BY <1>2 DEF WithoutFirst, at
  <2> HIDE DEF t
  <2>5. DOMAIN t = 1..n - 1
    BY <2>1, <2>3
  <2>6. IsInjective(t)
    <3>1. ASSUME NEW i \in 1..n - 1, NEW j \in 1..n - 1, t[i] = t[j] PROVE i = j
      <4> DEFINE k == IF i < at THEN i ELSE i + 1
                 m == IF j < at THEN j ELSE j + 1
      <4>1. k \in 1..n /\ m \in 1..n /\ t[i] = s[k] /\ t[j] = s[m]
        BY <2>1, <2>2, <2>3
      <4>2. k = m
        BY <3>1, <4>1, <2>1 DEF IsInjective
      <4>3. QED
        BY <4>2, <2>2
    <3>2. QED
      BY <3>1, <2>5 DEF IsInjective
  <2>7. ASSUME NEW e \in ToSet(t) PROVE e \in ToSet(s) \ {p}
    <3>1. PICK i \in 1..n - 1 : t[i] = e
      BY <2>5 DEF ToSet
    <3>2. PICK j \in 1..n : j # at /\ s[j] = e
      BY <3>1, <2>1, <2>2, <2>3
    <3>3. e # p
      BY <3>2, <2>1, <2>2 DEF IsInjective
    <3>4. QED
      BY <3>2, <3>3, <2>1 DEF ToSet
  <2>8. ASSUME NEW e \in ToSet(s) \ {p} PROVE e \in ToSet(t)
    <3>1. PICK j \in 1..n : s[j] = e
      BY <2>1 DEF ToSet
    <3>2. j # at
      BY <2>2, <3>1
    <3>3. PICK i \in 1..n - 1 : t[i] = e
      <4>1. CASE j < at
        BY <3>1, <4>1, <2>1, <2>2, <2>3
      <4>2. CASE j > at
        <5>1. j - 1 \in 1..n - 1 /\ ~(j - 1 < at) /\ (j - 1) + 1 = j
          BY <4>2, <2>1, <2>2
        <5>2. t[j - 1] = e
          BY <3>1, <5>1, <2>3
        <5>3. QED
          BY <5>1, <5>2
      <4>3. QED
        BY <3>2, <4>1, <4>2, <2>1, <2>2
    <3>4. QED
      BY <3>3, <2>5 DEF ToSet
  <2>9. QED
    BY <2>3, <2>4, <2>6, <2>7, <2>8
<1>3. QED
    BY <1>1, <1>2

-----------------------------------------------------------------------------
(* What the invariant asks of one party: a list of its own people, each     *)
(* once, and a leader; and sharing is on whenever it can be.                *)
Formed(g) ==
    /\ IsInjective(g.memberList) /\ g.leader \notin ToSet(g.memberList)
    /\ g.live => g.leader \in Players
Awake(g, lv, rm) == g.live /\ g.active /\ CanEnable(g, lv, rm) => g.enabled

(* Who is in a party, and who is invited.                                   *)
SamePeople(g, h) ==
    /\ h.leader = g.leader /\ h.memberList = g.memberList
    /\ h.inviteList = g.inviteList /\ h.live = g.live

(* canEnableSharedExperience looks at nothing but people and fights.        *)
LEMMA SameCanEnable ==
    ASSUME NEW g, NEW h, NEW lv, NEW rm, h.leader = g.leader, h.memberList = g.memberList,
           h.ticks = g.ticks
    PROVE  CanEnable(h, lv, rm) <=> CanEnable(g, lv, rm)
BY DEF CanEnable, CanUse, All

(* updateSharedExperience.                                                  *)
LEMMA UpdatedFacts ==
    ASSUME NEW g \in Groups, NEW lv, NEW rm
    PROVE  LET h == UpdatedIn(g, lv, rm)
           IN  /\ h \in Groups /\ SamePeople(g, h) /\ h.active = g.active /\ h.ticks = g.ticks
               /\ Awake(h, lv, rm)
<1> DEFINE h == UpdatedIn(g, lv, rm)
<1>1. CASE ~g.active
    BY <1>1 DEF UpdatedIn, SamePeople, Awake
<1>2. CASE g.active
  <2>1. PICK b \in BOOLEAN : b <=> CanEnable(g, lv, rm)
    OBVIOUS
  <2>2. h = [g EXCEPT !.enabled = b]
    <3>1. CanEnable(g, lv, rm) \in BOOLEAN
      BY DEF CanEnable
    <3>2. b = CanEnable(g, lv, rm)
      BY <2>1, <3>1
    <3>3. QED
      BY <1>2, <3>2 DEF UpdatedIn
  <2> HIDE DEF h
  <2>3. /\ h \in Groups /\ SamePeople(g, h) /\ h.active = g.active /\ h.ticks = g.ticks
        /\ h.enabled = b
    BY <2>1, <2>2 DEF Groups, SamePeople
  <2>4. CanEnable(h, lv, rm) <=> CanEnable(g, lv, rm)
    BY <2>3, SameCanEnable DEF SamePeople
  <2>5. Awake(h, lv, rm)
    BY <2>1, <2>3, <2>4 DEF Awake
  <2>6. QED
    BY <2>3, <2>5 DEF h
<1>3. QED
    BY <1>1, <1>2

(* clearPlayerPoints.                                                       *)
LEMMA ClearedFacts ==
    ASSUME NEW g \in Groups, NEW p, Awake(g, level, room)
    PROVE  LET h == Cleared(g, p)
           IN  h \in Groups /\ SamePeople(g, h) /\ Awake(h, level, room)
<1>1. CASE p \notin g.ticks
    BY <1>1 DEF Cleared, SamePeople
<1>2. CASE p \in g.ticks
  <2> DEFINE d == [g EXCEPT !.ticks = @ \ {p}]
  <2>1. d \in Groups /\ SamePeople(g, d)
    BY DEF Groups, SamePeople
  <2>2. Cleared(g, p) = UpdatedIn(d, level, room)
    BY <1>2 DEF Cleared, Updated
  <2> HIDE DEF d
  <2>3. QED
    BY <2>1, <2>2, UpdatedFacts DEF SamePeople
<1>3. QED
    BY <1>1, <1>2

(* passPartyLeadership, to one of the members.                              *)
LEMMA PassedFacts ==
    ASSUME NEW g \in Groups, Formed(g), g.leader \in Players, NEW q \in ToSet(g.memberList)
    PROVE  LET h == Passed(g, q)
           IN  /\ h \in Groups /\ Formed(h) /\ Awake(h, level, room)
               /\ All(h) = All(g) /\ h.leader = q
               /\ h.inviteList = g.inviteList /\ h.live = g.live /\ h.memberList # <<>>
<1> DEFINE w == WithoutFirst(g.memberList, q)
           l == <<g.leader>> \o w
           d == [g EXCEPT !.leader = q, !.memberList = l]
<1>1. /\ g.memberList \in Seq(Players) /\ IsInjective(g.memberList)
      /\ g.leader \notin ToSet(g.memberList)
    BY DEF Groups, Formed
<1>2. w \in Seq(Players) /\ IsInjective(w) /\ ToSet(w) = ToSet(g.memberList) \ {q}
    BY <1>1, WithoutFirstFacts
<1>3. q \in Players
    BY <1>1 DEF ToSet
<1> HIDE DEF w
<1>4. l \in Seq(Players) /\ IsInjective(l) /\ ToSet(l) = ToSet(w) \cup {g.leader}
      /\ l # <<>>
    BY <1>1, <1>2, FrontElems
<1> HIDE DEF l
<1>5. /\ d \in Groups /\ d.leader = q /\ d.memberList = l
      /\ d.inviteList = g.inviteList /\ d.live = g.live
    BY <1>3, <1>4 DEF Groups
<1>6. Passed(g, q) = UpdatedIn(d, level, room)
    BY DEF Passed, Updated, d, l, w
<1> HIDE DEF d
<1> DEFINE h == UpdatedIn(d, level, room)
<1>7. h \in Groups /\ SamePeople(d, h) /\ Awake(h, level, room)
    BY <1>5, UpdatedFacts
<1> HIDE DEF h
<1>8. Formed(h)
    BY <1>1, <1>2, <1>3, <1>4, <1>5, <1>7 DEF Formed, SamePeople
<1>9. All(h) = All(g)
    BY <1>1, <1>2, <1>4, <1>5, <1>7 DEF All, SamePeople
<1>10. QED
    BY <1>4, <1>5, <1>6, <1>7, <1>8, <1>9 DEF SamePeople, h

(* leaveParty: who leaves is out, and of a party that ends everybody is     *)
(* still in its lists.                                                      *)
LEMMA LeftFacts ==
    ASSUME NEW g \in Groups, Formed(g), NEW p \in Players, p \in All(g), g.live
    PROVE  LET h == Left(g, p)
           IN  /\ h \in Groups /\ Formed(h) /\ h.inviteList = g.inviteList
               /\ h.live => ~Empty(h) /\ Awake(h, level, room) /\ p \notin All(h)
               /\ All(h) \cup {p} = All(g)
<1> DEFINE lonely == /\ g.leader = p
                     /\ \/ g.memberList = <<>>
                        \/ Len(g.memberList) = 1 /\ g.inviteList = {}
           passed == IF g.leader = p /\ ~lonely THEN Passed(g, Head(g.memberList)) ELSE g
           l == WithoutFirst(passed.memberList, p)
           out == [passed EXCEPT !.memberList = l]
           upd == UpdatedIn(out, level, room)
           c == Cleared(upd, p)
           alive == ~(lonely \/ Empty(c))
           h == [c EXCEPT !.live = alive]
<1>1. /\ g.memberList \in Seq(Players) /\ IsInjective(g.memberList)
      /\ g.leader \notin ToSet(g.memberList)
    BY DEF Groups, Formed
<1>2. /\ passed \in Groups /\ Formed(passed) /\ All(passed) = All(g)
      /\ passed.inviteList = g.inviteList /\ passed.live
      /\ passed.leader = p => lonely
  <2>1. CASE g.leader = p /\ ~lonely
    <3>1. g.memberList # <<>>
      BY <2>1
    <3>2. Head(g.memberList) \in ToSet(g.memberList)
      BY <1>1, <3>1, PopElems
    <3>3. Head(g.memberList) # p
      BY <1>1, <2>1, <3>2
    <3>4. passed = Passed(g, Head(g.memberList))
      BY <2>1
    <3>5. QED
      BY <3>2, <3>3, <3>4, PassedFacts
  <2>2. CASE ~(g.leader = p /\ ~lonely)
    BY <2>2
  <2>3. QED
    BY <2>1, <2>2
<1> HIDE DEF lonely, passed
<1>3. /\ l \in Seq(Players) /\ IsInjective(l) /\ ToSet(l) = ToSet(passed.memberList) \ {p}
    BY <1>2, WithoutFirstFacts DEF Groups, Formed
<1> HIDE DEF l
<1>4. /\ out \in Groups /\ out.leader = passed.leader /\ out.memberList = l
      /\ out.inviteList = g.inviteList /\ out.live
    BY <1>2, <1>3 DEF Groups
<1> HIDE DEF out
<1>5. upd \in Groups /\ SamePeople(out, upd) /\ Awake(upd, level, room)
    BY <1>4, UpdatedFacts
<1> HIDE DEF upd
<1>6. c \in Groups /\ SamePeople(upd, c) /\ Awake(c, level, room)
    BY <1>5, ClearedFacts
<1> HIDE DEF c
<1>7. /\ c.leader = passed.leader /\ c.memberList = l /\ c.inviteList = g.inviteList /\ c.live
    BY <1>4, <1>5, <1>6 DEF SamePeople
<1>8. alive \in BOOLEAN
    OBVIOUS
<1> HIDE DEF alive
<1>9. /\ h \in Groups /\ h.leader = c.leader /\ h.memberList = c.memberList
      /\ h.inviteList = c.inviteList /\ h.live = alive
      /\ h.active = c.active /\ h.enabled = c.enabled /\ h.ticks = c.ticks
    BY <1>6, <1>8 DEF Groups
<1>10. Left(g, p) = h
    BY DEF Left, Updated, lonely, passed, l, out, upd, c, alive
<1> HIDE DEF h
<1>11. Formed(h)
    BY <1>2, <1>3, <1>7, <1>9 DEF Formed
<1>12. All(h) \cup {p} = All(g)
    BY <1>2, <1>3, <1>7, <1>9 DEF All
<1>13. ASSUME h.live PROVE ~Empty(h) /\ Awake(h, level, room) /\ p \notin All(h)
  <2>1. ~lonely /\ ~Empty(c)
    BY <1>9, <1>13 DEF alive
  <2>2. ~Empty(h)
    BY <1>9, <2>1 DEF Empty
  <2>3. CanEnable(h, level, room) <=> CanEnable(c, level, room)
    BY <1>9, SameCanEnable
  <2>4. Awake(h, level, room)
    BY <1>6, <1>7, <1>9, <2>3 DEF Awake
  <2>5. p \notin All(h)
    BY <1>2, <1>3, <1>7, <1>9, <2>1 DEF All
  <2>6. QED
    BY <2>2, <2>4, <2>5
<1>14. QED
    BY <1>7, <1>9, <1>10, <1>11, <1>12, <1>13

(* removeInvite.                                                            *)
LEMMA UninvitedFacts ==
    ASSUME NEW g \in Groups, Formed(g), g.live, ~Empty(g), Awake(g, level, room), NEW p
    PROVE  LET h == Uninvited(g, p)
           IN  /\ h \in Groups /\ Formed(h) /\ All(h) = All(g) /\ h.leader = g.leader
               /\ h.inviteList = g.inviteList \ {p}
               /\ h.live => ~Empty(h) /\ Awake(h, level, room)
<1>1. CASE p \notin g.inviteList
    BY <1>1 DEF Uninvited
<1>2. CASE p \in g.inviteList
  <2> DEFINE d == [g EXCEPT !.inviteList = @ \ {p}]
             alive == ~Empty(d)
             h == [d EXCEPT !.live = alive]
  <2>1. /\ d \in Groups /\ d.leader = g.leader /\ d.memberList = g.memberList
        /\ d.inviteList = g.inviteList \ {p} /\ d.live = g.live
        /\ d.active = g.active /\ d.enabled = g.enabled /\ d.ticks = g.ticks
    BY DEF Groups
  <2>2. alive \in BOOLEAN /\ h = Uninvited(g, p)
    BY <1>2 DEF Uninvited
  <2> HIDE DEF d, alive
  <2>3. /\ h \in Groups /\ h.leader = g.leader /\ h.memberList = g.memberList
        /\ h.inviteList = g.inviteList \ {p} /\ h.live = alive
        /\ h.active = g.active /\ h.enabled = g.enabled /\ h.ticks = g.ticks
    BY <2>1, <2>2 DEF Groups
  <2> HIDE DEF h
  <2>4. CanEnable(h, level, room) <=> CanEnable(g, level, room)
    BY <2>3, SameCanEnable
  <2>5. Awake(h, level, room) /\ Formed(h) /\ All(h) = All(g)
    BY <2>3, <2>4 DEF Awake, Formed, All
  <2>6. h.live => ~Empty(h)
    BY <2>1, <2>3 DEF alive, Empty
  <2>7. QED
    BY <2>2, <2>3, <2>5, <2>6
<1>3. QED
    BY <1>1, <1>2

-----------------------------------------------------------------------------
(* The invariant, party by party.                                           *)
LEMMA PartyInvParts ==
    PartyInv <=> /\ TypeOK
                 /\ \A k \in Parties :
                      /\ Formed(parties[k]) /\ Awake(parties[k], level, room)
                      /\ parties[k].live => ~Empty(parties[k])
                      /\ \A p \in Players :
                           /\ party[p] = k <=> parties[k].live /\ p \in All(parties[k])
                           /\ k \in invitePartyList[p] <=> parties[k].live /\ p \in parties[k].inviteList
                           /\ k \in invitePartyList[p] => party[p] # k
                 /\ OfflineInNone
BY DEF PartyInv, PartiesSound, PartyIsMutual, InvitationsMutual, NobodyAlone, SharingNotWithheld,
       Led, Formed, Awake

(* The same of the next state, from what the next state is.                 *)
LEMMA PartyInvNext ==
    ASSUME TypeOK', OfflineInNone',
           \A k \in Parties :
              /\ Formed(parties'[k]) /\ Awake(parties'[k], level', room')
              /\ parties'[k].live => ~Empty(parties'[k])
              /\ \A p \in Players :
                   /\ party'[p] = k <=> parties'[k].live /\ p \in All(parties'[k])
                   /\ k \in invitePartyList'[p] <=> parties'[k].live /\ p \in parties'[k].inviteList
                   /\ k \in invitePartyList'[p] => party'[p] # k
    PROVE  PartyInv'
BY DEF PartyInv, PartiesSound, PartyIsMutual, InvitationsMutual, NobodyAlone, SharingNotWithheld,
       Led, Formed, Awake

(* Before anybody plays there is no party.                                  *)
LEMMA PartyInitInv == Init => PartyInv
<1> SUFFICES ASSUME Init PROVE PartyInv
    OBVIOUS
<1>1. Nobody \in Groups /\ Formed(Nobody) /\ ~Nobody.live /\ Awake(Nobody, level, room)
  <2>1. <<>> \in Seq(Players) /\ IsInjective(<<>>) /\ ToSet(<<>>) = {}
    BY DEF IsInjective, ToSet
  <2>2. QED
    BY <2>1 DEF Nobody, Groups, Formed, Awake
<1>2. TypeOK /\ OfflineInNone
    BY <1>1 DEF Init, TypeOK, OfflineInNone
<1>3. \A k \in Parties : parties[k] = Nobody
    BY DEF Init
<1>4. \A k \in Parties, p \in Players : party[p] # k /\ k \notin invitePartyList[p]
    BY PartyAssumption DEF Init
<1>5. QED
    BY <1>1, <1>2, <1>3, <1>4, PartyInvParts

(* What operations on parties come to, when Follow makes of it what it does *)
(* for those who leave and for parties that end.                            *)
LEMMA FollowKeeps ==
    ASSUME PartyInv,
           NEW after \in [Parties -> Groups],
           NEW leavers \in SUBSET Players,
           NEW lists \in [Players -> SUBSET Parties],
           UNCHANGED worldVars,
           \A k \in Parties :
              /\ Formed(after[k]) /\ Awake(after[k], level, room)
              /\ after[k].live => parties[k].live /\ ~Empty(after[k])
              /\ after[k].live => All(after[k]) = All(parties[k]) \ leavers
              /\ parties[k].live => All(after[k]) \subseteq All(parties[k])
                                    /\ All(parties[k]) \subseteq All(after[k]) \cup leavers
              /\ \A p \in Players : /\ k \in lists[p] => k \in invitePartyList[p]
                                    /\ k \in lists[p] <=> parties[k].live /\ p \in after[k].inviteList,
           Follow(after, leavers, lists),
           online' \subseteq Players,
           \A p \in Players \ online' : p \in Players \ online \/ (p \in leavers /\ lists[p] = {})
    PROVE  PartyInv'
<1> DEFINE ended == {k \in Parties : parties[k].live /\ ~after[k].live}
<1>1. /\ TypeOK /\ OfflineInNone
      /\ \A k \in Parties :
           /\ parties[k].live => ~Empty(parties[k])
           /\ \A p \in Players :
                /\ party[p] = k <=> parties[k].live /\ p \in All(parties[k])
                /\ k \in invitePartyList[p] <=> parties[k].live /\ p \in parties[k].inviteList
                /\ k \in invitePartyList[p] => party[p] # k
    BY PartyInvParts
<1>2. /\ parties' = [k \in Parties |-> IF after[k].live THEN after[k] ELSE Nobody]
      /\ party' = [p \in Players |->
            IF p \in leavers \/ \E k \in ended : p \in All(after[k]) THEN None ELSE party[p]]
      /\ invitePartyList' = [p \in Players |->
            {k \in lists[p] : ~(k \in ended /\ p \in after[k].inviteList)}]
    BY DEF Follow
<1>3. Nobody \in Groups /\ Formed(Nobody) /\ ~Nobody.live /\ Awake(Nobody, level, room)
  <2>1. <<>> \in Seq(Players) /\ IsInjective(<<>>) /\ ToSet(<<>>) = {}
    BY DEF IsInjective, ToSet
  <2>2. QED
    BY <2>1 DEF Nobody, Groups, Formed, Awake
<1>4. TypeOK'
    BY <1>1, <1>2, <1>3 DEF TypeOK, worldVars
<1>5. OfflineInNone'
  <2>1. ASSUME NEW p \in Players \ online' PROVE party'[p] = None /\ invitePartyList'[p] = {}
    <3>1. CASE p \in Players \ online
      BY <1>1, <1>2, <3>1 DEF OfflineInNone
    <3>2. CASE p \in leavers /\ lists[p] = {}
      BY <1>2, <3>2
    <3>3. QED
      BY <3>1, <3>2
  <2>2. QED
    BY <2>1 DEF OfflineInNone
<1>6. ASSUME NEW k \in Parties
      PROVE  /\ Formed(parties'[k]) /\ Awake(parties'[k], level', room')
             /\ parties'[k].live => ~Empty(parties'[k])
             /\ \A p \in Players :
                  /\ party'[p] = k <=> parties'[k].live /\ p \in All(parties'[k])
                  /\ k \in invitePartyList'[p] <=> parties'[k].live /\ p \in parties'[k].inviteList
                  /\ k \in invitePartyList'[p] => party'[p] # k
  <2>1. parties'[k] = IF after[k].live THEN after[k] ELSE Nobody
    BY <1>2
  <2>2. /\ Formed(parties'[k]) /\ Awake(parties'[k], level', room')
        /\ parties'[k].live => ~Empty(parties'[k])
        /\ parties'[k].live <=> after[k].live
    BY <1>3, <2>1 DEF worldVars
  <2>3. k # None
    BY PartyAssumption
  <2>4. ASSUME NEW p \in Players
        PROVE  party'[p] = k <=> parties'[k].live /\ p \in All(parties'[k])
    <3>1. ASSUME party'[p] = k PROVE parties'[k].live /\ p \in All(parties'[k])
      <4>1. party[p] = k /\ p \notin leavers /\ ~ \E j \in ended : p \in All(after[j])
        BY <1>2, <2>3, <3>1
      <4>2. parties[k].live /\ p \in All(after[k])
        BY <1>1, <4>1
      <4>3. after[k].live
        BY <4>1, <4>2
      <4>4. QED
        BY <2>1, <4>2, <4>3
    <3>2. ASSUME parties'[k].live, p \in All(parties'[k]) PROVE party'[p] = k
      <4>1. after[k].live /\ p \in All(after[k]) /\ p \notin leavers /\ party[p] = k
        BY <1>1, <2>1, <2>2, <3>2
      <4>2. ASSUME NEW j \in ended, p \in All(after[j]) PROVE FALSE
        BY <1>1, <4>1, <4>2
      <4>3. QED
        BY <1>2, <4>1, <4>2
    <3>3. QED
      BY <3>1, <3>2
  <2>5. ASSUME NEW p \in Players
        PROVE  /\ k \in invitePartyList'[p] <=> parties'[k].live /\ p \in parties'[k].inviteList
               /\ k \in invitePartyList'[p] => party'[p] # k
    <3>1. k \in invitePartyList'[p] <=> k \in lists[p] /\ ~(k \in ended /\ p \in after[k].inviteList)
      BY <1>2
    <3>2. k \in lists[p] <=> parties[k].live /\ p \in after[k].inviteList
      OBVIOUS
    <3>3. k \in invitePartyList'[p] <=> parties'[k].live /\ p \in parties'[k].inviteList
      BY <2>1, <2>2, <3>1, <3>2
    <3>4. k \in invitePartyList'[p] => party'[p] # k
      BY <1>1, <1>2, <2>3, <3>1
    <3>5. QED
      BY <3>3, <3>4
  <2>6. QED
    BY <2>2, <2>4, <2>5
<1>7. QED
    BY <1>4, <1>5, <1>6, PartyInvNext

(* One party that keeps its people, in a world where what its people did    *)
(* is seen by no other.                                                     *)
LEMMA SamePeopleKeeps ==
    ASSUME PartyInv, NEW k \in Parties, NEW h \in Groups,
           parties' = [parties EXCEPT ![k] = h],
           SamePeople(parties[k], h), Awake(h, level', room'),
           UNCHANGED <<party, invitePartyList, online>>,
           level' \in [Players -> Levels], room' \in [Players -> Rooms],
           \A j \in Parties \ {k} : Awake(parties[j], level', room')
    PROVE  PartyInv'
<1>1. /\ TypeOK /\ OfflineInNone
      /\ \A j \in Parties :
           /\ Formed(parties[j])
           /\ parties[j].live => ~Empty(parties[j])
           /\ \A p \in Players :
                /\ party[p] = j <=> parties[j].live /\ p \in All(parties[j])
                /\ j \in invitePartyList[p] <=> parties[j].live /\ p \in parties[j].inviteList
                /\ j \in invitePartyList[p] => party[p] # j
    BY PartyInvParts
<1>2. TypeOK' /\ OfflineInNone'
    BY <1>1 DEF TypeOK, OfflineInNone
<1>3. \A j \in Parties : parties'[j] = IF j = k THEN h ELSE parties[j]
    BY <1>1 DEF TypeOK
<1>4. /\ Formed(h) /\ (h.live => ~Empty(h)) /\ All(h) = All(parties[k])
      /\ h.live = parties[k].live /\ h.inviteList = parties[k].inviteList
    BY <1>1 DEF SamePeople, Formed, Empty, All
<1>5. ASSUME NEW j \in Parties
      PROVE  /\ Formed(parties'[j]) /\ Awake(parties'[j], level', room')
             /\ parties'[j].live => ~Empty(parties'[j])
             /\ \A p \in Players :
                  /\ party'[p] = j <=> parties'[j].live /\ p \in All(parties'[j])
                  /\ j \in invitePartyList'[p] <=> parties'[j].live /\ p \in parties'[j].inviteList
                  /\ j \in invitePartyList'[p] => party'[p] # j
  <2>1. CASE j = k
    BY <1>1, <1>3, <1>4, <2>1
  <2>2. CASE j # k
    BY <1>1, <1>3, <2>2
  <2>3. QED
    BY <2>1, <2>2
<1>6. QED
    BY <1>2, <1>5, PartyInvNext

-----------------------------------------------------------------------------
(* What the handlers find when the invariant holds.                         *)
LEMMA PartyFacts ==
    ASSUME PartyInv
    PROVE  /\ TypeOK /\ OfflineInNone
           /\ \A p \in Players : party[p] # None =>
                /\ party[p] \in Parties /\ parties[party[p]].live /\ p \in All(parties[party[p]])
                /\ party[p] \notin invitePartyList[p]
           /\ \A k \in Parties :
                /\ parties[k] \in Groups /\ Formed(parties[k]) /\ Awake(parties[k], level, room)
                /\ parties[k].live => ~Empty(parties[k])
                /\ \A p \in Players :
                     /\ party[p] = k <=> parties[k].live /\ p \in All(parties[k])
                     /\ k \in invitePartyList[p] <=> parties[k].live /\ p \in parties[k].inviteList
                     /\ k \in invitePartyList[p] => party[p] # k
<1>1. /\ TypeOK /\ OfflineInNone
      /\ \A k \in Parties :
           /\ Formed(parties[k]) /\ Awake(parties[k], level, room)
           /\ parties[k].live => ~Empty(parties[k])
           /\ \A p \in Players :
                /\ party[p] = k <=> parties[k].live /\ p \in All(parties[k])
                /\ k \in invitePartyList[p] <=> parties[k].live /\ p \in parties[k].inviteList
                /\ k \in invitePartyList[p] => party[p] # k
    BY PartyInvParts
<1>2. \A p \in Players : party[p] # None => party[p] \in Parties
    BY <1>1 DEF TypeOK
<1>3. \A k \in Parties : parties[k] \in Groups
    BY <1>1 DEF TypeOK
<1>4. QED
    BY <1>1, <1>2, <1>3

(* playerInviteToParty: a new party, or one more invitation of one's own.   *)
LEMMA InviteKeeps ==
    ASSUME PartyInv, NEW p \in Players, NEW q \in Players, InviteToParty(p, q)
    PROVE  PartyInv'
<1>1. /\ TypeOK /\ OfflineInNone
      /\ \A k \in Parties :
           /\ parties[k] \in Groups /\ Formed(parties[k]) /\ Awake(parties[k], level, room)
           /\ parties[k].live => ~Empty(parties[k])
           /\ \A r \in Players :
                /\ party[r] = k <=> parties[k].live /\ r \in All(parties[k])
                /\ k \in invitePartyList[r] <=> parties[k].live /\ r \in parties[k].inviteList
                /\ k \in invitePartyList[r] => party[r] # k
    BY PartyFacts
<1>2. PICK k \in Parties :
        /\ IF party[p] = None
           THEN /\ ~parties[k].live
                /\ parties' = [parties EXCEPT ![k] = [NewParty(p) EXCEPT !.inviteList = {q}]]
           ELSE /\ k = party[p]
                /\ Leads(p)
                /\ q \notin parties[k].inviteList
                /\ parties' = [parties EXCEPT ![k].inviteList = @ \cup {q}]
        /\ party' = [party EXCEPT ![p] = k]
        /\ invitePartyList' = [invitePartyList EXCEPT ![q] = @ \cup {k}]
    BY DEF InviteToParty
<1>3. /\ {p, q} \subseteq online /\ p # q /\ party[q] = None
      /\ UNCHANGED <<online, worldVars>> /\ k # None
    BY PartyAssumption DEF InviteToParty
<1>4. PICK h \in Groups :
        /\ parties' = [parties EXCEPT ![k] = h]
        /\ Formed(h) /\ Awake(h, level, room) /\ ~Empty(h) /\ h.live
        /\ h.inviteList = IF party[p] = None THEN {q} ELSE parties[k].inviteList \cup {q}
        /\ All(h) = IF party[p] = None THEN {p} ELSE All(parties[k])
  <2>1. CASE party[p] = None
    <3> DEFINE h == [NewParty(p) EXCEPT !.inviteList = {q}]
    <3>1. <<>> \in Seq(Players) /\ IsInjective(<<>>) /\ ToSet(<<>>) = {}
      BY DEF IsInjective, ToSet
    <3>2. /\ h \in Groups /\ h.live /\ ~h.active /\ h.leader = p /\ h.memberList = <<>>
          /\ h.inviteList = {q}
      BY <3>1 DEF NewParty, Nobody, Groups
    <3> HIDE DEF h
    <3>3. Formed(h) /\ Awake(h, level, room) /\ ~Empty(h) /\ All(h) = {p}
      BY <3>1, <3>2 DEF Formed, Awake, Empty, All
    <3>4. parties' = [parties EXCEPT ![k] = h]
      BY <1>2, <2>1 DEF h
    <3>5. QED
      BY <2>1, <3>2, <3>3, <3>4
  <2>2. CASE party[p] # None
    <3> DEFINE g == parties[k]
               h == [g EXCEPT !.inviteList = @ \cup {q}]
    <3>1. g \in Groups /\ Formed(g) /\ Awake(g, level, room) /\ g.live
      BY <1>1, <1>2, <2>2
    <3>2. parties' = [parties EXCEPT ![k] = h]
      BY <1>2, <2>2
    <3> HIDE DEF g
    <3>3. /\ h \in Groups /\ h.live /\ h.leader = g.leader /\ h.memberList = g.memberList
          /\ h.inviteList = g.inviteList \cup {q} /\ h.active = g.active
          /\ h.enabled = g.enabled /\ h.ticks = g.ticks
      BY <3>1 DEF Groups
    <3> HIDE DEF h
    <3>4. CanEnable(h, level, room) <=> CanEnable(g, level, room)
      BY <3>3, SameCanEnable
    <3>5. Formed(h) /\ Awake(h, level, room) /\ ~Empty(h) /\ All(h) = All(g)
      BY <3>1, <3>3, <3>4 DEF Formed, Awake, Empty, All
    <3>6. QED
      BY <2>2, <3>2, <3>3, <3>5 DEF g
  <2>3. QED
    BY <2>1, <2>2
<1>5. TypeOK' /\ OfflineInNone'
    BY <1>1, <1>2, <1>3, <1>4 DEF TypeOK, OfflineInNone, worldVars
<1>6. /\ \A j \in Parties : parties'[j] = IF j = k THEN h ELSE parties[j]
      /\ \A r \in Players : party'[r] = IF r = p THEN k ELSE party[r]
      /\ \A r \in Players : invitePartyList'[r] =
            IF r = q THEN invitePartyList[r] \cup {k} ELSE invitePartyList[r]
  <2>1. /\ parties \in [Parties -> Groups] /\ party \in [Players -> Parties \cup {None}]
        /\ invitePartyList \in [Players -> SUBSET Parties]
    BY <1>1 DEF TypeOK
  <2>2. \A j \in Parties : parties'[j] = IF j = k THEN h ELSE parties[j]
    BY <1>4, <2>1
  <2>3. \A r \in Players : party'[r] = IF r = p THEN k ELSE party[r]
    BY <1>2, <2>1
  <2>4. \A r \in Players : invitePartyList'[r] =
            IF r = q THEN invitePartyList[r] \cup {k} ELSE invitePartyList[r]
    BY <1>2, <2>1
  <2>5. QED
    BY <2>2, <2>3, <2>4
<1>7. \/ party[p] = None /\ ~parties[k].live
      \/ party[p] = k /\ parties[k].live
  <2>1. CASE party[p] = None
    <3>1. ~parties[k].live
      BY <1>2, <2>1
    <3>2. QED
      BY <2>1, <3>1
  <2>2. CASE party[p] # None
    <3>1. party[p] = k
      BY <1>2, <2>2
    <3>2. QED
      BY <1>1, <3>1
  <2>3. QED
    BY <2>1, <2>2
<1>8. ASSUME NEW j \in Parties
      PROVE  /\ Formed(parties'[j]) /\ Awake(parties'[j], level', room')
             /\ parties'[j].live => ~Empty(parties'[j])
             /\ \A r \in Players :
                  /\ party'[r] = j <=> parties'[j].live /\ r \in All(parties'[j])
                  /\ j \in invitePartyList'[r] <=> parties'[j].live /\ r \in parties'[j].inviteList
                  /\ j \in invitePartyList'[r] => party'[r] # j
  <2>1. /\ Formed(parties'[j]) /\ Awake(parties'[j], level', room')
        /\ parties'[j].live => ~Empty(parties'[j])
    BY <1>1, <1>3, <1>4, <1>6 DEF worldVars
  <2>2. ASSUME NEW r \in Players
        PROVE  /\ party'[r] = j <=> parties'[j].live /\ r \in All(parties'[j])
               /\ j \in invitePartyList'[r] <=> parties'[j].live /\ r \in parties'[j].inviteList
               /\ j \in invitePartyList'[r] => party'[r] # j
    <3>1. /\ party[r] = j <=> parties[j].live /\ r \in All(parties[j])
          /\ j \in invitePartyList[r] <=> parties[j].live /\ r \in parties[j].inviteList
          /\ j \in invitePartyList[r] => party[r] # j
      BY <1>1
    <3>2. /\ parties'[j] = IF j = k THEN h ELSE parties[j]
          /\ party'[r] = IF r = p THEN k ELSE party[r]
          /\ invitePartyList'[r] = IF r = q THEN invitePartyList[r] \cup {k} ELSE invitePartyList[r]
      BY <1>6
    <3>3. CASE j = k
      <4>1. parties'[j] = h /\ h.live
        BY <1>4, <3>2, <3>3
      <4>2. CASE party[p] = None
        <5>1. /\ h.inviteList = {q} /\ All(h) = {p}
              /\ ~parties[j].live /\ party[r] # j /\ j \notin invitePartyList[r]
          BY <1>3, <1>4, <1>7, <3>1, <3>3, <4>2
        <5>2. QED
          BY <1>3, <3>2, <3>3, <4>1, <5>1
      <4>3. CASE party[p] = k
        <5>1. /\ h.inviteList = parties[j].inviteList \cup {q} /\ All(h) = All(parties[j])
              /\ parties[j].live
          BY <1>3, <1>4, <1>7, <3>3, <4>3
        <5>2. /\ party'[r] = j <=> party[r] = j
              /\ j \in invitePartyList'[r] <=> j \in invitePartyList[r] \/ r = q
          BY <3>2, <3>3, <4>3
        <5>3. r = q => party'[r] # j
          BY <1>3, <3>2, <3>3
        <5>4. QED
          BY <3>1, <4>1, <5>1, <5>2, <5>3
      <4>4. QED
        BY <1>7, <4>2, <4>3
    <3>4. CASE j # k
      <4>1. /\ parties'[j] = parties[j]
            /\ j \in invitePartyList'[r] <=> j \in invitePartyList[r]
        BY <3>2, <3>4
      <4>2. party'[r] = j <=> party[r] = j
        BY <1>3, <1>7, <3>2, <3>4, PartyAssumption
      <4>3. QED
        BY <3>1, <4>1, <4>2
    <3>5. QED
      BY <3>3, <3>4
  <2>3. QED
    BY <2>1, <2>2
<1>9. QED
    BY <1>5, <1>8, PartyInvNext

(* playerJoinParty: an invitation becomes a membership.                     *)
LEMMA JoinKeeps ==
    ASSUME PartyInv, NEW p \in Players, NEW q \in Players, JoinParty(p, q)
    PROVE  PartyInv'
<1> DEFINE k == party[q]
           g == parties[k]
           l == Append(g.memberList, p)
           d == [g EXCEPT !.inviteList = @ \ {p}, !.memberList = l]
           h == UpdatedIn(d, level, room)
<1>1. /\ TypeOK /\ OfflineInNone
      /\ \A j \in Parties :
           /\ parties[j] \in Groups /\ Formed(parties[j]) /\ Awake(parties[j], level, room)
           /\ parties[j].live => ~Empty(parties[j])
           /\ \A r \in Players :
                /\ party[r] = j <=> parties[j].live /\ r \in All(parties[j])
                /\ j \in invitePartyList[r] <=> parties[j].live /\ r \in parties[j].inviteList
                /\ j \in invitePartyList[r] => party[r] # j
    BY PartyFacts
<1>2. /\ {p, q} \subseteq online /\ party[p] = None /\ UNCHANGED <<online, worldVars>>
      /\ parties' = [parties EXCEPT ![k] = h]
      /\ party' = [party EXCEPT ![p] = k]
      /\ invitePartyList' = [invitePartyList EXCEPT ![p] = @ \ {k}]
    BY DEF JoinParty, Updated
<1>3. k \in Parties /\ g.live /\ p \in g.inviteList
    BY PartyFacts DEF JoinParty, IsInviting, Leads
<1>4. g \in Groups /\ Formed(g) /\ p \notin All(g) /\ k # None
    BY <1>1, <1>2, <1>3, PartyAssumption
<1> HIDE DEF k, g
<1>5. /\ l \in Seq(Players) /\ IsInjective(l) /\ ToSet(l) = ToSet(g.memberList) \cup {p} /\ l # <<>>
  <2>1. g.memberList \in Seq(Players) /\ IsInjective(g.memberList) /\ p \notin ToSet(g.memberList)
    BY <1>4 DEF Groups, Formed, All
  <2>2. QED
    BY <2>1, PushElems, PushInjective
<1> HIDE DEF l
<1>6. /\ d \in Groups /\ d.leader = g.leader /\ d.memberList = l /\ d.live
      /\ d.inviteList = g.inviteList \ {p}
    BY <1>3, <1>4, <1>5 DEF Groups
<1> HIDE DEF d
<1>7. h \in Groups /\ SamePeople(d, h) /\ Awake(h, level, room)
    BY <1>6, UpdatedFacts
<1> HIDE DEF h
<1>8. /\ Formed(h) /\ ~Empty(h) /\ h.live /\ h.inviteList = g.inviteList \ {p}
      /\ All(h) = All(g) \cup {p}
    BY <1>3, <1>4, <1>5, <1>6, <1>7 DEF SamePeople, Formed, Empty, All
<1>9. TypeOK' /\ OfflineInNone'
    BY <1>1, <1>2, <1>3, <1>7 DEF TypeOK, OfflineInNone, worldVars
<1>10. /\ \A j \in Parties : parties'[j] = IF j = k THEN h ELSE parties[j]
       /\ \A r \in Players : party'[r] = IF r = p THEN k ELSE party[r]
       /\ \A r \in Players : invitePartyList'[r] =
            IF r = p THEN invitePartyList[r] \ {k} ELSE invitePartyList[r]
  <2>1. /\ parties \in [Parties -> Groups] /\ party \in [Players -> Parties \cup {None}]
        /\ invitePartyList \in [Players -> SUBSET Parties]
    BY <1>1 DEF TypeOK
  <2>2. \A j \in Parties : parties'[j] = IF j = k THEN h ELSE parties[j]
    BY <1>2, <2>1
  <2>3. \A r \in Players : party'[r] = IF r = p THEN k ELSE party[r]
    BY <1>2, <2>1
  <2>4. \A r \in Players : invitePartyList'[r] =
            IF r = p THEN invitePartyList[r] \ {k} ELSE invitePartyList[r]
    BY <1>2, <2>1
  <2>5. QED
    BY <2>2, <2>3, <2>4
<1>11. ASSUME NEW j \in Parties
      PROVE  /\ Formed(parties'[j]) /\ Awake(parties'[j], level', room')
             /\ parties'[j].live => ~Empty(parties'[j])
             /\ \A r \in Players :
                  /\ party'[r] = j <=> parties'[j].live /\ r \in All(parties'[j])
                  /\ j \in invitePartyList'[r] <=> parties'[j].live /\ r \in parties'[j].inviteList
                  /\ j \in invitePartyList'[r] => party'[r] # j
  <2>1. /\ Formed(parties'[j]) /\ Awake(parties'[j], level', room')
        /\ parties'[j].live => ~Empty(parties'[j])
    BY <1>1, <1>2, <1>7, <1>8, <1>10 DEF worldVars
  <2>2. ASSUME NEW r \in Players
        PROVE  /\ party'[r] = j <=> parties'[j].live /\ r \in All(parties'[j])
               /\ j \in invitePartyList'[r] <=> parties'[j].live /\ r \in parties'[j].inviteList
               /\ j \in invitePartyList'[r] => party'[r] # j
    <3>1. /\ party[r] = j <=> parties[j].live /\ r \in All(parties[j])
          /\ j \in invitePartyList[r] <=> parties[j].live /\ r \in parties[j].inviteList
          /\ j \in invitePartyList[r] => party[r] # j
      BY <1>1
    <3>2. /\ parties'[j] = IF j = k THEN h ELSE parties[j]
          /\ party'[r] = IF r = p THEN k ELSE party[r]
          /\ invitePartyList'[r] = IF r = p THEN invitePartyList[r] \ {k} ELSE invitePartyList[r]
      BY <1>10
    <3>3. CASE j = k
      <4>1. /\ parties'[j] = h /\ h.live /\ parties[j].live /\ parties[j] = g
            /\ h.inviteList = g.inviteList \ {p} /\ All(h) = All(g) \cup {p}
        BY <1>3, <1>8, <3>2, <3>3 DEF g
      <4>2. /\ party'[r] = j <=> party[r] = j \/ r = p
            /\ j \in invitePartyList'[r] <=> j \in invitePartyList[r] /\ r # p
        BY <3>2, <3>3
      <4>3. QED
        BY <3>1, <4>1, <4>2
    <3>4. CASE j # k
      <4>1. /\ parties'[j] = parties[j]
            /\ j \in invitePartyList'[r] <=> j \in invitePartyList[r]
        BY <3>2, <3>4
      <4>2. party'[r] = j <=> party[r] = j
        BY <1>2, <3>2, <3>4, PartyAssumption
      <4>3. QED
        BY <3>1, <4>1, <4>2
    <3>5. QED
      BY <3>3, <3>4
  <2>3. QED
    BY <2>1, <2>2
<1>12. QED
    BY <1>9, <1>11, PartyInvNext

(* playerRevokePartyInvitation.                                             *)
LEMMA RevokeKeeps ==
    ASSUME PartyInv, NEW p \in Players, NEW q \in Players, RevokePartyInvitation(p, q)
    PROVE  PartyInv'
<1> DEFINE k == party[p]
           h == Uninvited(parties[k], q)
           after == [parties EXCEPT ![k] = h]
           lists == [invitePartyList EXCEPT ![q] = @ \ {k}]
<1>1. /\ TypeOK
      /\ \A j \in Parties :
           /\ parties[j] \in Groups /\ Formed(parties[j]) /\ Awake(parties[j], level, room)
           /\ parties[j].live => ~Empty(parties[j])
           /\ \A r \in Players :
                /\ party[r] = j <=> parties[j].live /\ r \in All(parties[j])
                /\ j \in invitePartyList[r] <=> parties[j].live /\ r \in parties[j].inviteList
    BY PartyFacts
<1>2. k \in Parties /\ parties[k].live
    BY PartyFacts DEF RevokePartyInvitation, IsInviting, Leads
<1>3. Follow(after, {}, lists) /\ UNCHANGED <<online, worldVars>>
    BY DEF RevokePartyInvitation
<1> HIDE DEF k
<1>4. /\ h \in Groups /\ Formed(h) /\ All(h) = All(parties[k])
      /\ h.inviteList = parties[k].inviteList \ {q}
      /\ h.live => ~Empty(h) /\ Awake(h, level, room)
    BY <1>1, <1>2, UninvitedFacts
<1> HIDE DEF h
<1>5. after \in [Parties -> Groups] /\ lists \in [Players -> SUBSET Parties]
    BY <1>1, <1>2, <1>4 DEF TypeOK
<1>6. /\ \A j \in Parties : after[j] = IF j = k THEN h ELSE parties[j]
      /\ \A r \in Players : lists[r] =
            IF r = q THEN invitePartyList[r] \ {k} ELSE invitePartyList[r]
    BY <1>1, <1>2 DEF TypeOK
<1> HIDE DEF after, lists
<1>7. ASSUME NEW j \in Parties
      PROVE  /\ Formed(after[j]) /\ Awake(after[j], level, room)
             /\ after[j].live => parties[j].live /\ ~Empty(after[j])
             /\ after[j].live => All(after[j]) = All(parties[j]) \ {}
             /\ parties[j].live => All(after[j]) \subseteq All(parties[j])
                                   /\ All(parties[j]) \subseteq All(after[j]) \cup {}
             /\ \A r \in Players : /\ j \in lists[r] => j \in invitePartyList[r]
                                   /\ j \in lists[r] <=> parties[j].live /\ r \in after[j].inviteList
  <2>1. /\ Formed(after[j]) /\ All(after[j]) = All(parties[j]) /\ Awake(after[j], level, room)
        /\ after[j].live => parties[j].live /\ ~Empty(after[j])
    <3>1. CASE j = k
      BY <1>2, <1>4, <1>6, <3>1 DEF Awake
    <3>2. CASE j # k
      BY <1>1, <1>6, <3>2
    <3>3. QED
      BY <3>1, <3>2
  <2>2. ASSUME NEW r \in Players
        PROVE  /\ j \in lists[r] => j \in invitePartyList[r]
               /\ j \in lists[r] <=> parties[j].live /\ r \in after[j].inviteList
    <3>1. j \in invitePartyList[r] <=> parties[j].live /\ r \in parties[j].inviteList
      BY <1>1
    <3>2. lists[r] = IF r = q THEN invitePartyList[r] \ {k} ELSE invitePartyList[r]
      BY <1>6
    <3>3. CASE j = k
      <4>1. after[j].inviteList = parties[j].inviteList \ {q}
        BY <1>4, <1>6, <3>3
      <4>2. QED
        BY <3>1, <3>2, <3>3, <4>1
    <3>4. CASE j # k
      <4>1. after[j] = parties[j]
        BY <1>6, <3>4
      <4>2. QED
        BY <3>1, <3>2, <3>4, <4>1
    <3>5. QED
      BY <3>3, <3>4
  <2>3. QED
    BY <2>1, <2>2
<1>8. online' \subseteq Players /\ \A r \in Players \ online' : r \in Players \ online
    BY <1>1, <1>3 DEF TypeOK
<1>9. QED
    BY <1>3, <1>5, <1>7, <1>8, FollowKeeps

(* A player leaves the party he is in.                                      *)
LEMMA OwnLeft ==
    ASSUME PartyInv, NEW p \in Players, party[p] # None
    PROVE  LET g == parties[party[p]]
               h == Left(g, p)
           IN  /\ party[p] \in Parties /\ g.live
               /\ h \in Groups /\ Formed(h) /\ Awake(h, level, room) /\ h.inviteList = g.inviteList
               /\ h.live => ~Empty(h) /\ All(h) = All(g) \ {p}
               /\ All(h) \subseteq All(g) /\ All(g) \subseteq All(h) \cup {p}
<1> DEFINE g == parties[party[p]]
           h == Left(g, p)
<1>1. /\ party[p] \in Parties /\ g.live /\ p \in All(g) /\ g \in Groups /\ Formed(g)
    BY PartyFacts
<1> HIDE DEF g
<1>2. /\ h \in Groups /\ Formed(h) /\ h.inviteList = g.inviteList
      /\ h.live => ~Empty(h) /\ Awake(h, level, room) /\ p \notin All(h)
      /\ All(h) \cup {p} = All(g)
    BY <1>1, LeftFacts
<1> HIDE DEF h
<1>3. Awake(h, level, room) /\ (h.live => All(h) = All(g) \ {p})
    BY <1>2 DEF Awake
<1>4. QED
    BY <1>1, <1>2, <1>3 DEF g, h

(* playerLeaveParty.                                                        *)
LEMMA LeaveKeeps ==
    ASSUME PartyInv, NEW p \in Players, LeaveParty(p)
    PROVE  PartyInv'
<1> DEFINE k == party[p]
           h == Left(parties[k], p)
           after == [parties EXCEPT ![k] = h]
<1>1. /\ TypeOK
      /\ \A j \in Parties :
           /\ parties[j] \in Groups /\ Formed(parties[j]) /\ Awake(parties[j], level, room)
           /\ parties[j].live => ~Empty(parties[j])
           /\ \A r \in Players :
                /\ party[r] = j <=> parties[j].live /\ r \in All(parties[j])
                /\ j \in invitePartyList[r] <=> parties[j].live /\ r \in parties[j].inviteList
    BY PartyFacts
<1>2. /\ k # None /\ Follow(after, {p}, invitePartyList) /\ UNCHANGED <<online, worldVars>>
      /\ p \in online
    BY DEF LeaveParty
<1>3. /\ k \in Parties /\ parties[k].live
      /\ h \in Groups /\ Formed(h) /\ Awake(h, level, room) /\ h.inviteList = parties[k].inviteList
      /\ h.live => ~Empty(h) /\ All(h) = All(parties[k]) \ {p}
      /\ All(h) \subseteq All(parties[k]) /\ All(parties[k]) \subseteq All(h) \cup {p}
    BY <1>2, OwnLeft
<1>4. k = party[p]
    OBVIOUS
<1> HIDE DEF k, h
<1>5. after \in [Parties -> Groups] /\ invitePartyList \in [Players -> SUBSET Parties]
    BY <1>1, <1>3 DEF TypeOK
<1>6. \A j \in Parties : after[j] = IF j = k THEN h ELSE parties[j]
    BY <1>1, <1>3 DEF TypeOK
<1> HIDE DEF after
<1>7. ASSUME NEW j \in Parties
      PROVE  /\ Formed(after[j]) /\ Awake(after[j], level, room)
             /\ after[j].live => parties[j].live /\ ~Empty(after[j])
             /\ after[j].live => All(after[j]) = All(parties[j]) \ {p}
             /\ parties[j].live => All(after[j]) \subseteq All(parties[j])
                                   /\ All(parties[j]) \subseteq All(after[j]) \cup {p}
             /\ \A r \in Players :
                  /\ j \in invitePartyList[r] => j \in invitePartyList[r]
                  /\ j \in invitePartyList[r] <=> parties[j].live /\ r \in after[j].inviteList
  <2>1. CASE j = k
    <3>1. after[j] = h
      BY <1>6, <2>1
    <3>2. \A r \in Players : j \in invitePartyList[r] <=> parties[j].live /\ r \in parties[j].inviteList
      BY <1>1
    <3>3. QED
      BY <1>3, <2>1, <3>1, <3>2
  <2>2. CASE j # k
    <3>1. after[j] = parties[j]
      BY <1>6, <2>2
    <3>2. parties[j].live => p \notin All(parties[j])
      BY <1>1, <1>4, <2>2
    <3>3. QED
      BY <1>1, <3>1, <3>2
  <2>3. QED
    BY <2>1, <2>2
<1>8. online' \subseteq Players /\ \A r \in Players \ online' : r \in Players \ online
    BY <1>1, <1>2 DEF TypeOK
<1>9. QED
    BY <1>2, <1>5, <1>7, <1>8, FollowKeeps

(* onRemoveCreature: out of every list of invitations, then of the party.   *)
LEMMA LogoutKeeps ==
    ASSUME PartyInv, NEW p \in Players, Logout(p)
    PROVE  PartyInv'
<1> DEFINE k == party[p]
           cleared == [j \in Parties |->
                          IF j \in invitePartyList[p] THEN Uninvited(parties[j], p) ELSE parties[j]]
           after == IF k = None THEN cleared ELSE [cleared EXCEPT ![k] = Left(@, p)]
           lists == [invitePartyList EXCEPT ![p] = {}]
<1>1. /\ TypeOK
      /\ \A j \in Parties :
           /\ parties[j] \in Groups /\ Formed(parties[j]) /\ Awake(parties[j], level, room)
           /\ parties[j].live => ~Empty(parties[j])
           /\ \A r \in Players :
                /\ party[r] = j <=> parties[j].live /\ r \in All(parties[j])
                /\ j \in invitePartyList[r] <=> parties[j].live /\ r \in parties[j].inviteList
                /\ j \in invitePartyList[r] => party[r] # j
    BY PartyFacts
<1>2. /\ p \in online /\ Follow(after, {p}, lists) /\ online' = online \ {p} /\ UNCHANGED worldVars
    BY DEF Logout
<1>3. lists \in [Players -> SUBSET Parties]
      /\ \A r \in Players : lists[r] = IF r = p THEN {} ELSE invitePartyList[r]
    BY <1>1 DEF TypeOK
<1> HIDE DEF lists
<1>4. ASSUME NEW j \in Parties
      PROVE  after[j] = IF j = k THEN Left(parties[j], p)
                        ELSE IF j \in invitePartyList[p] THEN Uninvited(parties[j], p) ELSE parties[j]
  <2>1. cleared[j] = IF j \in invitePartyList[p] THEN Uninvited(parties[j], p) ELSE parties[j]
    OBVIOUS
  <2>2. j = k => j \notin invitePartyList[p]
    BY <1>1
  <2>3. after[j] = IF j = k THEN Left(cleared[j], p) ELSE cleared[j]
    <3>1. CASE k = None
      BY <3>1, PartyAssumption
    <3>2. CASE k # None
      BY <3>2
    <3>3. QED
      BY <3>1, <3>2
  <2>4. QED
    BY <2>1, <2>2, <2>3
<1>5. after \in [Parties -> Groups] <=> \A j \in Parties : after[j] \in Groups
  <2>1. after = [j \in Parties |-> after[j]]
    OBVIOUS
  <2> HIDE DEF after
  <2>2. QED
    BY <2>1
<1> HIDE DEF after, cleared
<1>6. ASSUME NEW j \in Parties
      PROVE  /\ after[j] \in Groups
             /\ Formed(after[j]) /\ Awake(after[j], level, room)
             /\ after[j].live => parties[j].live /\ ~Empty(after[j])
             /\ after[j].live => All(after[j]) = All(parties[j]) \ {p}
             /\ parties[j].live => All(after[j]) \subseteq All(parties[j])
                                   /\ All(parties[j]) \subseteq All(after[j]) \cup {p}
             /\ \A r \in Players : r # p => (r \in after[j].inviteList <=> r \in parties[j].inviteList)
             /\ parties[j].live => p \notin after[j].inviteList
  <2>1. /\ parties[j] \in Groups /\ Formed(parties[j]) /\ Awake(parties[j], level, room)
        /\ parties[j].live => ~Empty(parties[j])
        /\ k = j <=> parties[j].live /\ p \in All(parties[j])
        /\ j \in invitePartyList[p] <=> parties[j].live /\ p \in parties[j].inviteList
        /\ j \in invitePartyList[p] => k # j
    BY <1>1
  <2>2. CASE j = k
    <3>1. after[j] = Left(parties[j], p) /\ k # None
      BY <1>4, <2>2, PartyAssumption
    <3> DEFINE h == Left(parties[j], p)
    <3>2. /\ parties[j].live
          /\ h \in Groups /\ Formed(h) /\ Awake(h, level, room) /\ h.inviteList = parties[j].inviteList
          /\ h.live => ~Empty(h) /\ All(h) = All(parties[j]) \ {p}
          /\ All(h) \subseteq All(parties[j]) /\ All(parties[j]) \subseteq All(h) \cup {p}
      BY <2>2, <3>1, OwnLeft
    <3>3. after[j] = h
      BY <3>1
    <3> HIDE DEF h
    <3>4. QED
      BY <2>1, <2>2, <3>2, <3>3
  <2>3. CASE j # k /\ j \in invitePartyList[p]
    <3> DEFINE h == Uninvited(parties[j], p)
    <3>1. after[j] = h
      BY <1>4, <2>3
    <3>2. parties[j].live /\ p \notin All(parties[j])
      BY <2>1, <2>3
    <3>3. /\ h \in Groups /\ Formed(h) /\ All(h) = All(parties[j])
          /\ h.inviteList = parties[j].inviteList \ {p}
          /\ h.live => ~Empty(h) /\ Awake(h, level, room)
      BY <2>1, <3>2, UninvitedFacts
    <3> HIDE DEF h
    <3>4. Awake(h, level, room)
      BY <3>3 DEF Awake
    <3>5. QED
      BY <3>1, <3>2, <3>3, <3>4
  <2>4. CASE j # k /\ j \notin invitePartyList[p]
    <3>1. after[j] = parties[j]
      BY <1>4, <2>4
    <3>2. /\ parties[j].live => p \notin All(parties[j])
          /\ parties[j].live => p \notin parties[j].inviteList
      BY <2>1, <2>4
    <3>3. QED
      BY <2>1, <3>1, <3>2
  <2>5. QED
    BY <2>2, <2>3, <2>4
<1>7. after \in [Parties -> Groups]
    BY <1>5, <1>6
<1>8. ASSUME NEW j \in Parties, NEW r \in Players
      PROVE  /\ j \in lists[r] => j \in invitePartyList[r]
             /\ j \in lists[r] <=> parties[j].live /\ r \in after[j].inviteList
  <2>1. j \in invitePartyList[r] <=> parties[j].live /\ r \in parties[j].inviteList
    BY <1>1
  <2>2. CASE r = p
    BY <1>3, <1>6, <2>2
  <2>3. CASE r # p
    BY <1>3, <1>6, <2>1, <2>3
  <2>4. QED
    BY <2>2, <2>3
<1>9. /\ online' \subseteq Players
      /\ \A r \in Players \ online' : r \in Players \ online \/ (r \in {p} /\ lists[r] = {})
    BY <1>1, <1>2, <1>3 DEF TypeOK
<1>10. QED
    BY <1>2, <1>3, <1>6, <1>7, <1>8, <1>9, FollowKeeps

(* The requests that change neither who is in a party nor who is invited.   *)
LEMMA SharingKeeps ==
    ASSUME PartyInv, NEW p \in Players, party[p] # None, NEW h \in Groups,
           parties' = [parties EXCEPT ![party[p]] = h],
           SamePeople(parties[party[p]], h), Awake(h, level, room),
           UNCHANGED <<party, invitePartyList, online, worldVars>>
    PROVE  PartyInv'
<1>1. /\ party[p] \in Parties /\ TypeOK
      /\ \A j \in Parties : Awake(parties[j], level, room)
    BY PartyFacts
<1>2. /\ level' \in [Players -> Levels] /\ room' \in [Players -> Rooms]
      /\ level' = level /\ room' = room
    BY <1>1 DEF TypeOK, worldVars
<1>3. QED
    BY <1>1, <1>2, SamePeopleKeeps

(* A member moves, or gains or loses a level: only his own party looks, and *)
(* no other depends on him.                                                 *)
LEMMA WorldKeeps ==
    ASSUME PartyInv, NEW p \in Players,
           level' \in [Players -> Levels], room' \in [Players -> Rooms],
           \A q \in Players \ {p} : level'[q] = level[q] /\ room'[q] = room[q],
           UpdateOwn(p), UNCHANGED <<party, invitePartyList, online>>
    PROVE  PartyInv'
<1>1. /\ TypeOK /\ OfflineInNone
      /\ \A k \in Parties :
           /\ parties[k] \in Groups /\ Formed(parties[k]) /\ Awake(parties[k], level, room)
           /\ parties[k].live => ~Empty(parties[k])
           /\ \A r \in Players :
                /\ party[r] = k <=> parties[k].live /\ r \in All(parties[k])
                /\ k \in invitePartyList[r] <=> parties[k].live /\ r \in parties[k].inviteList
                /\ k \in invitePartyList[r] => party[r] # k
    BY PartyFacts
<1>2. ASSUME NEW k \in Parties, party[p] # k PROVE Awake(parties[k], level', room')
  <2> DEFINE g == parties[k]
  <2>1. SUFFICES ASSUME g.live, g.active, CanEnable(g, level', room') PROVE CanEnable(g, level, room)
    BY <1>1 DEF Awake
  <2>2. g \in Groups /\ Formed(g) /\ p \notin All(g)
    BY <1>1, <1>2, <2>1
  <2>3. g.memberList \in Seq(Players) /\ g.leader \in Players
    BY <2>1, <2>2 DEF Groups, Formed
  <2>4. \A q \in All(g) : level'[q] = level[q] /\ room'[q] = room[q]
    <3>1. All(g) \subseteq Players \ {p}
      BY <2>2, <2>3 DEF All, ToSet
    <3>2. QED
      BY <3>1
  <2>5. g.leader \in All(g)
    BY DEF All
  <2> HIDE DEF g
  <2>6. ASSUME NEW q \in All(g), CanUse(g, q, level', room') PROVE CanUse(g, q, level, room)
    <3>1. \A r \in All(g) : 3 * level[q] >= 2 * level[r]
      BY <2>4, <2>6 DEF CanUse
    <3>2. room[q] = room[g.leader]
      BY <2>4, <2>5, <2>6 DEF CanUse
    <3>3. QED
      BY <2>6, <3>1, <3>2 DEF CanUse
  <2>7. QED
    BY <2>1, <2>6 DEF CanEnable
<1>3. CASE party[p] = None
  <2>1. parties' = parties /\ \A k \in Parties : party[p] # k
    BY <1>3, PartyAssumption DEF UpdateOwn
  <2>2. TypeOK' /\ OfflineInNone'
    BY <1>1, <2>1 DEF TypeOK, OfflineInNone
  <2>3. \A k \in Parties : Awake(parties'[k], level', room')
    BY <1>2, <2>1
  <2>4. QED
    BY <1>1, <2>1, <2>2, <2>3, PartyInvNext
<1>4. CASE party[p] # None
  <2> DEFINE k == party[p]
             h == UpdatedIn(parties[k], level', room')
  <2>1. k \in Parties /\ parties[k] \in Groups
    BY <1>4, PartyFacts
  <2>2. parties' = [parties EXCEPT ![k] = h]
    BY <1>4 DEF UpdateOwn
  <2>3. h \in Groups /\ SamePeople(parties[k], h) /\ Awake(h, level', room')
    BY <2>1, UpdatedFacts
  <2>4. \A j \in Parties \ {k} : Awake(parties[j], level', room')
    BY <1>2
  <2> HIDE DEF h, k
  <2>5. QED
    BY <2>1, <2>2, <2>3, <2>4, SamePeopleKeeps
<1>5. QED
    BY <1>3, <1>4

(* Whatever players do, whoever leaves and whatever ends with it.           *)
LEMMA PartyStep == PartyInv /\ [Next]_vars => PartyInv'
<1> SUFFICES ASSUME PartyInv, [Next]_vars PROVE PartyInv'
    OBVIOUS
<1>1. /\ TypeOK /\ OfflineInNone
      /\ \A p \in Players : party[p] # None =>
           /\ party[p] \in Parties /\ parties[party[p]].live /\ p \in All(parties[party[p]])
      /\ \A k \in Parties :
           /\ parties[k] \in Groups /\ Formed(parties[k]) /\ Awake(parties[k], level, room)
           /\ \A p \in Players : party[p] = k <=> parties[k].live /\ p \in All(parties[k])
    BY PartyFacts
<1>2. ASSUME NEW p \in Players, NEW q \in Players,
             InviteToParty(p, q) \/ JoinParty(p, q) \/ RevokePartyInvitation(p, q)
      PROVE  PartyInv'
    BY <1>2, InviteKeeps, JoinKeeps, RevokeKeeps
<1>3. ASSUME NEW p \in Players, NEW q \in Players, PassPartyLeadership(p, q) PROVE PartyInv'
  <2> DEFINE g == parties[party[p]]
             h == Passed(g, q)
  <2>1. /\ party[p] # None /\ g.leader = p /\ q # p /\ party[q] = party[p]
        /\ parties' = [parties EXCEPT ![party[p]] = h]
        /\ UNCHANGED <<party, invitePartyList, online, worldVars>>
    BY <1>3 DEF PassPartyLeadership, Leads
  <2>2. /\ party[p] \in Parties /\ g.live /\ g \in Groups /\ Formed(g) /\ q \in All(g)
    BY <1>1, <2>1
  <2>3. q \in ToSet(g.memberList)
    BY <2>1, <2>2 DEF All
  <2> HIDE DEF g
  <2>4. /\ h \in Groups /\ Formed(h) /\ Awake(h, level, room)
        /\ All(h) = All(g) /\ h.inviteList = g.inviteList /\ h.live = g.live
        /\ h.memberList # <<>>
    BY <2>1, <2>2, <2>3, PassedFacts
  <2> HIDE DEF h
  <2>5. \A j \in Parties : parties'[j] = IF j = party[p] THEN h ELSE parties[j]
    BY <1>1, <2>1 DEF TypeOK
  <2>6. TypeOK' /\ OfflineInNone'
    BY <1>1, <2>1, <2>2, <2>4 DEF TypeOK, OfflineInNone, worldVars
  <2>7. ASSUME NEW j \in Parties
        PROVE  /\ Formed(parties'[j]) /\ Awake(parties'[j], level', room')
               /\ parties'[j].live => ~Empty(parties'[j])
               /\ \A r \in Players :
                    /\ party'[r] = j <=> parties'[j].live /\ r \in All(parties'[j])
                    /\ j \in invitePartyList'[r] <=> parties'[j].live /\ r \in parties'[j].inviteList
                    /\ j \in invitePartyList'[r] => party'[r] # j
    <3>1. /\ Formed(parties[j]) /\ Awake(parties[j], level, room)
          /\ parties[j].live => ~Empty(parties[j])
          /\ \A r \in Players :
               /\ party[r] = j <=> parties[j].live /\ r \in All(parties[j])
               /\ j \in invitePartyList[r] <=> parties[j].live /\ r \in parties[j].inviteList
               /\ j \in invitePartyList[r] => party[r] # j
      BY PartyFacts
    <3>2. CASE j = party[p]
      <4>1. parties'[j] = h /\ parties[j] = g
        BY <2>5, <3>2 DEF g
      <4>2. QED
        BY <2>1, <2>4, <3>1, <4>1 DEF worldVars, Empty
    <3>3. CASE j # party[p]
      BY <2>1, <2>5, <3>1, <3>3 DEF worldVars
    <3>4. QED
      BY <3>2, <3>3
  <2>8. QED
    BY <2>6, <2>7, PartyInvNext
<1>4. ASSUME NEW p \in Players, LeaveParty(p) \/ Logout(p) PROVE PartyInv'
    BY <1>4, LeaveKeeps, LogoutKeeps
<1>5. ASSUME NEW p \in Players, Login(p) PROVE PartyInv'
  <2>1. TypeOK' /\ OfflineInNone'
    BY <1>1, <1>5 DEF Login, TypeOK, OfflineInNone, worldVars
  <2>2. UNCHANGED <<parties, party, invitePartyList, level, room>>
    BY <1>5 DEF Login, worldVars
  <2>3. QED
    BY <2>1, <2>2, PartyInvParts, PartyInvNext
<1>6. ASSUME NEW p \in Players, Fight(p) PROVE PartyInv'
  <2> DEFINE g == parties[party[p]]
             d == [g EXCEPT !.ticks = @ \cup {p}]
             h == UpdatedIn(d, level, room)
  <2>1. /\ party[p] # None /\ parties' = [parties EXCEPT ![party[p]] = h]
        /\ UNCHANGED <<party, invitePartyList, online, worldVars>>
    BY <1>6 DEF Fight, Updated
  <2>2. d \in Groups /\ SamePeople(g, d)
    BY <1>1, <2>1 DEF Groups, SamePeople
  <2> HIDE DEF d
  <2>3. h \in Groups /\ SamePeople(d, h) /\ Awake(h, level, room)
    BY <2>2, UpdatedFacts
  <2> HIDE DEF h
  <2>4. SamePeople(g, h)
    BY <2>2, <2>3 DEF SamePeople
  <2>5. QED
    BY <2>1, <2>3, <2>4, SharingKeeps
<1>7. ASSUME NEW p \in Players, IdleStatus(p) PROVE PartyInv'
  <2>1. /\ party[p] # None /\ parties' = [parties EXCEPT ![party[p]] = Cleared(parties[party[p]], p)]
        /\ UNCHANGED <<party, invitePartyList, online, worldVars>>
    BY <1>7 DEF IdleStatus
  <2>2. parties[party[p]] \in Groups /\ Awake(parties[party[p]], level, room)
    BY <1>1, <2>1
  <2>3. QED
    BY <2>1, <2>2, ClearedFacts, SharingKeeps
<1>8. ASSUME NEW p \in Players, FightIsLongAgo(p) PROVE PartyInv'
  <2> DEFINE g == parties[party[p]]
             h == [g EXCEPT !.ticks = @ \ {p}]
  <2>1. /\ party[p] # None /\ parties' = [parties EXCEPT ![party[p]] = h]
        /\ UNCHANGED <<party, invitePartyList, online, worldVars>>
    BY <1>8 DEF FightIsLongAgo
  <2>2. g \in Groups /\ Awake(g, level, room)
    BY <1>1, <2>1
  <2> HIDE DEF g
  <2>3. /\ h \in Groups /\ SamePeople(g, h) /\ h.ticks = g.ticks \ {p}
        /\ h.active = g.active /\ h.enabled = g.enabled
    BY <2>2 DEF Groups, SamePeople
  <2> HIDE DEF h
  <2>4. CanEnable(h, level, room) => CanEnable(g, level, room)
    BY <2>3 DEF CanEnable, CanUse, All, SamePeople
  <2>5. Awake(h, level, room)
    BY <2>2, <2>3, <2>4 DEF Awake, SamePeople
  <2>6. QED
    BY <2>1, <2>3, <2>5, SharingKeeps DEF g
<1>9. ASSUME NEW p \in Players, NEW b \in BOOLEAN, SetSharedExperience(p, b) PROVE PartyInv'
  <2> DEFINE g == parties[party[p]]
             e == IF b THEN CanEnable(g, level, room) ELSE g.enabled
             h == [g EXCEPT !.active = b, !.enabled = e]
  <2>1. /\ party[p] # None /\ parties' = [parties EXCEPT ![party[p]] = h]
        /\ UNCHANGED <<party, invitePartyList, online, worldVars>>
    BY <1>9 DEF SetSharedExperience, Leads
  <2>2. g \in Groups
    BY <1>1, <2>1
  <2> HIDE DEF g
  <2>3. e \in BOOLEAN
    BY <2>2 DEF Groups, CanEnable
  <2>4. b => (e <=> CanEnable(g, level, room))
    OBVIOUS
  <2> HIDE DEF e
  <2>5. /\ h \in Groups /\ SamePeople(g, h) /\ h.ticks = g.ticks
        /\ h.active = b /\ h.enabled = e
    BY <2>2, <2>3 DEF Groups, SamePeople
  <2> HIDE DEF h
  <2>6. CanEnable(h, level, room) <=> CanEnable(g, level, room)
    BY <2>5, SameCanEnable DEF SamePeople
  <2>7. Awake(h, level, room)
    BY <2>4, <2>5, <2>6 DEF Awake
  <2>8. QED
    BY <2>1, <2>5, <2>7, SharingKeeps DEF g
<1>10. ASSUME NEW p \in Players, NEW to \in Rooms, CreatureMove(p, to) PROVE PartyInv'
  <2>1. /\ level' \in [Players -> Levels] /\ room' \in [Players -> Rooms]
        /\ \A q \in Players \ {p} : level'[q] = level[q] /\ room'[q] = room[q]
        /\ UpdateOwn(p) /\ UNCHANGED <<party, invitePartyList, online>>
    BY <1>1, <1>10 DEF CreatureMove, TypeOK
  <2>2. QED
    BY <2>1, WorldKeeps
<1>11. ASSUME NEW p \in Players, NEW to \in Levels, ChangeLevel(p, to) PROVE PartyInv'
  <2>1. /\ level' \in [Players -> Levels] /\ room' \in [Players -> Rooms]
        /\ \A q \in Players \ {p} : level'[q] = level[q] /\ room'[q] = room[q]
        /\ UpdateOwn(p) /\ UNCHANGED <<party, invitePartyList, online>>
    BY <1>1, <1>11 DEF ChangeLevel, TypeOK
  <2>2. QED
    BY <2>1, WorldKeeps
<1>12. CASE UNCHANGED vars
  <2>1. UNCHANGED <<parties, party, invitePartyList, online, level, room>>
    BY <1>12 DEF vars, worldVars
  <2>2. TypeOK' /\ OfflineInNone'
    BY <1>1, <2>1 DEF TypeOK, OfflineInNone
  <2>3. QED
    BY <2>1, <2>2, PartyInvParts, PartyInvNext
<1>13. QED
    BY <1>2, <1>3, <1>4, <1>5, <1>6, <1>7, <1>8, <1>9, <1>10, <1>11, <1>12 DEF Next

(* For any number of players, parties, places and levels: whatever they do  *)
(* and whoever leaves the game, no pointer between a player and a party is  *)
(* left behind, and no party that could share experience fails to.          *)
THEOREM PartiesSoundAlways == Spec => []PartiesSound
<1>1. PartyInv => PartiesSound
    BY DEF PartyInv
<1>2. QED
    BY <1>1, PartyInitInv, PartyStep, PTL DEF Spec

-----------------------------------------------------------------------------
(* Chat channels and guilds.                                                *)

(* One lemma for each part of ChatInv, with one case for each action that   *)
(* can disturb it.                                                          *)
LEMMA ChatInitInv == ChatInit => ChatInv
<1> SUFFICES ASSUME ChatInit PROVE ChatInv
    OBVIOUS
<1>1. \A c \in Common : users[c] = [made |-> c = Everybody, in |-> {}]
    BY DEF ChatInit, NoUsers
<1>2. users \in [Common -> [made : BOOLEAN, in : SUBSET Talkers]]
  <2>1. ASSUME NEW c \in Common PROVE users[c] \in [made : BOOLEAN, in : SUBSET Talkers]
    <3>1. PICK b \in BOOLEAN : users[c] = [made |-> b, in |-> {}]
      BY <1>1
    <3>2. QED
      BY <3>1
  <2>2. QED
    BY <2>1 DEF ChatInit
<1>3. CommonSound
  <2>1. ASSUME NEW c \in Common PROVE users[c].in = {}
    <3>1. PICK b : users[c] = [made |-> b, in |-> {}]
      BY <1>1
    <3>2. QED
      BY <3>1
  <2>2. QED
    BY <2>1 DEF CommonSound
<1>4. QED
    BY <1>2, <1>3, ChannelsAssumption
       DEF ChatInit, ChatInv, ChatTypeOK, MembersSound, PrivateSound, GuildsSound, NoChannel

(* One channel whose users change.                                          *)
LEMMA UsersOfOne ==
    ASSUME ChatTypeOK, NEW c \in Common, NEW v \in SUBSET Talkers,
           users' = [users EXCEPT ![c].in = v]
    PROVE  /\ users' \in [Common -> [made : BOOLEAN, in : SUBSET Talkers]]
           /\ \A d \in Common : users'[d].in = IF d = c THEN v ELSE users[d].in
<1>1. users[c] \in [made : BOOLEAN, in : SUBSET Talkers]
    BY DEF ChatTypeOK
<1> DEFINE u == [users[c] EXCEPT !.in = v]
<1>2. u \in [made : BOOLEAN, in : SUBSET Talkers] /\ u.in = v
    BY <1>1
<1>3. users' = [users EXCEPT ![c] = u]
    OBVIOUS
<1> HIDE DEF u
<1>4. QED
    BY <1>2, <1>3 DEF ChatTypeOK

(* Every request keeps the types.                                           *)
LEMMA ChatTypesKept == ASSUME ChatTypeOK, ChatNext PROVE ChatTypeOK'
<1> USE DEF ChatTypeOK
<1>1. requests' \in Nat
    BY DEF ChatNext
<1>2. PICK p \in Talkers : RequestOf(p)
    BY DEF ChatNext, Request
<1> NoChannel \in [owner : Talkers \cup {Noone}, invites : SUBSET Talkers, users : SUBSET Talkers]
    BY DEF NoChannel
<1>3. CASE RequestChannels(p)
    BY <1>1, <1>3 DEF RequestChannels
<1>4. CASE CreatePrivate(p)
    BY <1>1, <1>4 DEF CreatePrivate
<1>5. ASSUME OutOfAllChannels(p)
      PROVE  /\ users' \in [Common -> [made : BOOLEAN, in : SUBSET Talkers]]
             /\ private' \in [PrivateIds -> [owner : Talkers \cup {Noone},
                                             invites : SUBSET Talkers, users : SUBSET Talkers]]
    BY <1>5 DEF OutOfAllChannels
<1>6. CASE ChatRelogin(p)
    BY <1>1, <1>5, <1>6 DEF ChatRelogin
<1>7. CASE ChatLogout(p)
    BY <1>1, <1>5, <1>7 DEF ChatLogout, WithoutMember, Deleted
<1>8. CASE \E c \in Common : OpenChannel(p, c) \/ CloseChannel(p, c)
  <2>1. PICK c \in Common : OpenChannel(p, c) \/ CloseChannel(p, c)
    BY <1>8
  <2>2. users[c].in \in SUBSET Talkers
    OBVIOUS
  <2>3. PICK v \in SUBSET Talkers : users' = [users EXCEPT ![c].in = v]
    BY <2>1, <2>2 DEF OpenChannel, CloseChannel
  <2>4. UNCHANGED <<inGame, myParty, myGuild, loaded, membersOnline, lost, refusals, private>>
    BY <2>1 DEF OpenChannel, CloseChannel
  <2>5. QED
    BY <1>1, <2>3, <2>4, UsersOfOne
<1>9. CASE \E i \in PrivateIds : OpenPrivate(p, i) \/ ClosePrivate(p, i)
  <2>1. PICK i \in PrivateIds : OpenPrivate(p, i) \/ ClosePrivate(p, i)
    BY <1>9
  <2>2. CASE OpenPrivate(p, i)
    BY <1>1, <2>2 DEF OpenPrivate
  <2>3. CASE ClosePrivate(p, i)
    <3>1. private[i] \in [owner : Talkers \cup {Noone}, invites : SUBSET Talkers, users : SUBSET Talkers]
      OBVIOUS
    <3>2. CASE private[i].owner = p
      BY <1>1, <2>3, <3>2 DEF ClosePrivate
    <3>3. CASE private[i].owner # p
      <4>1. [private[i] EXCEPT !.users = private[i].users \ {p}]
              \in [owner : Talkers \cup {Noone}, invites : SUBSET Talkers, users : SUBSET Talkers]
        BY <3>1
      <4>2. private' = [private EXCEPT ![i] = [private[i] EXCEPT !.users = private[i].users \ {p}]]
        BY <2>3, <3>3 DEF ClosePrivate
      <4>3. QED
        BY <1>1, <2>3, <4>1, <4>2 DEF ClosePrivate
    <3>4. QED
      BY <3>2, <3>3
  <2>4. QED
    BY <2>1, <2>2, <2>3
<1>10. CASE \E q \in Talkers, i \in PrivateIds : ChannelInvite(p, q, i) \/ ChannelExclude(p, q, i)
  <2>1. PICK q \in Talkers, i \in PrivateIds : ChannelInvite(p, q, i) \/ ChannelExclude(p, q, i)
    BY <1>10
  <2> DEFINE Channel == [owner : Talkers \cup {Noone}, invites : SUBSET Talkers, users : SUBSET Talkers]
  <2>2. private[i] \in Channel /\ private \in [PrivateIds -> Channel]
    OBVIOUS
  <2>3. CASE ChannelInvite(p, q, i)
    <3>1. [private[i] EXCEPT !.invites = private[i].invites \cup {q}] \in Channel
      BY <2>2
    <3>2. private' = [private EXCEPT ![i] = [private[i] EXCEPT !.invites = private[i].invites \cup {q}]]
      BY <2>2, <2>3 DEF ChannelInvite
    <3>3. private' \in [PrivateIds -> Channel]
      BY <2>2, <3>1, <3>2
    <3>4. QED
      BY <1>1, <2>3, <3>3 DEF ChannelInvite
  <2>4. CASE ChannelExclude(p, q, i)
    <3>1. [private[i] EXCEPT !.invites = private[i].invites \ {q}, !.users = private[i].users \ {q}] \in Channel
      BY <2>2
    <3>2. private' = [private EXCEPT ![i] = [private[i] EXCEPT !.invites = private[i].invites \ {q},
                                                               !.users = private[i].users \ {q}]]
      BY <2>2, <2>4 DEF ChannelExclude
    <3>3. private' \in [PrivateIds -> Channel]
      BY <2>2, <3>1, <3>2
    <3>4. QED
      BY <1>1, <2>4, <3>3 DEF ChannelExclude
  <2>5. QED
    BY <2>1, <2>3, <2>4
<1>11. CASE \E g \in PartyObjects \cup {Noone} : ChangeParty(p, g)
    BY <1>1, <1>11 DEF ChangeParty
<1>12. CASE \E g \in Guilds \cup {Noone} : ChatLogin(p, g) \/ LoadOffline(p, g) \/ SetGuild(p, g)
  <2>1. PICK g \in Guilds \cup {Noone} : ChatLogin(p, g) \/ LoadOffline(p, g) \/ SetGuild(p, g)
    BY <1>12
  <2>2. CASE ChatLogin(p, g) \/ LoadOffline(p, g)
    <3>1. CASE ChatLogin(p, g)
      <4>1. membersOnline' \in [Guilds -> SUBSET Talkers]
        BY <3>1 DEF ChatLogin
      <4>2. inGame' \subseteq Talkers /\ loaded' \subseteq Guilds
            /\ myGuild' \in [Talkers -> Guilds \cup {Noone}]
        BY <3>1 DEF ChatLogin
      <4>3. UNCHANGED <<myParty, lost, refusals, users, private>>
        BY <3>1 DEF ChatLogin
      <4>4. QED
        BY <1>1, <4>1, <4>2, <4>3
    <3>2. CASE LoadOffline(p, g)
      <4>1. loaded' \subseteq Guilds
        BY <3>2 DEF LoadOffline
      <4>2. UNCHANGED <<inGame, myParty, myGuild, membersOnline, lost, refusals, users, private>>
        BY <3>2 DEF LoadOffline
      <4>3. QED
        BY <1>1, <4>1, <4>2
    <3>3. QED
      BY <2>2, <3>1, <3>2
  <2>3. CASE SetGuild(p, g)
    <3>1. UNCHANGED <<inGame, myParty, users, private>>
      BY <2>3 DEF SetGuild
    <3>2. CASE JoinGuild(p, g)
      BY <1>1, <3>1, <3>2 DEF JoinGuild, WithoutMember, Deleted
    <3>3. CASE FindNoRank(p, g)
      BY <1>1, <3>1, <3>3 DEF FindNoRank
    <3>4. QED
      BY <2>3, <3>2, <3>3 DEF SetGuild
  <2>4. QED
    BY <2>1, <2>2, <2>3
<1>13. QED
    BY <1>2, <1>3, <1>4, <1>6, <1>7, <1>8, <1>9, <1>10, <1>11, <1>12 DEF RequestOf

(* Who leaves all channels leaves nothing of himself behind.                *)
LEMMA PrivateLeft ==
    ASSUME ChatTypeOK, PrivateSound, NEW p \in Talkers, OutOfAllChannels(p),
           inGame' \in {inGame, inGame \ {p}}
    PROVE  PrivateSound'
<1>1. ASSUME NEW i \in PrivateIds
      PROVE  /\ private[i].owner = p => private'[i] = NoChannel
             /\ private[i].owner # p =>
                  /\ private'[i].owner = private[i].owner
                  /\ private'[i].invites = private[i].invites \ {p}
                  /\ private'[i].users = private[i].users \ {p}
    BY DEF OutOfAllChannels, ChatTypeOK
<1>2. QED
    BY <1>1 DEF PrivateSound, NoChannel

(* Channels that all may join, or the members of a party or guild.          *)
LEMMA CommonKept == ASSUME ChatInv, ChatNext PROVE CommonSound'
<1> USE DEF ChatInv, ChatTypeOK, MembersSound, CommonSound
<1>1. PICK p \in Talkers : RequestOf(p)
    BY DEF ChatNext, Request
<1>2. CASE RequestChannels(p)
    BY <1>2 DEF RequestChannels
<1>3. CASE ChatRelogin(p)
    BY <1>3 DEF ChatRelogin, OutOfAllChannels
<1>4. CASE ChatLogout(p)
    BY <1>4 DEF ChatLogout, OutOfAllChannels
<1>5. CASE \E c \in Common : OpenChannel(p, c) \/ CloseChannel(p, c)
  <2>1. PICK c \in Common : OpenChannel(p, c) \/ CloseChannel(p, c)
    BY <1>5
  <2>2. PICK v \in SUBSET inGame : users' = [users EXCEPT ![c].in = v]
    BY <2>1 DEF OpenChannel, CloseChannel
  <2>3. inGame' = inGame
    BY <2>1 DEF OpenChannel, CloseChannel
  <2>4. QED
    BY <2>2, <2>3, UsersOfOne
<1>6. CASE \E g \in Guilds \cup {Noone} : ChatLogin(p, g) \/ LoadOffline(p, g) \/ SetGuild(p, g)
    BY <1>6 DEF ChatLogin, LoadOffline, SetGuild
<1>7. CASE UNCHANGED <<inGame, users>>
    BY <1>7
<1>8. QED
    BY <1>1, <1>2, <1>3, <1>4, <1>5, <1>6, <1>7
       DEF RequestOf, CreatePrivate, OpenPrivate, ClosePrivate, ChannelInvite, ChannelExclude, ChangeParty

(* Private channels.                                                        *)
LEMMA PrivateKept == ASSUME ChatInv, ChatNext PROVE PrivateSound'
<1> USE DEF ChatInv, ChatTypeOK, MembersSound
<1>1. PICK p \in Talkers : RequestOf(p)
    BY DEF ChatNext, Request
<1> p # Noone
    BY ChannelsAssumption
<1>2. CASE CreatePrivate(p)
    BY <1>2 DEF CreatePrivate, PrivateSound
<1>3. CASE ChatRelogin(p)
    BY <1>3, PrivateLeft DEF ChatRelogin
<1>4. CASE ChatLogout(p)
    BY <1>4, PrivateLeft DEF ChatLogout
<1>5. CASE \E i \in PrivateIds : OpenPrivate(p, i) \/ ClosePrivate(p, i)
  <2>1. PICK i \in PrivateIds : OpenPrivate(p, i) \/ ClosePrivate(p, i)
    BY <1>5
  <2>2. CASE OpenPrivate(p, i)
    BY <2>2 DEF OpenPrivate, OpenTo, IsInvited, PrivateSound
  <2>3. CASE ClosePrivate(p, i)
    <3>1. UNCHANGED inGame /\ \A j \in PrivateIds \ {i} : private'[j] = private[j]
      BY <2>3 DEF ClosePrivate
    <3>2. \/ private'[i] = NoChannel
          \/ /\ private[i].owner # p
             /\ private'[i].owner = private[i].owner
             /\ private'[i].invites = private[i].invites
             /\ private'[i].users = private[i].users \ {p}
      <4>1. CASE private[i].owner = p
        BY <2>3, <4>1 DEF ClosePrivate
      <4>2. CASE private[i].owner # p
        <5>1. private'[i] = [private[i] EXCEPT !.users = private[i].users \ {p}]
          BY <2>3, <4>2 DEF ClosePrivate
        <5>2. private[i] \in [owner : Talkers \cup {Noone}, invites : SUBSET Talkers, users : SUBSET Talkers]
          OBVIOUS
        <5>3. QED
          BY <4>2, <5>1, <5>2
      <4>3. QED
        BY <4>1, <4>2
    <3>3. QED
      BY <3>1, <3>2 DEF PrivateSound, NoChannel
  <2>4. QED
    BY <2>1, <2>2, <2>3
<1>6. CASE \E q \in Talkers, i \in PrivateIds : ChannelInvite(p, q, i) \/ ChannelExclude(p, q, i)
  <2>1. PICK q \in Talkers, i \in PrivateIds : ChannelInvite(p, q, i) \/ ChannelExclude(p, q, i)
    BY <1>6
  <2>2. q \in inGame /\ inGame' = inGame
    BY <2>1 DEF ChannelInvite, ChannelExclude
  <2>3. \A j \in PrivateIds : private'[j].owner = private[j].owner
    BY <2>1 DEF ChannelInvite, ChannelExclude
  <2>4. \A j \in PrivateIds \ {i} : private'[j] = private[j]
    BY <2>1 DEF ChannelInvite, ChannelExclude
  <2>5. CASE ChannelInvite(p, q, i)
    <3>1. private'[i].users = private[i].users /\ private'[i].invites = private[i].invites \cup {q}
      BY <2>5 DEF ChannelInvite
    <3>2. QED
      BY <2>2, <2>3, <2>4, <3>1 DEF PrivateSound
  <2>6. CASE ChannelExclude(p, q, i)
    <3>1. /\ private[i].owner = p /\ p # q
          /\ private'[i].users = private[i].users \ {q} /\ private'[i].invites = private[i].invites \ {q}
      BY <2>6 DEF ChannelExclude
    <3>2. QED
      BY <2>2, <2>3, <2>4, <3>1 DEF PrivateSound
  <2>7. QED
    BY <2>1, <2>5, <2>6
<1>7. CASE \E g \in Guilds \cup {Noone} : ChatLogin(p, g) \/ LoadOffline(p, g) \/ SetGuild(p, g)
  <2>1. inGame \subseteq inGame' /\ private' = private
    BY <1>7 DEF ChatLogin, LoadOffline, SetGuild
  <2>2. QED
    BY <2>1 DEF PrivateSound
<1>8. CASE UNCHANGED <<inGame, private>>
    BY <1>8 DEF PrivateSound
<1>9. QED
    BY <1>1, <1>2, <1>3, <1>4, <1>5, <1>6, <1>7, <1>8
       DEF RequestOf, RequestChannels, OpenChannel, CloseChannel, ChangeParty

(* Guilds: one lemma for each way a player leaves the list of one.          *)
LEMMA NoRankKept ==
    ASSUME ChatInv, NEW p \in Talkers, NEW g \in Guilds, p \in inGame, inGame' = inGame, FindNoRank(p, g)
    PROVE  GuildsSound'
<1> USE DEF ChatInv, ChatTypeOK, MembersSound, FindNoRank
<1>1. \A h \in Guilds : myGuild[p] = h => <<p, h>> \in refusals'
    BY ChannelsAssumption
<1>2. refusals \subseteq refusals'
    OBVIOUS
<1>3. \A q \in Talkers : myGuild'[q] = IF q = p THEN Noone ELSE myGuild[q]
    OBVIOUS
<1>4. \A q \in Talkers : myGuild'[q] # Noone => myGuild'[q] \in loaded' /\ q \in membersOnline'[myGuild'[q]]
    BY <1>3 DEF GuildsSound
<1>5. ASSUME NEW h \in Guilds, NEW q \in membersOnline'[h]
      PROVE  q \in inGame' /\ (myGuild'[q] = h \/ <<q, h>> \in refusals')
  <2>1. q \in inGame /\ q \in Talkers /\ (myGuild[q] = h \/ <<q, h>> \in refusals)
    BY <1>5 DEF GuildsSound
  <2>2. QED
    BY <1>1, <1>2, <1>3, <2>1
<1>6. lost' \subseteq {h \in Guilds : \E q \in Talkers : <<q, h>> \in refusals'}
    BY <1>2 DEF GuildsSound
<1>7. Rankless # {}
    OBVIOUS
<1>8. QED
    BY <1>4, <1>5, <1>6, <1>7 DEF GuildsSound

LEMMA JoinKept ==
    ASSUME ChatInv, NEW p \in Talkers, NEW g \in Guilds \cup {Noone}, SetGuild(p, g), JoinGuild(p, g)
    PROVE  GuildsSound'
<1> USE DEF ChatInv, ChatTypeOK, MembersSound
<1>1. /\ p \in inGame /\ inGame' = inGame /\ g # myGuild[p]
      /\ myGuild' = [myGuild EXCEPT ![p] = g]
      /\ g # Noone => g \in Guilds /\ g \in loaded
      /\ refusals' = refusals /\ lost' = lost
    BY DEF SetGuild, JoinGuild
<1>2. \A h \in Guilds : membersOnline'[h] =
         IF h = g THEN membersOnline[h] \cup {p}
         ELSE IF h = myGuild[p] THEN membersOnline[h] \ {p} ELSE membersOnline[h]
    BY DEF SetGuild, JoinGuild, WithoutMember
<1>3. \A h \in loaded : h \in loaded' \/ (h = myGuild[p] /\ membersOnline'[h] = {})
    BY DEF JoinGuild, Deleted
<1>4. ASSUME NEW q \in Talkers, myGuild'[q] # Noone
      PROVE  myGuild'[q] \in loaded' /\ q \in membersOnline'[myGuild'[q]]
  <2>1. CASE q = p
    BY <1>1, <1>2, <1>3, <1>4, <2>1
  <2>2. CASE q # p
    <3>1. /\ myGuild'[q] = myGuild[q] /\ myGuild[q] \in Guilds
          /\ myGuild[q] \in loaded /\ q \in membersOnline[myGuild[q]]
      BY <1>1, <1>4, <2>2 DEF GuildsSound
    <3>2. q \in membersOnline'[myGuild[q]]
      BY <1>2, <2>2, <3>1
    <3>3. QED
      BY <1>3, <3>1, <3>2
  <2>3. QED
    BY <2>1, <2>2
<1>5. ASSUME NEW h \in Guilds, NEW q \in membersOnline'[h]
      PROVE  q \in inGame' /\ (myGuild'[q] = h \/ <<q, h>> \in refusals')
  <2>1. q \in Talkers
    BY <1>2, <1>5
  <2>2. CASE q = p
    <3>1. CASE h = g
      BY <1>1, <2>2, <3>1
    <3>2. CASE h # g
      <4>1. h # myGuild[p] /\ q \in membersOnline[h]
        BY <1>2, <1>5, <2>2, <3>2
      <4>2. QED
        BY <1>1, <1>5, <2>2, <4>1 DEF GuildsSound
    <3>3. QED
      BY <3>1, <3>2
  <2>3. CASE q # p
    <3>1. q \in membersOnline[h]
      BY <1>2, <1>5, <2>3
    <3>2. q \in inGame /\ (myGuild[q] = h \/ <<q, h>> \in refusals)
      BY <1>5, <3>1 DEF GuildsSound
    <3>3. QED
      BY <1>1, <2>1, <2>3, <3>2
  <2>4. QED
    BY <2>2, <2>3
<1>6. QED
    BY <1>1, <1>4, <1>5 DEF GuildsSound

LEMMA LogoutKept ==
    ASSUME ChatInv, NEW p \in Talkers, ChatLogout(p)
    PROVE  GuildsSound'
<1> USE DEF ChatInv, ChatTypeOK, MembersSound
<1>1. /\ inGame' = inGame \ {p} /\ refusals' = refusals
      /\ \A q \in Talkers : myGuild'[q] = IF q = p THEN Noone ELSE myGuild[q]
      /\ \A h \in Guilds : membersOnline'[h] = membersOnline[h] \ {p}
      /\ lost' = lost \cup {g \in Guilds \ {myGuild[p]} : p \in membersOnline[g]}
    BY DEF ChatLogout
<1>2. \A h \in loaded : h \in loaded' \/ (h = myGuild[p] /\ membersOnline'[h] = {})
    BY DEF ChatLogout, Deleted
<1>3. ASSUME NEW q \in Talkers, myGuild'[q] # Noone
      PROVE  myGuild'[q] \in loaded' /\ q \in membersOnline'[myGuild'[q]]
  <2>1. /\ q # p /\ myGuild'[q] = myGuild[q] /\ myGuild[q] \in Guilds
        /\ myGuild[q] \in loaded /\ q \in membersOnline[myGuild[q]]
    BY <1>1, <1>3 DEF GuildsSound
  <2>2. q \in membersOnline'[myGuild[q]]
    BY <1>1, <2>1
  <2>3. QED
    BY <1>2, <2>1, <2>2
<1>4. ASSUME NEW h \in Guilds, NEW q \in membersOnline'[h]
      PROVE  q \in inGame' /\ (myGuild'[q] = h \/ <<q, h>> \in refusals')
  <2>1. q # p /\ q \in membersOnline[h]
    BY <1>1, <1>4
  <2>2. q \in inGame /\ q \in Talkers /\ (myGuild[q] = h \/ <<q, h>> \in refusals)
    BY <1>4, <2>1 DEF GuildsSound
  <2>3. QED
    BY <1>1, <2>1, <2>2
<1>5. ASSUME NEW h \in lost'
      PROVE  h \in Guilds /\ \E q \in Talkers : <<q, h>> \in refusals'
  <2>1. CASE h \in lost
    BY <1>1, <2>1 DEF GuildsSound
  <2>2. CASE h \in Guilds \ {myGuild[p]} /\ p \in membersOnline[h]
    BY <1>1, <2>2 DEF GuildsSound
  <2>3. QED
    BY <1>1, <1>5, <2>1, <2>2
<1>6. Rankless = {} => refusals' = {}
    BY <1>1 DEF GuildsSound
<1>7. lost' \subseteq {h \in Guilds : \E q \in Talkers : <<q, h>> \in refusals'}
    BY <1>5
<1>8. \A h \in Guilds : membersOnline'[h] \subseteq {q \in inGame' : myGuild'[q] = h \/ <<q, h>> \in refusals'}
    BY <1>4
<1>9. QED
    BY <1>3, <1>6, <1>7, <1>8 DEF GuildsSound

LEMMA GuildsKept == ASSUME ChatInv, ChatNext PROVE GuildsSound'
<1> USE DEF ChatInv, ChatTypeOK, MembersSound
<1>1. PICK p \in Talkers : RequestOf(p)
    BY DEF ChatNext, Request
<1>2. CASE ChatLogout(p)
    BY <1>2, LogoutKept
<1>3. CASE \E g \in Guilds \cup {Noone} : ChatLogin(p, g) \/ LoadOffline(p, g) \/ SetGuild(p, g)
  <2>1. PICK g \in Guilds \cup {Noone} : ChatLogin(p, g) \/ LoadOffline(p, g) \/ SetGuild(p, g)
    BY <1>3
  <2>2. CASE ChatLogin(p, g)
    <3>1. /\ p \notin inGame /\ inGame' = inGame \cup {p} /\ UNCHANGED <<lost, refusals>>
          /\ loaded \subseteq loaded' /\ (g # Noone => g \in loaded')
          /\ \A q \in Talkers : myGuild'[q] = IF q = p THEN g ELSE myGuild[q]
          /\ \A h \in Guilds : membersOnline'[h] = IF h = g THEN membersOnline[h] \cup {p} ELSE membersOnline[h]
      BY <2>2 DEF ChatLogin
    <3>2. ASSUME NEW q \in Talkers, myGuild'[q] # Noone
          PROVE  myGuild'[q] \in loaded' /\ q \in membersOnline'[myGuild'[q]]
      <4>1. CASE q = p
        BY <3>1, <3>2, <4>1
      <4>2. CASE q # p
        <5>1. /\ myGuild'[q] = myGuild[q] /\ myGuild[q] \in Guilds
              /\ myGuild[q] \in loaded /\ q \in membersOnline[myGuild[q]]
          BY <3>1, <3>2, <4>2 DEF GuildsSound
        <5>2. \A h \in Guilds : membersOnline[h] \subseteq membersOnline'[h]
          BY <3>1
        <5>3. loaded \subseteq loaded'
          BY <3>1
        <5>4. q \in membersOnline'[myGuild[q]] /\ myGuild[q] \in loaded'
          BY <5>1, <5>2, <5>3
        <5>5. QED
          BY <5>1, <5>4
      <4>3. QED
        BY <4>1, <4>2
    <3>3. ASSUME NEW h \in Guilds, NEW q \in membersOnline'[h]
          PROVE  q \in inGame' /\ (myGuild'[q] = h \/ <<q, h>> \in refusals')
      <4>1. CASE q = p /\ h = g
        BY <3>1, <4>1
      <4>2. CASE q \in membersOnline[h]
        <5>1. q \in inGame /\ (myGuild[q] = h \/ <<q, h>> \in refusals)
          BY <4>2 DEF GuildsSound
        <5>2. q # p /\ q \in Talkers
          BY <3>1, <5>1
        <5>3. QED
          BY <3>1, <5>1, <5>2
      <4>3. QED
        BY <3>1, <3>3, <4>1, <4>2
    <3>4. \A h \in Guilds : membersOnline'[h] \subseteq {q \in inGame' : myGuild'[q] = h \/ <<q, h>> \in refusals'}
      BY <3>3
    <3>5. QED
      BY <3>1, <3>2, <3>4 DEF GuildsSound
  <2>3. CASE LoadOffline(p, g)
    <3>1. loaded \subseteq loaded' /\ UNCHANGED <<inGame, myGuild, membersOnline, lost, refusals>>
      BY <2>3 DEF LoadOffline
    <3>2. QED
      BY <3>1 DEF GuildsSound
  <2>4. CASE SetGuild(p, g)
    <3>1. p \in inGame /\ inGame' = inGame
      BY <2>4 DEF SetGuild
    <3>2. CASE JoinGuild(p, g)
      BY <2>4, <3>2, JoinKept
    <3>3. CASE FindNoRank(p, g)
      <4>1. g \in Guilds
        BY <3>3, ChannelsAssumption DEF FindNoRank
      <4>2. QED
        BY <3>1, <3>3, <4>1, NoRankKept
    <3>4. QED
      BY <2>4, <3>2, <3>3 DEF SetGuild
  <2>5. QED
    BY <2>1, <2>2, <2>3, <2>4
<1>4. CASE UNCHANGED <<inGame, myGuild, loaded, membersOnline, lost, refusals>>
    BY <1>4 DEF GuildsSound
<1>5. QED
    BY <1>1, <1>2, <1>3, <1>4
       DEF RequestOf, RequestChannels, OpenChannel, CloseChannel, ChangeParty, CreatePrivate, ChatRelogin,
           OpenPrivate, ClosePrivate, ChannelInvite, ChannelExclude

(* Whatever is asked, all the parts hold again.                             *)
LEMMA ChatStep == ChatInv /\ [ChatNext]_chatVars => ChatInv'
<1>1. ASSUME ChatInv, ChatNext PROVE ChatInv'
    BY <1>1, ChatTypesKept, CommonKept, PrivateKept, GuildsKept DEF ChatInv, MembersSound
<1>2. ASSUME ChatInv, UNCHANGED chatVars PROVE ChatInv'
    BY <1>2 DEF chatVars, ChatInv, ChatTypeOK, MembersSound, CommonSound, PrivateSound, GuildsSound
<1>3. QED
    BY <1>1, <1>2

(* For any number of talkers, parties, guilds and private channels: no      *)
(* channel keeps a pointer to a player who left the game, a private channel *)
(* has an owner in it and besides him only those invited, the guild a       *)
(* player points to is loaded and counts him in, and it counts nobody else  *)
(* and no deleted player unless another guild refused him for want of a     *)
(* rank (Player::setGuild); where all guilds have ranks, none does.         *)
THEOREM MembersSoundAlways == ChatSpec => []MembersSound
<1>1. ChatInv => MembersSound
    BY DEF ChatInv
<1>2. QED
    BY <1>1, ChatInitInv, ChatStep, PTL DEF ChatSpec

-----------------------------------------------------------------------------
(* Conditions.                                                              *)

-----------------------------------------------------------------------------
Kinds == {c.type : c \in Spells} \cup {"invisible"}
Given ==
    {c \in [type : Kinds, id : {Combat, RingSlot}, ends : Int, value : Int] :
        /\ c.type = "drunk" => c.value > 0
        /\ c.id = RingSlot => c.type = "invisible" /\ c.ends = Forever}

Val(c, types) == IF c.type \in types THEN c.value ELSE 0
Worth(list, types) == FoldLeft(LAMBDA n, c : IF c.type \in types THEN n + c.value ELSE n, 0, list)

WorthSolves(list, types, f) ==
    f = [s \in SUBSET (DOMAIN list) |->
            IF s = {} THEN 0
            ELSE IF list[Max(s)].type \in types THEN f[s \ {Max(s)}] + list[Max(s)].value
                 ELSE f[s \ {Max(s)}]]

(* What FoldLeft stands for: the chosen solution, taken at the whole list.  *)
LEMMA WorthIs ==
    ASSUME NEW list, NEW types
    PROVE  Worth(list, types) = (CHOOSE f : WorthSolves(list, types, f))[DOMAIN list]
  BY Zenon DEF Worth, WorthSolves, FoldLeft, MapThenFoldSet

WorthTrace(t, list, types) ==
    /\ t \in [0..Len(list) -> Int]
    /\ t[0] = 0
    /\ \A n \in 1..Len(list) : t[n] = t[n - 1] + Val(list[n], types)

(* The worth of a list can be counted through: the chosen function solves   *)
(* the equations (FoldSolved gives one that does), place after place.       *)
LEMMA WorthTraced ==
    ASSUME NEW list \in Seq(Given), NEW types
    PROVE  \E t : WorthTrace(t, list, types) /\ Worth(list, types) = t[Len(list)]
<1> DEFINE op(d, c) == IF c.type \in types THEN d + c.value ELSE d
           g == [p \in Int \X Given |-> op(p[1], p[2])]
           D == SUBSET (DOMAIN list)
<1>1. Len(list) \in Nat /\ DOMAIN list = 1..Len(list) /\ 0 \in Int
  OBVIOUS
<1>2. ASSUME NEW d \in Int, NEW c \in Given
      PROVE  op(d, c) \in Int /\ op(d, c) = d + Val(c, types) /\ g[<<d, c>>] = op(d, c)
  <2>1. op(d, c) \in Int /\ op(d, c) = d + Val(c, types)
    BY DEF Given, Val
  <2>2. <<d, c>> \in Int \X Given
    OBVIOUS
  <2> QED
    BY <2>1, <2>2
<1>3. g \in [Int \X Given -> Int]
  <2>1. ASSUME NEW p \in Int \X Given PROVE op(p[1], p[2]) \in Int
    BY <1>2
  <2> QED
    BY <2>1
<1> HIDE DEF g
<1>4. PICK f \in [D -> Int] : FoldSolves(g, 0, list, f)
  BY <1>1, <1>3, FoldSolved
<1>5. ASSUME NEW s \in D
      PROVE  f[s] = IF s = {} THEN 0 ELSE op(f[s \ {Max(s)}], list[Max(s)])
  <2>1. f[s] = IF s = {} THEN 0 ELSE g[<<f[s \ {Max(s)}], list[Max(s)]>>]
    BY <1>4 DEF FoldSolves
  <2>2. CASE s # {}
    <3>1. Max(s) \in DOMAIN list
      BY <1>1, <2>2, MaxIn
    <3>2. list[Max(s)] \in Given
      BY <3>1, <1>1
    <3>3. f[s \ {Max(s)}] \in Int
      OBVIOUS
    <3> QED
      BY <2>1, <2>2, <3>2, <3>3, <1>2
  <2>3. CASE s = {}
    BY <2>1, <2>3
  <2> QED
    BY <2>2, <2>3
<1>6. WorthSolves(list, types, f)
  <2>1. f = [s \in D |-> f[s]]
    OBVIOUS
  <2>2. f = [s \in D |-> IF s = {} THEN 0 ELSE op(f[s \ {Max(s)}], list[Max(s)])]
    BY <1>5, <2>1, Zenon
  <2> QED
    BY <2>2, Zenon DEF WorthSolves
<1> DEFINE h == CHOOSE k : WorthSolves(list, types, k)
<1>7. WorthSolves(list, types, h)
  BY <1>6
<1>8. Worth(list, types) = h[DOMAIN list]
  BY WorthIs
<1> HIDE DEF h
<1>9. ASSUME NEW s \in D
      PROVE  h[s] = IF s = {} THEN 0 ELSE op(h[s \ {Max(s)}], list[Max(s)])
  BY <1>7 DEF WorthSolves
<1> DEFINE t == [n \in 0..Len(list) |-> h[1..n]]
<1>10. t[0] = 0
  <2>1. 1..0 = {} /\ {} \in D /\ 0 \in 0..Len(list)
    BY <1>1
  <2> QED
    BY <2>1, <1>9
<1>11. ASSUME NEW n \in 1..Len(list) PROVE t[n] = op(t[n - 1], list[n]) /\ n - 1 \in 0..Len(list) /\ list[n] \in Given
  <2>1. n \in 0..Len(list) /\ n - 1 \in 0..Len(list) /\ list[n] \in Given
    BY <1>1
  <2>2. t[n] = h[1..n] /\ t[n - 1] = h[1..(n - 1)]
    BY <2>1
  <2>3. h[1..n] = op(h[1..(n - 1)], list[n])
    <3> HIDE DEF op
    <3>1. QED
      BY <1>1, <1>9, Stretches
  <2> QED
    BY <2>1, <2>2, <2>3
<1> HIDE DEF t, op
<1>12. ASSUME NEW n \in 0..Len(list) PROVE t[n] \in Int
  <2> DEFINE T == {m \in 0..Len(list) : t[m] \notin Int}
  <2>1. ASSUME T # {} PROVE FALSE
    <3>1. T \subseteq Nat
      OBVIOUS
    <3>2. PICK k \in T : \A m \in T : ~(m < k)
      BY <2>1, <3>1, LeastNumber
    <3>3. k # 0 /\ k \in 1..Len(list) /\ k - 1 < k
      BY <1>10, <1>1
    <3>4. t[k - 1] \in Int
      BY <3>2, <3>3, <1>11
    <3> QED
      BY <3>3, <3>4, <1>11, <1>2
  <2> QED
    BY <2>1
<1>13. t \in [0..Len(list) -> Int]
  BY <1>12 DEF t
<1>14. \A n \in 1..Len(list) : t[n] = t[n - 1] + Val(list[n], types)
  BY <1>11, <1>12, <1>2
<1>15. Worth(list, types) = t[Len(list)]
  BY <1>8, <1>1 DEF t
<1> QED
  BY <1>10, <1>13, <1>14, <1>15 DEF WorthTrace

(* Any count of a list is its worth.                                        *)
LEMMA WorthOf ==
    ASSUME NEW list, NEW types, NEW t
    PROVE  list \in Seq(Given) /\ WorthTrace(t, list, types)
              => Worth(list, types) = t[Len(list)] /\ Worth(list, types) \in Int
<1> SUFFICES ASSUME list \in Seq(Given) /\ WorthTrace(t, list, types)
             PROVE  Worth(list, types) = t[Len(list)] /\ Worth(list, types) \in Int
  OBVIOUS
<1>1. PICK u : WorthTrace(u, list, types) /\ Worth(list, types) = u[Len(list)]
  BY WorthTraced
<1>2. PICK n \in Nat : n = Len(list)
  OBVIOUS
<1>3. \A i \in 0..n : t[i] \in Int /\ u[i] \in Int
  BY <1>1, <1>2 DEF WorthTrace
<1>4. ASSUME NEW i \in 0..n, i # 0 PROVE t[i] - t[i - 1] = u[i] - u[i - 1]
  <2>1. i \in 1..Len(list) /\ i - 1 \in 0..n
    BY <1>2, <1>4
  <2>2. t[i] = t[i - 1] + Val(list[i], types) /\ u[i] = u[i - 1] + Val(list[i], types)
    BY <1>1, <2>1 DEF WorthTrace
  <2>3. list[i] \in Given
    BY <2>1
  <2>4. Val(list[i], types) \in Int
    BY <2>3 DEF Val, Given
  <2> QED
    BY <2>1, <2>2, <2>4, <1>3
<1>5. t[0] = 0 /\ u[0] = 0
  BY <1>1 DEF WorthTrace
<1>6. t[n] = u[n]
  BY <1>3, <1>4, <1>5, SameCount
<1> QED
  BY <1>1, <1>2, <1>3, <1>6

(* Each condition is worth a number.                                        *)
LEMMA ValInt ==
    ASSUME NEW c \in Given, NEW types
    PROVE  Val(c, types) \in Int
  BY DEF Val, Given

(* No condition is worth nothing.                                           *)
LEMMA WorthEmpty ==
    ASSUME NEW types
    PROVE  Worth(<<>>, types) = 0
<1>1. <<>> \in Seq(Given) /\ Len(<<>>) = 0
  OBVIOUS
<1>2. PICK u : WorthTrace(u, <<>>, types) /\ Worth(<<>>, types) = u[Len(<<>>)]
  BY <1>1, WorthTraced
<1> QED
  BY <1>1, <1>2 DEF WorthTrace

(* One more adds its worth.                                                 *)
LEMMA WorthPushed ==
    ASSUME NEW list \in Seq(Given), NEW c \in Given, NEW types
    PROVE  Worth(Append(list, c), types) = Worth(list, types) + Val(c, types)
<1>1. PICK t : WorthTrace(t, list, types) /\ Worth(list, types) = t[Len(list)]
  BY WorthTraced
<1>2. Val(c, types) \in Int
  BY ValInt
<1> DEFINE new == Append(list, c)
           u == [i \in 0..Len(new) |-> IF i <= Len(list) THEN t[i] ELSE t[Len(list)] + Val(c, types)]
<1>3. /\ new \in Seq(Given) /\ Len(list) \in Nat /\ Len(new) = Len(list) + 1
      /\ new[Len(new)] = c /\ \A i \in 1..Len(list) : new[i] = list[i]
  OBVIOUS
<1> HIDE DEF new
<1>4. /\ t[0] = 0 /\ \A i \in 0..Len(list) : t[i] \in Int
      /\ \A i \in 1..Len(list) : t[i] = t[i - 1] + Val(list[i], types)
  BY <1>1 DEF WorthTrace
<1>5. u \in [0..Len(new) -> Int] /\ u[0] = 0
  BY <1>2, <1>3, <1>4
<1>6. ASSUME NEW i \in 1..Len(new) PROVE u[i] = u[i - 1] + Val(new[i], types)
  BY <1>2, <1>3, <1>4
<1>7. u[Len(new)] = t[Len(list)] + Val(c, types)
  BY <1>3
<1> HIDE DEF u
<1>8. WorthTrace(u, new, types)
  BY <1>5, <1>6 DEF WorthTrace
<1>9. Worth(new, types) = u[Len(new)]
  BY <1>3, <1>8, WorthOf
<1> QED
  BY <1>1, <1>7, <1>9 DEF new

(* Two lists that are alike place by place are worth the same.              *)
LEMMA WorthAlike ==
    ASSUME NEW list \in Seq(Given), NEW new \in Seq(Given), Len(new) = Len(list), NEW types,
           \A i \in 1..Len(list) : Val(new[i], types) = Val(list[i], types)
    PROVE  Worth(new, types) = Worth(list, types)
<1>1. PICK t : WorthTrace(t, list, types) /\ Worth(list, types) = t[Len(list)]
  BY WorthTraced
<1>2. WorthTrace(t, new, types)
  BY <1>1 DEF WorthTrace
<1>3. Worth(new, types) = t[Len(new)]
  BY <1>2, WorthOf
<1> QED
  BY <1>1, <1>3

(* One in the place of another: the difference.                             *)
LEMMA WorthReplaced ==
    ASSUME NEW list \in Seq(Given), NEW k \in 1..Len(list), NEW c \in Given, NEW types
    PROVE  Worth([list EXCEPT ![k] = c], types) = Worth(list, types) - Val(list[k], types) + Val(c, types)
<1>1. PICK t : WorthTrace(t, list, types) /\ Worth(list, types) = t[Len(list)]
  BY WorthTraced
<1>2. Val(c, types) \in Int /\ Val(list[k], types) \in Int /\ Len(list) \in Nat
  BY ValInt
<1> DEFINE new == [list EXCEPT ![k] = c]
           d == Val(c, types) - Val(list[k], types)
           u == [i \in 0..Len(list) |-> IF i < k THEN t[i] ELSE t[i] + d]
<1>3. /\ new \in Seq(Given) /\ Len(list) \in Nat /\ Len(new) = Len(list)
      /\ new[k] = c /\ \A i \in 1..Len(list) : i # k => new[i] = list[i]
  OBVIOUS
<1> HIDE DEF new
<1>4. /\ t[0] = 0 /\ \A i \in 0..Len(list) : t[i] \in Int
      /\ \A i \in 1..Len(list) : t[i] = t[i - 1] + Val(list[i], types)
  BY <1>1 DEF WorthTrace
<1>5. u \in [0..Len(new) -> Int] /\ u[0] = 0
  BY <1>2, <1>3, <1>4
<1>6. ASSUME NEW i \in 1..Len(new) PROVE u[i] = u[i - 1] + Val(new[i], types)
  <2>1. i \in 1..Len(list) /\ i \in 0..Len(list) /\ i - 1 \in 0..Len(list) /\ t[i] \in Int /\ t[i - 1] \in Int
    BY <1>3, <1>4
  <2>2. list[i] \in Given
    BY <2>1
  <2>3. Val(list[i], types) \in Int /\ t[i] = t[i - 1] + Val(list[i], types)
    BY <2>1, <2>2, <1>4, ValInt
  <2>4. CASE i = k
    BY <2>1, <2>3, <2>4, <1>2, <1>3
  <2>5. CASE i # k
    BY <2>1, <2>3, <2>5, <1>2, <1>3
  <2> QED
    BY <2>4, <2>5
<1>7. u[Len(new)] = t[Len(list)] + d
  BY <1>3
<1> HIDE DEF u
<1>8. WorthTrace(u, new, types)
  BY <1>5, <1>6 DEF WorthTrace
<1>9. Worth(new, types) = u[Len(new)]
  BY <1>3, <1>8, WorthOf
<1> QED
  BY <1>1, <1>2, <1>3, <1>4, <1>7, <1>9 DEF new

(* One less takes its worth away.                                           *)
LEMMA WorthRemoved ==
    ASSUME NEW list \in Seq(Given), NEW k \in 1..Len(list), NEW types
    PROVE  Worth(RemoveAt(list, k), types) = Worth(list, types) - Val(list[k], types)
<1>1. PICK t : WorthTrace(t, list, types) /\ Worth(list, types) = t[Len(list)]
  BY WorthTraced
<1> DEFINE new == RemoveAt(list, k)
           d == Val(list[k], types)
           u == [i \in 0..(Len(list) - 1) |-> IF i < k THEN t[i] ELSE t[i + 1] - d]
<1>2. d \in Int /\ Len(list) \in Nat \ {0}
  BY ValInt
<1>3. /\ new \in Seq(Given) /\ Len(new) = Len(list) - 1
      /\ \A i \in 1..(Len(list) - 1) : new[i] = IF i < k THEN list[i] ELSE list[i + 1]
  BY RemoveAtIs
<1> HIDE DEF new
<1>4. /\ t[0] = 0 /\ \A i \in 0..Len(list) : t[i] \in Int
      /\ \A i \in 1..Len(list) : t[i] = t[i - 1] + Val(list[i], types)
  BY <1>1 DEF WorthTrace
<1>5. u \in [0..Len(new) -> Int] /\ u[0] = 0
  <2> HIDE DEF d
  <2>1. ASSUME NEW i \in 0..(Len(list) - 1) PROVE (IF i < k THEN t[i] ELSE t[i + 1] - d) \in Int
    <3>1. i \in 0..Len(list) /\ i + 1 \in 0..Len(list)
      BY <1>2
    <3> QED
      BY <3>1, <1>2, <1>4
  <2>2. 0 \in 0..(Len(list) - 1) /\ 0 < k
    BY <1>2
  <2> QED
    BY <2>1, <2>2, <1>3, <1>4
<1>6. ASSUME NEW i \in 1..Len(new) PROVE u[i] = u[i - 1] + Val(new[i], types)
  <2>1. /\ i \in 1..Len(list) /\ i + 1 \in 1..Len(list) /\ i \in 0..(Len(list) - 1) /\ i - 1 \in 0..(Len(list) - 1)
        /\ i \in 0..Len(list) /\ i - 1 \in 0..Len(list) /\ i + 1 \in 0..Len(list) /\ i \in Nat /\ (i - 1) + 1 = i /\ (i + 1) - 1 = i
        /\ k \in Nat
    BY <1>2, <1>3
  <2>2. list[i] \in Given /\ list[i + 1] \in Given /\ t[i] \in Int /\ t[i - 1] \in Int /\ t[i + 1] \in Int
    BY <2>1, <1>4
  <2>3. /\ Val(list[i], types) \in Int /\ t[i] = t[i - 1] + Val(list[i], types)
        /\ Val(list[i + 1], types) \in Int /\ t[i + 1] = t[i] + Val(list[i + 1], types)
    BY <2>1, <2>2, <1>4, ValInt
  <2> HIDE DEF d
  <2>4. CASE i < k
    <3>1. u[i] = t[i] /\ u[i - 1] = t[i - 1] /\ new[i] = list[i]
      BY <2>1, <2>4, <1>3
    <3> QED
      BY <3>1, <2>3
  <2>5. CASE i >= k /\ i - 1 < k
    <3>1. u[i] = t[i + 1] - d /\ u[i - 1] = t[i - 1] /\ new[i] = list[i + 1] /\ i = k
      BY <2>1, <2>5, <1>3
    <3>2. d = Val(list[i], types)
      BY <3>1 DEF d
    <3> QED
      BY <3>1, <3>2, <2>2, <2>3
  <2>6. CASE i - 1 >= k
    <3>1. u[i] = t[i + 1] - d /\ u[i - 1] = t[i] - d /\ new[i] = list[i + 1]
      BY <2>1, <2>6, <1>3
    <3> QED
      BY <3>1, <2>2, <2>3, <1>2
  <2> QED
    BY <2>1, <2>4, <2>5, <2>6
<1>7. u[Len(new)] = t[Len(list)] - d
  <2>1. Len(list) - 1 \in 0..(Len(list) - 1) /\ Len(list) \in 0..Len(list) /\ (Len(list) - 1) + 1 = Len(list)
    BY <1>2
  <2>2. CASE Len(list) - 1 < k
    <3>1. k = Len(list)
      BY <2>2, <1>2
    <3>2. t[Len(list)] = t[Len(list) - 1] + d /\ t[Len(list) - 1] \in Int
      BY <3>1, <2>1, <1>2, <1>4
    <3> QED
      BY <3>2, <2>1, <2>2, <1>2, <1>3
  <2>3. CASE Len(list) - 1 >= k
    BY <2>1, <2>3, <1>2, <1>3
  <2> QED
    BY <2>2, <2>3, <1>2
<1> HIDE DEF u
<1>8. WorthTrace(u, new, types)
  BY <1>5, <1>6 DEF WorthTrace
<1>9. Worth(new, types) = u[Len(new)]
  BY <1>3, <1>8, WorthOf
<1> QED
  BY <1>1, <1>7, <1>9 DEF new

Removal == Condition("remove", Combat, Past, 0)

(* Players, and their rows.                                                 *)
Bodies ==
    [online : BOOLEAN, health : 0..MaxHealth, deaths : Nat,
     conditions : Seq(Given), varSpeed : Int, varSkill : Int, drunkenness : Int,
     shown : BOOLEAN, ring : BOOLEAN, boots : BOOLEAN,
     stepping : BOOLEAN, waiting : Seq(Given \cup {Removal})]
Rows ==
    [health : 1..MaxHealth, conditions : Seq(Given), ring : BOOLEAN, boots : BOOLEAN]

Has(list, type) == \E i \in 1..Len(list) : list[i].type = type
Single(list) ==
    \A i, j \in 1..Len(list) : list[i].type = list[j].type /\ list[i].id = list[j].id => i = j

(* What a player has is what its conditions and boots give.                 *)
Exact(m) ==
    /\ m.varSpeed = Worth(m.conditions, Speeds) + IF m.boots THEN BootSpeed ELSE 0
    /\ m.varSkill = Worth(m.conditions, {"attributes"})
    /\ m.drunkenness > 0 <=> Has(m.conditions, "drunk")
    /\ m.shown <=> ~Has(m.conditions, "invisible")
    /\ Single(m.conditions)
Worn(list) == \E i \in 1..Len(list) : list[i].type = "invisible" /\ list[i].id = RingSlot
RingKept(m) == m.ring => Worn(m.conditions)
Due(m) == m.health = 0 => m.deaths > 0

Good == {m \in Bodies : Exact(m) /\ RingKept(m) /\ Due(m)}

(* What health has nothing to do with.                                      *)
SameBody(d, m) ==
    /\ d.conditions = m.conditions /\ d.varSpeed = m.varSpeed /\ d.varSkill = m.varSkill
    /\ d.drunkenness = m.drunkenness /\ d.shown = m.shown /\ d.ring = m.ring /\ d.boots = m.boots
    /\ d.stepping = m.stepping /\ d.waiting = m.waiting

(* What the effects and the ring depend on is the same.                     *)
LEMMA SameBodySame ==
    ASSUME NEW m, NEW d, SameBody(d, m)
    PROVE  Exact(d) = Exact(m) /\ RingKept(d) = RingKept(m)
  BY Zenon DEF SameBody, Exact, RingKept

(* What ConditionsAssumption says.                                          *)
LEMMA Parameters ==
    MaxHealth \in Nat /\ MaxHealth > 0 /\ BootSpeed \in Int /\ Spells \subseteq Given
<1>1. MaxHealth \in Nat /\ MaxHealth > 0 /\ BootSpeed \in Int
  BY ConditionsAssumption
<1>2. ASSUME NEW c \in Spells PROVE c \in Given
  <2>1. /\ c \in [type : STRING, id : {Combat}, ends : Int, value : Int] /\ Combat # RingSlot
        /\ c.type = "drunk" => c.value > 0
    BY ConditionsAssumption DEF Combat, RingSlot
  <2>2. c.type \in Kinds
    BY DEF Kinds
  <2>3. c \in [type : Kinds, id : {Combat, RingSlot}, ends : Int, value : Int] /\ c.id = Combat
    BY <2>1, <2>2
  <2> QED
    BY <2>1, <2>3 DEF Given
<1> QED
  BY <1>1, <1>2

(* The fields of a player.                                                  *)
LEMMA BodyFields ==
    ASSUME NEW m \in Bodies
    PROVE  /\ m.online \in BOOLEAN /\ m.health \in 0..MaxHealth /\ m.deaths \in Nat
           /\ m.conditions \in Seq(Given) /\ m.varSpeed \in Int /\ m.varSkill \in Int /\ m.drunkenness \in Int
           /\ m.shown \in BOOLEAN /\ m.ring \in BOOLEAN /\ m.boots \in BOOLEAN /\ m.stepping \in BOOLEAN
           /\ m.waiting \in Seq(Given \cup {Removal})
  BY DEF Bodies

(* changeHealth.                                                            *)
LEMMA ChangeHealthKeeps ==
    ASSUME NEW m \in Bodies, NEW n \in Int
    PROVE  /\ ChangeHealth(m, n) \in Bodies /\ SameBody(ChangeHealth(m, n), m)
           /\ Due(m) => Due(ChangeHealth(m, n))
<1> DEFINE health == IF m.health + n < 0 THEN 0
                     ELSE IF m.health + n > MaxHealth THEN MaxHealth ELSE m.health + n
           deaths == IF health = 0 THEN m.deaths + 1 ELSE m.deaths
<1>1. m.health \in 0..MaxHealth /\ m.deaths \in Nat /\ MaxHealth \in Nat
  BY BodyFields, Parameters
<1>2. health \in 0..MaxHealth /\ deaths \in Nat /\ (health = 0 => deaths > 0)
  BY <1>1
<1>3. ChangeHealth(m, n) = [m EXCEPT !.health = health, !.deaths = deaths]
  BY DEF ChangeHealth
<1> HIDE DEF health, deaths
<1> DEFINE d == [m EXCEPT !.health = health, !.deaths = deaths]
<1>4. d \in Bodies /\ SameBody(d, m) /\ d.health = health /\ d.deaths = deaths
  BY <1>2 DEF Bodies, SameBody
<1> HIDE DEF d
<1>5. Due(d)
  BY <1>2, <1>4 DEF Due
<1>6. ChangeHealth(m, n) = d
  BY <1>3 DEF d
<1> QED
  BY <1>4, <1>5, <1>6

(* combatChangeHealth.                                                      *)
LEMMA HurtKeeps ==
    ASSUME NEW m \in Bodies, NEW n \in Nat
    PROVE  /\ Hurt(m, n) \in Bodies /\ SameBody(Hurt(m, n), m)
           /\ Due(m) => Due(Hurt(m, n))
<1>1. CASE m.health = 0
  <2>1. Hurt(m, n) = m
    BY <1>1 DEF Hurt
  <2> QED
    BY <2>1 DEF SameBody
<1>2. CASE m.health # 0
  <2> DEFINE k == -(IF n > m.health THEN m.health ELSE n)
  <2>1. k \in Int
    BY BodyFields
  <2>2. Hurt(m, n) = ChangeHealth(m, k)
    BY <1>2 DEF Hurt
  <2> HIDE DEF k
  <2> QED
    BY <2>1, <2>2, ChangeHealthKeeps
<1> QED
  BY <1>1, <1>2

(* Together they keep a player good.                                        *)
LEMMA HurtGood ==
    ASSUME NEW m \in Good, NEW n \in Nat
    PROVE  Hurt(m, n) \in Good
  BY HurtKeeps, SameBodySame DEF Good

(* changeHealth keeps a player good.                                        *)
LEMMA ChangeHealthGood ==
    ASSUME NEW m \in Good, NEW n \in Int
    PROVE  ChangeHealth(m, n) \in Good
  BY ChangeHealthKeeps, SameBodySame DEF Good

(* An event that waits changes nothing else.                                *)
LEMMA WaitsGood ==
    ASSUME NEW m \in Good, NEW w \in Seq(Given \cup {Removal})
    PROVE  [m EXCEPT !.waiting = w] \in Good
<1> DEFINE d == [m EXCEPT !.waiting = w]
<1>1. m \in Bodies /\ Exact(m) /\ RingKept(m) /\ Due(m)
  BY DEF Good
<1>2. /\ d \in Bodies /\ d.conditions = m.conditions /\ d.varSpeed = m.varSpeed /\ d.varSkill = m.varSkill
      /\ d.drunkenness = m.drunkenness /\ d.shown = m.shown /\ d.ring = m.ring /\ d.boots = m.boots
      /\ d.health = m.health /\ d.deaths = m.deaths
  BY <1>1 DEF Bodies
<1> HIDE DEF d
<1>3. Exact(d) /\ RingKept(d) /\ Due(d)
  BY <1>1, <1>2, Zenon DEF Exact, RingKept, Due
<1>4. d \in Good
  BY <1>2, <1>3 DEF Good
<1> QED
  BY <1>4 DEF d

-----------------------------------------------------------------------------
(* One condition leaves the list.                                           *)
LEMMA RemoveFirstIs ==
    ASSUME NEW list \in Seq(Given), Single(list), NEW k \in 1..Len(list)
    PROVE  RemoveFirst(list, list[k]) = RemoveAt(list, k)
<1> DEFINE I == {i \in 1..Len(list) : list[i] = list[k]}
<1>1. I = {k}
  <2>1. ASSUME NEW i \in 1..Len(list), list[i] = list[k] PROVE i = k
    BY <2>1 DEF Single
  <2> QED
    BY <2>1
<1>2. Min({k}) = k
  <2>1. k <= k
    OBVIOUS
  <2> QED
    BY <2>1, Zenon DEF Min
<1>3. SelectInSeq(list, LAMBDA v : v = list[k]) = k
  BY <1>1, <1>2, Zenon DEF SelectInSeq
<1> QED
  BY <1>3, Zenon DEF RemoveFirst

(* The list without its place k.                                            *)
Drops(list, k, new) ==
    /\ new \in Seq(Given) /\ Single(new)
    /\ \A c : c # list[k] /\ (\E i \in 1..Len(list) : list[i] = c) => \E i \in 1..Len(new) : new[i] = c
    /\ \A i \in 1..Len(new) : \E j \in 1..Len(list) : j # k /\ new[i] = list[j]

(* What erasing one place leaves of a list.                                 *)
LEMMA Removed ==
    ASSUME NEW list \in Seq(Given), Single(list), NEW k \in 1..Len(list)
    PROVE  Drops(list, k, RemoveAt(list, k))
<1> DEFINE new == RemoveAt(list, k)
<1>1. /\ new \in Seq(Given) /\ Len(new) = Len(list) - 1 /\ Len(list) \in Nat
      /\ \A i \in 1..(Len(list) - 1) : new[i] = IF i < k THEN list[i] ELSE list[i + 1]
  BY RemoveAtIs
<1> HIDE DEF new
<1>2. ASSUME NEW i \in 1..Len(new)
      PROVE  /\ i < k => i \in 1..Len(list) /\ new[i] = list[i] /\ i # k
             /\ ~(i < k) => i + 1 \in 1..Len(list) /\ new[i] = list[i + 1] /\ i + 1 # k
  BY <1>1
<1>3. ASSUME NEW i \in 1..Len(new), NEW j \in 1..Len(new), new[i].type = new[j].type, new[i].id = new[j].id
      PROVE  i = j
  <2> DEFINE at(n) == IF n < k THEN n ELSE n + 1
  <2>1. at(i) \in 1..Len(list) /\ at(j) \in 1..Len(list) /\ new[i] = list[at(i)] /\ new[j] = list[at(j)]
    BY <1>2
  <2>2. at(i) = at(j)
    <3> HIDE DEF at
    <3> QED
      BY <2>1, <1>3 DEF Single
  <2> QED
    BY <2>2
<1>4. ASSUME NEW c, c # list[k], NEW i \in 1..Len(list), list[i] = c PROVE \E n \in 1..Len(new) : new[n] = c
  <2>1. i # k
    BY <1>4
  <2>2. CASE i < k
    BY <2>2, <1>1, <1>4
  <2>3. CASE i > k
    <3>1. i - 1 \in 1..Len(new) /\ ~(i - 1 < k) /\ (i - 1) + 1 = i
      BY <2>3, <1>1
    <3> QED
      BY <3>1, <1>1, <1>4
  <2> QED
    BY <2>1, <2>2, <2>3
<1>5. \A i \in 1..Len(new) : \E j \in 1..Len(list) : j # k /\ new[i] = list[j]
  BY <1>2
<1>6. Single(new)
  BY <1>3 DEF Single
<1> QED
  BY <1>1, <1>4, <1>5, <1>6 DEF new, Drops

(* A list without a condition is a list, whether it was listed or not.      *)
LEMMA RemoveFirstType ==
    ASSUME NEW list \in Seq(Given), NEW c
    PROVE  RemoveFirst(list, c) \in Seq(Given)
<1> DEFINE I == {i \in 1..Len(list) : list[i] = c}
<1>1. CASE I = {}
  <2>1. RemoveFirst(list, c) = list
    BY <1>1, Zenon DEF RemoveFirst
  <2> QED
    BY <2>1
<1>2. CASE I # {}
  <2>1. I \subseteq Nat
    OBVIOUS
  <2>2. PICK k \in I : \A m \in I : ~(m < k)
    BY <1>2, <2>1, LeastNumber
  <2>3. k \in I /\ \A y \in I : k <= y
    BY <2>1, <2>2
  <2>4. Min(I) \in I
    <3> HIDE DEF I
    <3> QED
      BY <2>3, Zenon DEF Min
  <2>5. SelectInSeq(list, LAMBDA v : v = c) = Min(I)
    BY <1>2, Zenon DEF SelectInSeq
  <2>6. RemoveFirst(list, c) = RemoveAt(list, Min(I))
    BY <1>2, <2>5, Zenon DEF RemoveFirst
  <2>7. Min(I) \in 1..Len(list)
    BY <2>4
  <2> HIDE DEF I
  <2> QED
    BY <2>6, <2>7, RemoveAtIs
<1> QED
  BY <1>1, <1>2

(* What a condition that ends takes back.                                   *)
TakesBack(m, c, d) ==
    /\ d \in Bodies
    /\ d.conditions = m.conditions /\ d.ring = m.ring /\ d.boots = m.boots
    /\ d.health = m.health /\ d.deaths = m.deaths /\ d.stepping = m.stepping /\ d.waiting = m.waiting
    /\ d.varSpeed = m.varSpeed - Val(c, Speeds)
    /\ d.varSkill = m.varSkill - Val(c, {"attributes"})
    /\ d.drunkenness = IF c.type = "drunk" THEN 0 ELSE m.drunkenness
    /\ d.shown = IF c.type = "invisible" THEN m.shown \/ Listed(m, "invisible") = {} ELSE m.shown

(* endCondition, kind by kind.                                              *)
LEMMA EndedFields ==
    ASSUME NEW m \in Bodies, NEW c \in Given
    PROVE  TakesBack(m, c, Ended(m, c))
<1> DEFINE d == Ended(m, c)
<1>1. c.value \in Int /\ m.varSpeed \in Int /\ m.varSkill \in Int
  BY BodyFields DEF Given
<1> DEFINE vs == Val(c, Speeds)
           va == Val(c, {"attributes"})
<1>0. /\ c.type \in Speeds => vs = c.value /\ va = 0
      /\ c.type = "attributes" => vs = 0 /\ va = c.value
      /\ c.type \notin Speeds \cup {"attributes"} => vs = 0 /\ va = 0
      /\ c.type \in Speeds => c.type \notin {"attributes", "drunk", "invisible"}
  BY DEF Val, Speeds
<1>12. m.varSpeed - 0 = m.varSpeed /\ m.varSkill - 0 = m.varSkill
  BY <1>1
<1> HIDE DEF d
<1>13. d = Ended(m, c)
  BY DEF d
<1>7. TakesBack(m, c, d)
  <2>2. CASE c.type \in Speeds
    <3>1. d = [m EXCEPT !.varSpeed = m.varSpeed - c.value]
      BY <2>2, <1>13 DEF Ended, Speeds
    <3>2. vs = c.value /\ va = 0 /\ c.type \notin {"drunk", "invisible"} /\ m.varSpeed - c.value \in Int
      BY <2>2, <1>0, <1>1
    <3>3. d \in Bodies
      BY <3>1, <3>2 DEF Bodies
    <3>4. /\ d.conditions = m.conditions /\ d.ring = m.ring /\ d.boots = m.boots
          /\ d.health = m.health /\ d.deaths = m.deaths /\ d.stepping = m.stepping /\ d.waiting = m.waiting
          /\ d.varSpeed = m.varSpeed - c.value /\ d.varSkill = m.varSkill
          /\ d.drunkenness = m.drunkenness /\ d.shown = m.shown
      BY <3>1 DEF Bodies
    <3> QED
      BY <1>12, <3>2, <3>3, <3>4 DEF TakesBack
  <2>3. CASE c.type = "attributes"
    <3>1. d = [m EXCEPT !.varSkill = m.varSkill - c.value]
      BY <2>3, <1>13 DEF Ended, Speeds
    <3>2. vs = 0 /\ va = c.value /\ m.varSkill - c.value \in Int
      BY <2>3, <1>0, <1>1
    <3>3. d \in Bodies
      BY <3>1, <3>2 DEF Bodies
    <3>4. /\ d.conditions = m.conditions /\ d.ring = m.ring /\ d.boots = m.boots
          /\ d.health = m.health /\ d.deaths = m.deaths /\ d.stepping = m.stepping /\ d.waiting = m.waiting
          /\ d.varSpeed = m.varSpeed /\ d.varSkill = m.varSkill - c.value
          /\ d.drunkenness = m.drunkenness /\ d.shown = m.shown
      BY <3>1 DEF Bodies
    <3> QED
      BY <2>3, <1>12, <3>2, <3>3, <3>4 DEF TakesBack
  <2>4. CASE c.type = "drunk"
    <3>1. d = [m EXCEPT !.drunkenness = 0]
      BY <2>4, <1>13 DEF Ended, Speeds
    <3>2. vs = 0 /\ va = 0
      BY <2>4, <1>0 DEF Speeds
    <3>3. d \in Bodies
      BY <3>1 DEF Bodies
    <3>4. /\ d.conditions = m.conditions /\ d.ring = m.ring /\ d.boots = m.boots
          /\ d.health = m.health /\ d.deaths = m.deaths /\ d.stepping = m.stepping /\ d.waiting = m.waiting
          /\ d.varSpeed = m.varSpeed /\ d.varSkill = m.varSkill /\ d.drunkenness = 0 /\ d.shown = m.shown
      BY <3>1 DEF Bodies
    <3> QED
      BY <2>4, <1>12, <3>2, <3>3, <3>4 DEF TakesBack
  <2>5. CASE c.type = "invisible"
    <3> DEFINE b == m.shown \/ Listed(m, "invisible") = {}
    <3>1. d = [m EXCEPT !.shown = b]
      BY <2>5, <1>13 DEF Ended, Speeds
    <3>2. b \in BOOLEAN /\ vs = 0 /\ va = 0
      BY <2>5, <1>0 DEF Speeds
    <3> HIDE DEF b
    <3>3. d \in Bodies
      BY <3>1, <3>2 DEF Bodies
    <3>4. /\ d.conditions = m.conditions /\ d.ring = m.ring /\ d.boots = m.boots
          /\ d.health = m.health /\ d.deaths = m.deaths /\ d.stepping = m.stepping /\ d.waiting = m.waiting
          /\ d.varSpeed = m.varSpeed /\ d.varSkill = m.varSkill /\ d.drunkenness = m.drunkenness /\ d.shown = b
      BY <3>1 DEF Bodies
    <3> QED
      BY <2>5, <1>12, <3>2, <3>3, <3>4 DEF TakesBack, b
  <2>6. CASE c.type \notin Speeds \cup {"attributes", "drunk", "invisible"}
    <3>1. d = m
      BY <2>6, <1>13 DEF Ended
    <3> QED
      BY <1>0, <1>1, <2>6, <1>12, <3>1 DEF Bodies, TakesBack
  <2> QED
    BY <2>2, <2>3, <2>4, <2>5, <2>6
<1> QED
  BY <1>7, <1>13

(* Another list, and nothing else.                                          *)
LEMMA WithListFields ==
    ASSUME NEW m \in Bodies, NEW list \in Seq(Given), NEW d, d = [m EXCEPT !.conditions = list]
    PROVE  /\ d \in Bodies /\ d.conditions = list /\ d.ring = m.ring /\ d.boots = m.boots
           /\ d.health = m.health /\ d.deaths = m.deaths /\ d.stepping = m.stepping /\ d.waiting = m.waiting
           /\ d.varSpeed = m.varSpeed /\ d.varSkill = m.varSkill
           /\ d.drunkenness = m.drunkenness /\ d.shown = m.shown
  BY DEF Bodies

(* removeCondition of anything leaves a player.                             *)
LEMMA ErasedBody ==
    ASSUME NEW m \in Bodies, NEW c \in Given
    PROVE  Erased(m, c) \in Bodies
<1> DEFINE list == RemoveFirst(m.conditions, c)
           d == [m EXCEPT !.conditions = list]
<1>1. list \in Seq(Given)
  BY BodyFields, RemoveFirstType
<1> HIDE DEF list
<1>2. d \in Bodies
  BY <1>1, WithListFields
<1>3. Erased(m, c) = Ended(d, c)
  BY DEF Erased, list
<1> HIDE DEF d
<1> QED
  BY <1>2, <1>3, EndedFields DEF TakesBack

(* removeCondition of one that is listed.                                   *)
LEMMA ErasedKeeps ==
    ASSUME NEW m, NEW k
    PROVE  m \in Bodies /\ Exact(m) /\ k \in 1..Len(m.conditions) =>
              LET d == Erased(m, m.conditions[k])
              IN  /\ d \in Bodies /\ Exact(d) /\ d.ring = m.ring /\ (Due(m) => Due(d))
                  /\ d.conditions = RemoveAt(m.conditions, k)
                  /\ RingKept(m) /\ m.conditions[k].id # RingSlot => RingKept(d)
<1> SUFFICES ASSUME m \in Bodies, Exact(m), k \in 1..Len(m.conditions)
             PROVE  LET d == Erased(m, m.conditions[k])
                    IN  /\ d \in Bodies /\ Exact(d) /\ d.ring = m.ring /\ (Due(m) => Due(d))
                        /\ d.conditions = RemoveAt(m.conditions, k)
                        /\ RingKept(m) /\ m.conditions[k].id # RingSlot => RingKept(d)
  OBVIOUS
<1> DEFINE d == Erased(m, m.conditions[k])
<1> DEFINE was == m.conditions
           gone == was[k]
           left == RemoveAt(was, k)
           short == [m EXCEPT !.conditions = left]
<1>1. was \in Seq(Given) /\ gone \in Given /\ Single(was) /\ k \in 1..Len(was)
  BY BodyFields DEF Exact
<1>2. /\ left \in Seq(Given) /\ Single(left)
      /\ \A x : x # was[k] /\ (\E i \in 1..Len(was) : was[i] = x) => \E i \in 1..Len(left) : left[i] = x
      /\ \A i \in 1..Len(left) : \E j \in 1..Len(was) : j # k /\ left[i] = was[j]
  <2>1. Drops(was, k, left)
    BY <1>1, Removed
  <2> QED
    BY <2>1 DEF Drops
<1>3. d = Ended(short, gone)
  BY <1>1, RemoveFirstIs DEF Erased
<1>4. \A types : Worth(left, types) = Worth(was, types) - Val(gone, types) /\ Worth(was, types) \in Int /\ Val(gone, types) \in Int
  <2>1. ASSUME NEW types
        PROVE  Worth(left, types) = Worth(was, types) - Val(gone, types) /\ Worth(was, types) \in Int /\ Val(gone, types) \in Int
    <3>1. PICK t : WorthTrace(t, was, types) /\ Worth(was, types) = t[Len(was)]
      BY <1>1, WorthTraced
    <3>2. Worth(was, types) \in Int
      BY <1>1, <3>1, WorthOf
    <3> QED
      BY <3>2, <1>1, WorthRemoved, ValInt
  <2> QED
    BY <2>1
<1> HIDE DEF left
<1>5. /\ short \in Bodies /\ short.conditions = left /\ short.ring = m.ring /\ short.boots = m.boots
      /\ short.health = m.health /\ short.deaths = m.deaths
      /\ short.varSpeed = m.varSpeed /\ short.varSkill = m.varSkill
      /\ short.drunkenness = m.drunkenness /\ short.shown = m.shown
  BY <1>2, WithListFields
<1> HIDE DEF short
<1>6. /\ d \in Bodies /\ d.conditions = left /\ d.ring = m.ring /\ d.boots = m.boots
      /\ d.health = m.health /\ d.deaths = m.deaths
      /\ d.varSpeed = m.varSpeed - Val(gone, Speeds)
      /\ d.varSkill = m.varSkill - Val(gone, {"attributes"})
      /\ d.drunkenness = IF gone.type = "drunk" THEN 0 ELSE m.drunkenness
      /\ d.shown = IF gone.type = "invisible" THEN m.shown \/ Listed(short, "invisible") = {} ELSE m.shown
  <2>1. TakesBack(short, gone, d)
    BY <1>1, <1>3, <1>5, EndedFields
  <2> QED
    BY <2>1, <1>5 DEF TakesBack
<1>7. \A type : type # gone.type => (Has(left, type) <=> Has(was, type))
  <2>1. ASSUME NEW type, type # gone.type, Has(left, type) PROVE Has(was, type)
    BY <2>1, <1>2 DEF Has
  <2>2. ASSUME NEW type, type # gone.type, Has(was, type) PROVE Has(left, type)
    <3>1. PICK i \in 1..Len(was) : was[i].type = type
      BY <2>2 DEF Has
    <3>2. was[i] # was[k]
      BY <2>2, <3>1
    <3>3. PICK n \in 1..Len(left) : left[n] = was[i]
      BY <3>2, <1>2
    <3> QED
      BY <3>1, <3>3 DEF Has
  <2> QED
    BY <2>1, <2>2
<1>8. Has(was, gone.type)
  BY DEF Has
<1>9. d.drunkenness > 0 <=> Has(left, "drunk")
  <2>1. CASE gone.type = "drunk"
    <3>1. ASSUME Has(left, "drunk") PROVE FALSE
      <4>1. PICK i \in 1..Len(left) : left[i].type = "drunk"
        BY <3>1 DEF Has
      <4>2. PICK j \in 1..Len(was) : j # k /\ was[j].type = "drunk"
        BY <4>1, <1>2
      <4>3. was[j] \in Given /\ was[k] \in Given
        BY <1>1
      <4>4. was[j].id = Combat /\ was[k].id = Combat
        BY <2>1, <4>2, <4>3 DEF Given
      <4> QED
        BY <2>1, <4>2, <4>4, <1>1 DEF Single
    <3> QED
      BY <2>1, <3>1, <1>6
  <2>2. CASE gone.type # "drunk"
    BY <2>2, <1>6, <1>7 DEF Exact
  <2> QED
    BY <2>1, <2>2
<1>10. d.shown <=> ~Has(left, "invisible")
  <2>1. CASE gone.type = "invisible"
    <3>1. ~m.shown
      BY <2>1, <1>8 DEF Exact
    <3>2. DOMAIN left = 1..Len(left)
      BY <1>2
    <3>3. Listed(short, "invisible") = {} <=> ~Has(left, "invisible")
      BY <1>5, <3>2 DEF Listed, Has
    <3> QED
      BY <2>1, <3>1, <3>3, <1>6
  <2>2. CASE gone.type # "invisible"
    BY <2>2, <1>6, <1>7 DEF Exact
  <2> QED
    BY <2>1, <2>2
<1>11. /\ d.varSpeed = Worth(left, Speeds) + IF d.boots THEN BootSpeed ELSE 0
       /\ d.varSkill = Worth(left, {"attributes"})
  BY <1>4, <1>6, Parameters DEF Exact
<1>12. Exact(d)
  BY <1>2, <1>6, <1>9, <1>10, <1>11 DEF Exact
<1>13. Due(m) => Due(d)
  BY <1>6 DEF Due
<1>14. ASSUME RingKept(m), gone.id # RingSlot PROVE RingKept(d)
  <2>1. ASSUME d.ring PROVE Worn(left)
    <3>1. PICK i \in 1..Len(was) : was[i].type = "invisible" /\ was[i].id = RingSlot
      BY <2>1, <1>6, <1>14 DEF RingKept, Worn
    <3>2. was[i] # was[k]
      BY <3>1, <1>14
    <3>3. PICK n \in 1..Len(left) : left[n] = was[i]
      BY <3>2, <1>2
    <3> QED
      BY <3>1, <3>3 DEF Worn
  <2> QED
    BY <2>1, <1>6 DEF RingKept
<1> QED
  BY <1>6, <1>12, <1>13, <1>14 DEF left

(* What the four loops over conditions do with one of them.                *)
Step(kind, gone, d, c) ==
    IF kind = "save" THEN (IF IsPersistent(c) THEN Append(d, c) ELSE d)
    ELSE IF kind = "execute" THEN Executed(d, c)
    ELSE IF kind = "load" THEN Loaded(d, c)
    ELSE IF c \in gone THEN Erased(d, c) ELSE d

StepSolves(kind, gone, base, list, f) ==
    f = [s \in SUBSET (DOMAIN list) |->
            IF s = {} THEN base ELSE Step(kind, gone, f[s \ {Max(s)}], list[Max(s)])]

StepTrace(kind, gone, base, list, t) ==
    /\ t[0] = base
    /\ \A n \in 1..Len(list) : t[n] = Step(kind, gone, t[n - 1], list[n])

(* A loop whose steps stay in a set has a solution.                         *)
LEMMA StepExists ==
    ASSUME NEW kind, NEW gone, NEW D, NEW base \in D, NEW list \in Seq(Given),
           \A d \in D, c \in Given : Step(kind, gone, d, c) \in D
    PROVE  \E f : StepSolves(kind, gone, base, list, f)
<1> DEFINE op(d, c) == Step(kind, gone, d, c)
           g == [p \in D \X Given |-> op(p[1], p[2])]
           P == SUBSET (DOMAIN list)
<1>1. Len(list) \in Nat /\ DOMAIN list = 1..Len(list)
  OBVIOUS
<1>2. ASSUME NEW d \in D, NEW c \in Given
      PROVE  g[<<d, c>>] = op(d, c)
  <2>1. <<d, c>> \in D \X Given
    OBVIOUS
  <2> QED
    BY <2>1
<1>3. g \in [D \X Given -> D]
  <2>1. ASSUME NEW p \in D \X Given PROVE op(p[1], p[2]) \in D
    OBVIOUS
  <2> QED
    BY <2>1
<1> HIDE DEF g
<1>4. PICK f \in [P -> D] : FoldSolves(g, base, list, f)
  BY <1>1, <1>3, FoldSolved
<1>5. ASSUME NEW s \in P
      PROVE  f[s] = IF s = {} THEN base ELSE op(f[s \ {Max(s)}], list[Max(s)])
  <2>1. f[s] = IF s = {} THEN base ELSE g[<<f[s \ {Max(s)}], list[Max(s)]>>]
    BY <1>4 DEF FoldSolves
  <2>2. CASE s # {}
    <3>1. Max(s) \in DOMAIN list
      BY <1>1, <2>2, MaxIn
    <3>2. list[Max(s)] \in Given
      BY <3>1, <1>1
    <3>3. f[s \ {Max(s)}] \in D
      OBVIOUS
    <3> QED
      BY <2>1, <2>2, <3>2, <3>3, <1>2
  <2>3. CASE s = {}
    BY <2>1, <2>3
  <2> QED
    BY <2>2, <2>3
<1>6. f = [s \in P |-> f[s]]
  OBVIOUS
<1>7. f = [s \in P |-> IF s = {} THEN base ELSE op(f[s \ {Max(s)}], list[Max(s)])]
  BY <1>5, <1>6, Zenon
<1>8. StepSolves(kind, gone, base, list, f)
  BY <1>7, Zenon DEF StepSolves
<1> QED
  BY <1>8

(* A solution can be counted through, step by step.                         *)
LEMMA StepTraced ==
    ASSUME NEW kind, NEW gone, NEW base, NEW list \in Seq(Given), NEW h,
           StepSolves(kind, gone, base, list, h)
    PROVE  \E t : StepTrace(kind, gone, base, list, t) /\ h[DOMAIN list] = t[Len(list)]
<1> DEFINE t == [n \in 0..Len(list) |-> h[1..n]]
<1>1. Len(list) \in Nat /\ DOMAIN list = 1..Len(list)
  OBVIOUS
<1>2. ASSUME NEW s \in SUBSET (DOMAIN list)
      PROVE  h[s] = IF s = {} THEN base ELSE Step(kind, gone, h[s \ {Max(s)}], list[Max(s)])
  BY DEF StepSolves
<1>3. t[0] = base
  <2>1. 1..0 = {} /\ {} \in SUBSET (DOMAIN list) /\ 0 \in 0..Len(list)
    BY <1>1
  <2> QED
    BY <2>1, <1>2
<1>4. ASSUME NEW n \in 1..Len(list) PROVE t[n] = Step(kind, gone, t[n - 1], list[n])
  <2>1. n \in 0..Len(list) /\ n - 1 \in 0..Len(list)
    BY <1>1
  <2>2. t[n] = h[1..n] /\ t[n - 1] = h[1..(n - 1)]
    BY <2>1
  <2>3. h[1..n] = Step(kind, gone, h[1..(n - 1)], list[n])
    BY <1>1, <1>2, Stretches
  <2> QED
    BY <2>2, <2>3
<1>5. h[DOMAIN list] = t[Len(list)]
  BY <1>1
<1> HIDE DEF t
<1> QED
  BY <1>3, <1>4, <1>5 DEF StepTrace

(* With is what it says.                                                    *)
LEMMA WithErased ==
    ASSUME NEW d, NEW c
    PROVE  With(d, LAMBDA v : Erased(v, c)) = Erased(d, c)
  BY Zenon DEF With
(* ... for executeConditions.                                               *)
LEMMA WithExecuted ==
    ASSUME NEW d, NEW c
    PROVE  With(d, LAMBDA v : Executed(v, c)) = Executed(d, c)
  BY Zenon DEF With
(* ... for what was saved.                                                  *)
LEMMA WithLoaded ==
    ASSUME NEW d, NEW c
    PROVE  With(d, LAMBDA v : Loaded(v, c)) = Loaded(d, c)
  BY Zenon DEF With

(* Without goes through the list one by one.                                *)
StrikeSolves(gone, base, list, f) ==
    f = [s \in SUBSET (DOMAIN list) |->
            IF s = {} THEN base
            ELSE IF list[Max(s)] \in gone
                 THEN With(f[s \ {Max(s)}], LAMBDA v : Erased(v, list[Max(s)]))
                 ELSE f[s \ {Max(s)}]]

(* What its fold stands for.                                                *)
LEMMA WithoutIs ==
    ASSUME NEW m, NEW gone
    PROVE  Without(m, gone) = (CHOOSE f : StrikeSolves(gone, m, m.conditions, f))[DOMAIN m.conditions]
  BY Zenon DEF Without, StrikeSolves, FoldLeft, MapThenFoldSet

(* Without, counted through.                                                *)
LEMMA WithoutTraced ==
    ASSUME NEW m \in Bodies, NEW gone
    PROVE  \E t : StepTrace("strike", gone, m, m.conditions, t) /\ Without(m, gone) = t[Len(m.conditions)]
<1> DEFINE list == m.conditions
<1>1. list \in Seq(Given)
  BY BodyFields
<1>2. ASSUME NEW d \in Bodies, NEW c \in Given PROVE Step("strike", gone, d, c) \in Bodies
  BY ErasedBody DEF Step
<1>3. ASSUME NEW f PROVE StepSolves("strike", gone, m, list, f) <=> StrikeSolves(gone, m, list, f)
  <2>1. \A d, c : Step("strike", gone, d, c) = IF c \in gone THEN With(d, LAMBDA v : Erased(v, c)) ELSE d
    BY WithErased, Zenon DEF Step
  <2> QED
    BY <2>1, Zenon DEF StepSolves, StrikeSolves
<1> HIDE DEF list
<1>4. \E f : StrikeSolves(gone, m, list, f)
  BY <1>1, <1>2, <1>3, StepExists
<1>5. StrikeSolves(gone, m, list, CHOOSE f : StrikeSolves(gone, m, list, f))
  BY <1>4, Zenon
<1>6. PICK h : h = CHOOSE f : StrikeSolves(gone, m, list, f)
  OBVIOUS
<1>7. StepSolves("strike", gone, m, list, h)
  BY <1>3, <1>5, <1>6
<1>8. \E t : StepTrace("strike", gone, m, list, t) /\ h[DOMAIN list] = t[Len(list)]
  BY <1>1, <1>7, StepTraced
<1>9. Without(m, gone) = h[DOMAIN list]
  BY <1>6, WithoutIs DEF list
<1> QED
  BY <1>8, <1>9 DEF list

(* What Without leaves of a player.                                         *)
Keeps(m, gone, d) ==
    /\ d \in Bodies /\ Exact(d) /\ Due(d) /\ d.ring = m.ring
    /\ RingKept(m) /\ (\A c \in gone : c.id # RingSlot) => RingKept(d)

(* Whatever is removed, the effects stay exact: at every step of the loop   *)
(* what is still ahead is still listed.                                     *)
LEMMA WithoutKeeps ==
    ASSUME NEW m \in Bodies, NEW gone, Exact(m), Due(m)
    PROVE  Keeps(m, gone, Without(m, gone))
<1> DEFINE list == m.conditions
           L == Len(list)
<1>1. list \in Seq(Given) /\ L \in Nat /\ Single(list)
  BY BodyFields DEF Exact
<1>2. PICK t : StepTrace("strike", gone, m, list, t) /\ Without(m, gone) = t[L]
  BY WithoutTraced
<1> DEFINE Ahead(n) == \A j \in 1..L : j > n => \E i \in 1..Len(t[n].conditions) : t[n].conditions[i] = list[j]
           S == {n \in 0..L : Keeps(m, gone, t[n]) /\ Ahead(n)}
<1>3. 0 \in S
  <2>1. t[0] = m /\ 0 \in 0..L
    BY <1>1, <1>2 DEF StepTrace
  <2>2. Keeps(m, gone, m)
    BY DEF Keeps
  <2>3. Ahead(0)
    BY <2>1
  <2> QED
    BY <2>1, <2>2, <2>3
<1>4. ASSUME NEW n \in 1..L, n - 1 \in S PROVE n \in S
  <2> DEFINE d == t[n - 1]
             c == list[n]
  <2>1. Keeps(m, gone, d) /\ Ahead(n - 1) /\ n \in 0..L
    <3>1. n \in 0..L
      BY <1>1
    <3>2. Keeps(m, gone, t[n - 1]) /\ Ahead(n - 1)
      <4> HIDE DEF Ahead, L
      <4> QED
        BY <1>4, Zenon
    <3> QED
      BY <3>1, <3>2
  <2>2. t[n] = IF c \in gone THEN Erased(d, c) ELSE d
    BY <1>2 DEF StepTrace, Step
  <2>3. CASE c \notin gone
    <3>1. t[n] = d
      BY <2>2, <2>3
    <3>2. Ahead(n)
      BY <2>1, <3>1
    <3> QED
      BY <2>1, <3>1, <3>2
  <2>4. CASE c \in gone
    <3>1. t[n] = Erased(d, c)
      BY <2>2, <2>4
    <3>2. PICK k \in 1..Len(d.conditions) : d.conditions[k] = c
      <4>1. n > n - 1
        OBVIOUS
      <4> QED
        BY <2>1, <4>1
    <3> HIDE DEF d, c
    <3>3. d \in Bodies /\ Exact(d) /\ Due(d) /\ d.ring = m.ring
      BY <2>1 DEF Keeps
    <3>4. /\ t[n] \in Bodies /\ Exact(t[n]) /\ t[n].ring = d.ring /\ (Due(d) => Due(t[n]))
          /\ t[n].conditions = RemoveAt(d.conditions, k)
          /\ RingKept(d) /\ d.conditions[k].id # RingSlot => RingKept(t[n])
      BY <3>1, <3>2, <3>3, ErasedKeeps
    <3>5. Keeps(m, gone, t[n])
      BY <2>1, <2>4, <3>2, <3>3, <3>4 DEF Keeps
    <3>6. d.conditions \in Seq(Given) /\ Single(d.conditions)
      BY <3>3, BodyFields DEF Exact
    <3>7. Drops(d.conditions, k, t[n].conditions)
      BY <3>4, <3>6, Removed
    <3>8. ASSUME NEW j \in 1..L, j > n PROVE \E i \in 1..Len(t[n].conditions) : t[n].conditions[i] = list[j]
      <4>1. list[j] # list[n]
        BY <1>1, <3>8 DEF Single
      <4>2. \E i \in 1..Len(d.conditions) : d.conditions[i] = list[j]
        <5>1. j > n - 1
          BY <3>8
        <5> QED
          BY <2>1, <5>1 DEF d
      <4> QED
        BY <3>2, <3>7, <4>1, <4>2 DEF Drops, c
    <3> QED
      BY <2>1, <3>5, <3>8
  <2> QED
    BY <2>3, <2>4
<1>5. L \in S
  <2> HIDE DEF S, L
  <2> QED
    BY <1>1, <1>3, <1>4, CountUp
<1> QED
  BY <1>2, <1>5

(* A player stays good.                                                     *)
LEMMA WithoutGood ==
    ASSUME NEW m \in Good, NEW gone, \A c \in gone : c.id # RingSlot
    PROVE  Without(m, gone) \in Good
  BY WithoutKeeps DEF Good, Keeps

(* Taking the ring off.                                                     *)
LEMMA RingOffGood ==
    ASSUME NEW m \in Good
    PROVE  RingOff(m) \in Good
<1> DEFINE gone == {c \in Of(m, "invisible") : c.id = RingSlot}
           d == Without(m, gone)
           e == [d EXCEPT !.ring = FALSE]
<1>1. d \in Bodies /\ Exact(d) /\ Due(d)
  BY WithoutKeeps DEF Good, Keeps
<1> HIDE DEF gone, d
<1>2. /\ e \in Bodies /\ e.conditions = d.conditions /\ e.boots = d.boots /\ e.ring = FALSE
      /\ e.health = d.health /\ e.deaths = d.deaths
      /\ e.varSpeed = d.varSpeed /\ e.varSkill = d.varSkill
      /\ e.drunkenness = d.drunkenness /\ e.shown = d.shown
  BY <1>1 DEF Bodies
<1>3. RingOff(m) = e
  BY DEF RingOff, e, d, gone
<1> HIDE DEF e
<1>4. Exact(e) /\ RingKept(e) /\ Due(e)
  BY <1>1, <1>2 DEF Exact, RingKept, Due
<1> QED
  BY <1>2, <1>3, <1>4 DEF Good

(* removeCondition of a kind that no ring gives.                            *)
LEMMA RemoveConditionGood ==
    ASSUME NEW m \in Good, NEW type \in Speeds, NEW force
    PROVE  RemoveCondition(m, type, force) \in Good
<1>1. m \in Bodies /\ m.conditions \in Seq(Given) /\ m.waiting \in Seq(Given \cup {Removal})
  BY BodyFields DEF Good
<1>2. ASSUME NEW c \in Of(m, type) PROVE c.id # RingSlot
  <2>1. c \in Given
    BY <1>1, <1>2 DEF Of, ToSet
  <2> QED
    BY <2>1, <1>2 DEF Of, Given, Speeds
<1>3. Without(m, Of(m, type)) \in Good
  BY <1>2, WithoutGood
<1>4. [m EXCEPT !.waiting = Append(m.waiting, Removal)] \in Good
  <2>1. Append(m.waiting, Removal) \in Seq(Given \cup {Removal})
    BY <1>1
  <2> QED
    BY <2>1, WaitsGood
<1> QED
  BY <1>3, <1>4 DEF RemoveCondition, Removal

(* A list is worth a number.                                                *)
LEMMA WorthInt ==
    ASSUME NEW list \in Seq(Given), NEW types
    PROVE  Worth(list, types) \in Int
<1>1. PICK t : WorthTrace(t, list, types) /\ Worth(list, types) = t[Len(list)]
  BY WorthTraced
<1> QED
  BY <1>1, WorthOf

(* A condition takes the place k of another of its kind and source.         *)
Replaces(m, k, x, e) ==
    /\ e \in Bodies /\ e.conditions = [m.conditions EXCEPT ![k] = x]
    /\ e.ring = m.ring /\ e.boots = m.boots /\ e.shown = m.shown
    /\ e.drunkenness > 0 <=> m.drunkenness > 0
    /\ e.varSpeed = m.varSpeed - Val(m.conditions[k], Speeds) + Val(x, Speeds)
    /\ e.varSkill = m.varSkill - Val(m.conditions[k], {"attributes"}) + Val(x, {"attributes"})

(* It keeps a player good.                                                  *)
LEMMA ReplacedGood ==
    ASSUME NEW m \in Good, NEW k \in 1..Len(m.conditions), NEW x \in Given, NEW e,
           x.type = m.conditions[k].type, x.id = m.conditions[k].id,
           Replaces(m, k, x, e), Due(e)
    PROVE  e \in Good
<1> DEFINE list == m.conditions
           new == [list EXCEPT ![k] = x]
<1>1. m \in Bodies /\ Exact(m) /\ RingKept(m) /\ list \in Seq(Given) /\ BootSpeed \in Int
  BY BodyFields, Parameters DEF Good
<1>2. new \in Seq(Given) /\ Len(new) = Len(list) /\ \A i \in 1..Len(list) : new[i].type = list[i].type /\ new[i].id = list[i].id
  BY <1>1
<1>3. /\ Worth(new, Speeds) = Worth(list, Speeds) - Val(list[k], Speeds) + Val(x, Speeds)
      /\ Worth(new, {"attributes"}) = Worth(list, {"attributes"}) - Val(list[k], {"attributes"}) + Val(x, {"attributes"})
  BY <1>1, WorthReplaced
<1>4. /\ Worth(list, Speeds) \in Int /\ Worth(list, {"attributes"}) \in Int
      /\ Val(list[k], Speeds) \in Int /\ Val(list[k], {"attributes"}) \in Int
      /\ Val(x, Speeds) \in Int /\ Val(x, {"attributes"}) \in Int
  <2>1. list[k] \in Given
    BY <1>1
  <2> QED
    BY <1>1, <2>1, WorthInt, ValInt
<1>5. /\ Single(new) <=> Single(list)
      /\ \A type : Has(new, type) <=> Has(list, type)
      /\ Worn(new) <=> Worn(list)
  <2> HIDE DEF new, list
  <2> QED
    BY <1>2 DEF Single, Has, Worn
<1>6. /\ e \in Bodies /\ e.conditions = new /\ e.ring = m.ring /\ e.boots = m.boots /\ e.shown = m.shown
      /\ e.drunkenness > 0 <=> m.drunkenness > 0
      /\ e.varSpeed = m.varSpeed - Val(list[k], Speeds) + Val(x, Speeds)
      /\ e.varSkill = m.varSkill - Val(list[k], {"attributes"}) + Val(x, {"attributes"})
  BY DEF Replaces
<1>7. /\ m.varSpeed = Worth(list, Speeds) + IF m.boots THEN BootSpeed ELSE 0
      /\ m.varSkill = Worth(list, {"attributes"})
      /\ m.drunkenness > 0 <=> Has(list, "drunk")
      /\ m.shown <=> ~Has(list, "invisible")
      /\ Single(list)
      /\ m.ring => Worn(list)
  BY <1>1 DEF Exact, RingKept
<1> HIDE DEF new, list
<1>8. /\ e.varSpeed = Worth(new, Speeds) + IF e.boots THEN BootSpeed ELSE 0
      /\ e.varSkill = Worth(new, {"attributes"})
  BY <1>1, <1>3, <1>4, <1>6, <1>7
<1>9. Exact(e) /\ RingKept(e)
  BY <1>5, <1>6, <1>7, <1>8 DEF Exact, RingKept
<1> QED
  BY <1>6, <1>9 DEF Good

(* A condition of a new kind or source is added.                            *)
Adds(m, c, e) ==
    /\ e \in Bodies /\ e.conditions = Append(m.conditions, c)
    /\ e.ring = m.ring /\ e.boots = m.boots
    /\ e.shown = (m.shown /\ c.type # "invisible")
    /\ e.drunkenness = IF c.type = "drunk" THEN c.value ELSE m.drunkenness
    /\ e.varSpeed = m.varSpeed + Val(c, Speeds)
    /\ e.varSkill = m.varSkill + Val(c, {"attributes"})

(* It keeps a player good.                                                  *)
LEMMA AddedGood ==
    ASSUME NEW m \in Good, NEW c \in Given, NEW e, Adds(m, c, e), Due(e),
           \A i \in 1..Len(m.conditions) : m.conditions[i].type # c.type \/ m.conditions[i].id # c.id
    PROVE  e \in Good
<1> DEFINE list == m.conditions
           new == Append(list, c)
<1>1. m \in Bodies /\ Exact(m) /\ RingKept(m) /\ list \in Seq(Given) /\ BootSpeed \in Int
  BY BodyFields, Parameters DEF Good
<1>2. /\ new \in Seq(Given) /\ Len(new) = Len(list) + 1 /\ Len(list) \in Nat
      /\ \A i \in 1..Len(list) : new[i] = list[i]
      /\ new[Len(list) + 1] = c
  BY <1>1
<1>3. /\ Worth(new, Speeds) = Worth(list, Speeds) + Val(c, Speeds)
      /\ Worth(new, {"attributes"}) = Worth(list, {"attributes"}) + Val(c, {"attributes"})
  BY <1>1, WorthPushed
<1>4. /\ Worth(list, Speeds) \in Int /\ Worth(list, {"attributes"}) \in Int
      /\ Val(c, Speeds) \in Int /\ Val(c, {"attributes"}) \in Int
  BY <1>1, WorthInt, ValInt
<1>5. /\ e \in Bodies /\ e.conditions = new /\ e.ring = m.ring /\ e.boots = m.boots
      /\ e.shown = (m.shown /\ c.type # "invisible")
      /\ e.drunkenness = IF c.type = "drunk" THEN c.value ELSE m.drunkenness
      /\ e.varSpeed = m.varSpeed + Val(c, Speeds)
      /\ e.varSkill = m.varSkill + Val(c, {"attributes"})
  BY DEF Adds
<1>6. /\ m.varSpeed = Worth(list, Speeds) + IF m.boots THEN BootSpeed ELSE 0
      /\ m.varSkill = Worth(list, {"attributes"})
      /\ m.drunkenness > 0 <=> Has(list, "drunk")
      /\ m.shown <=> ~Has(list, "invisible")
      /\ Single(list)
      /\ m.ring => Worn(list)
      /\ \A i \in 1..Len(list) : list[i].type # c.type \/ list[i].id # c.id
  BY <1>1 DEF Exact, RingKept
<1>7. c.type = "drunk" => c.value > 0
  BY DEF Given
<1> HIDE DEF new, list
<1>8. ASSUME NEW type PROVE Has(new, type) <=> Has(list, type) \/ c.type = type
  BY <1>2 DEF Has
<1>9. Worn(list) => Worn(new)
  BY <1>2 DEF Worn
<1>10. Single(new)
  <2>1. ASSUME NEW i \in 1..Len(new), NEW j \in 1..Len(new), new[i].type = new[j].type, new[i].id = new[j].id
        PROVE  i = j
    <3>1. CASE i \in 1..Len(list) /\ j \in 1..Len(list)
      BY <2>1, <3>1, <1>2, <1>6 DEF Single
    <3>2. CASE i = Len(list) + 1 \/ j = Len(list) + 1
      BY <2>1, <3>2, <1>2, <1>6
    <3> QED
      BY <3>1, <3>2, <1>2
  <2> QED
    BY <2>1 DEF Single
<1>11. /\ e.varSpeed = Worth(new, Speeds) + IF e.boots THEN BootSpeed ELSE 0
       /\ e.varSkill = Worth(new, {"attributes"})
  BY <1>1, <1>3, <1>4, <1>5, <1>6
<1>12. e.drunkenness > 0 <=> Has(new, "drunk")
  BY <1>5, <1>6, <1>7, <1>8
<1>13. e.shown <=> ~Has(new, "invisible")
  BY <1>5, <1>6, <1>8
<1>14. Exact(e) /\ RingKept(e)
  BY <1>5, <1>6, <1>9, <1>10, <1>11, <1>12, <1>13 DEF Exact, RingKept
<1> QED
  BY <1>5, <1>14 DEF Good

(* addCondition of the one that is listed.                                  *)
LEMMA RenewedGood ==
    ASSUME NEW m \in Good, NEW c \in Given, NEW k \in Listed(m, c.type), m.conditions[k].id = c.id
    PROVE  Renewed(m, k, c) \in Good
<1> DEFINE list == m.conditions
           old == list[k]
           value == IF c.type = "drunk" THEN old.value ELSE c.value
           x == [c EXCEPT !.value = value]
           d == [m EXCEPT !.conditions[k] = x]
           e == Renewed(m, k, c)
<1>1. /\ m \in Bodies /\ Due(m) /\ Exact(m) /\ list \in Seq(Given)
      /\ m.varSpeed \in Int /\ m.varSkill \in Int
  BY BodyFields DEF Good
<1>2. k \in 1..Len(list) /\ old \in Given /\ old.type = c.type /\ old.id = c.id
  BY <1>1 DEF Listed
<1>3. old.value \in Int /\ c.value \in Int /\ (c.type = "drunk" => old.value > 0 /\ c.value > 0)
  BY <1>2 DEF Given
<1>4. x \in Given /\ x.type = c.type /\ x.id = c.id /\ x.value = value
  BY <1>2, <1>3 DEF Given
<1>5. CASE ~Renews(old, c)
  BY <1>5 DEF Renewed
<1>6. CASE Renews(old, c)
  <2> HIDE DEF x
  <2> DEFINE new == [list EXCEPT ![k] = x]
  <2>1. new \in Seq(Given) /\ d = [m EXCEPT !.conditions = new]
    BY <1>1, <1>2, <1>4
  <2> HIDE DEF new, d
  <2>2. /\ d \in Bodies /\ d.conditions = new /\ d.ring = m.ring /\ d.boots = m.boots
        /\ d.health = m.health /\ d.deaths = m.deaths
        /\ d.varSpeed = m.varSpeed /\ d.varSkill = m.varSkill
        /\ d.drunkenness = m.drunkenness /\ d.shown = m.shown
    BY <1>1, <2>1, WithListFields
  <2>3. e = CASE c.type \in Speeds     -> [d EXCEPT !.varSpeed = d.varSpeed + SpeedChange(old, c)]
              [] c.type = "attributes" -> [d EXCEPT !.varSkill = d.varSkill - old.value + c.value]
              [] c.type = "drunk"      -> [d EXCEPT !.drunkenness = c.value]
              [] c.type = "fire"       -> Hurt(d, 1)
              [] OTHER                 -> d
    BY <1>6 DEF Renewed, d, x
  <2>4. /\ c.type \in Speeds => Val(old, Speeds) = old.value /\ Val(x, Speeds) = c.value
        /\ c.type \notin Speeds => Val(old, Speeds) = 0 /\ Val(x, Speeds) = 0
        /\ c.type = "attributes" => Val(old, {"attributes"}) = old.value /\ Val(x, {"attributes"}) = c.value
        /\ c.type # "attributes" => Val(old, {"attributes"}) = 0 /\ Val(x, {"attributes"}) = 0
    BY <1>2, <1>4 DEF Val, Speeds
  <2>5. m.varSpeed - 0 + 0 = m.varSpeed /\ m.varSkill - 0 + 0 = m.varSkill
    BY <1>1
  <2> HIDE DEF e, old, list
  <2>6. Replaces(m, k, x, e) /\ Due(e)
    <3>1. CASE c.type \in Speeds
      <4>1. e = [d EXCEPT !.varSpeed = m.varSpeed + (c.value - old.value)]
        BY <3>1, <2>2, <2>3 DEF SpeedChange, Speeds
      <4>2. m.varSpeed + (c.value - old.value) = m.varSpeed - old.value + c.value /\ m.varSpeed + (c.value - old.value) \in Int
        BY <1>1, <1>3
      <4>3. c.type # "attributes"
        BY <3>1 DEF Speeds
      <4>4. /\ e \in Bodies /\ e.conditions = new /\ e.ring = m.ring /\ e.boots = m.boots
            /\ e.health = m.health /\ e.deaths = m.deaths
            /\ e.varSpeed = m.varSpeed - old.value + c.value /\ e.varSkill = m.varSkill
            /\ e.drunkenness = m.drunkenness /\ e.shown = m.shown
        BY <2>2, <4>1, <4>2 DEF Bodies
      <4> QED
        BY <1>1, <2>4, <2>5, <3>1, <4>3, <4>4 DEF Replaces, Due, new, old, list
    <3>2. CASE c.type = "attributes"
      <4>1. e = [d EXCEPT !.varSkill = m.varSkill - old.value + c.value]
        BY <3>2, <2>2, <2>3 DEF Speeds
      <4>2. m.varSkill - old.value + c.value \in Int
        BY <1>1, <1>3
      <4>3. c.type \notin Speeds
        BY <3>2 DEF Speeds
      <4>4. /\ e \in Bodies /\ e.conditions = new /\ e.ring = m.ring /\ e.boots = m.boots
            /\ e.health = m.health /\ e.deaths = m.deaths
            /\ e.varSpeed = m.varSpeed /\ e.varSkill = m.varSkill - old.value + c.value
            /\ e.drunkenness = m.drunkenness /\ e.shown = m.shown
        BY <2>2, <4>1, <4>2 DEF Bodies
      <4> QED
        BY <1>1, <2>4, <2>5, <3>2, <4>3, <4>4 DEF Replaces, Due, new, old, list
    <3>3. CASE c.type = "drunk"
      <4>1. e = [d EXCEPT !.drunkenness = c.value]
        BY <3>3, <2>3 DEF Speeds
      <4>2. c.type \notin Speeds /\ c.type # "attributes"
        BY <3>3 DEF Speeds
      <4>3. /\ e \in Bodies /\ e.conditions = new /\ e.ring = m.ring /\ e.boots = m.boots
            /\ e.health = m.health /\ e.deaths = m.deaths
            /\ e.varSpeed = m.varSpeed /\ e.varSkill = m.varSkill
            /\ e.drunkenness = c.value /\ e.shown = m.shown
        BY <2>2, <4>1, <1>3 DEF Bodies
      <4>4. m.drunkenness > 0
        <5>1. Has(m.conditions, "drunk")
          BY <1>2, <3>3 DEF Has, list, old
        <5> QED
          BY <5>1, <1>1 DEF Exact
      <4>5. e.drunkenness > 0 <=> m.drunkenness > 0
        BY <4>3, <4>4, <1>3, <3>3
      <4> QED
        BY <1>1, <2>4, <2>5, <4>2, <4>3, <4>5 DEF Replaces, Due, new, old, list
    <3>4. CASE c.type = "fire"
      <4>1. e = Hurt(d, 1)
        BY <3>4, <2>3 DEF Speeds
      <4>2. e \in Bodies /\ SameBody(e, d) /\ (Due(d) => Due(e))
        BY <4>1, <2>2, HurtKeeps
      <4>3. Due(d)
        BY <1>1, <2>2 DEF Due
      <4>4. c.type \notin Speeds /\ c.type # "attributes"
        BY <3>4 DEF Speeds
      <4> QED
        BY <2>2, <2>4, <2>5, <4>2, <4>3, <4>4 DEF Replaces, SameBody, new, old, list
    <3>5. CASE c.type \notin Speeds \cup {"attributes", "drunk", "fire"}
      <4>1. e = d
        BY <3>5, <2>3
      <4>2. c.type \notin Speeds /\ c.type # "attributes"
        BY <3>5
      <4> QED
        BY <1>1, <2>2, <2>4, <2>5, <4>1, <4>2 DEF Replaces, Due, new, old, list
    <3> QED
      BY <3>1, <3>2, <3>3, <3>4, <3>5
  <2>7. x.type = m.conditions[k].type /\ x.id = m.conditions[k].id /\ k \in 1..Len(m.conditions)
    BY <1>2, <1>4 DEF list, old
  <2>8. e \in Good
    BY <2>6, <2>7, <1>4, ReplacedGood
  <2> QED
    BY <2>8 DEF e
<1> QED
  BY <1>5, <1>6

(* startCondition of one that is not listed yet.                            *)
LEMMA BegunGood ==
    ASSUME NEW m \in Good, NEW c \in Given,
           \A i \in 1..Len(m.conditions) : m.conditions[i].type # c.type \/ m.conditions[i].id # c.id
    PROVE  [Begun(m, c) EXCEPT !.conditions = Append(m.conditions, c)] \in Good
<1> DEFINE b == Begun(m, c)
           new == Append(m.conditions, c)
           e == [b EXCEPT !.conditions = new]
<1>1. /\ m \in Bodies /\ Due(m) /\ new \in Seq(Given)
      /\ m.varSpeed \in Int /\ m.varSkill \in Int /\ m.shown \in BOOLEAN /\ c.value \in Int
  <2>1. m \in Bodies /\ Due(m)
    BY DEF Good
  <2>2. m.conditions \in Seq(Given) /\ m.varSpeed \in Int /\ m.varSkill \in Int /\ m.shown \in BOOLEAN
    BY <2>1, BodyFields
  <2>3. c.value \in Int
    BY DEF Given
  <2> QED
    BY <2>1, <2>2, <2>3
<1>2. /\ c.type \in Speeds => Val(c, Speeds) = c.value
      /\ c.type \notin Speeds => Val(c, Speeds) = 0
      /\ c.type = "attributes" => Val(c, {"attributes"}) = c.value
      /\ c.type # "attributes" => Val(c, {"attributes"}) = 0
      /\ m.varSpeed + 0 = m.varSpeed /\ m.varSkill + 0 = m.varSkill
  BY <1>1 DEF Val
<1> DEFINE Begins ==
              /\ b \in Bodies /\ Due(b) /\ b.ring = m.ring /\ b.boots = m.boots
              /\ b.shown = (m.shown /\ c.type # "invisible")
              /\ b.drunkenness = IF c.type = "drunk" THEN c.value ELSE m.drunkenness
              /\ b.varSpeed = m.varSpeed + Val(c, Speeds)
              /\ b.varSkill = m.varSkill + Val(c, {"attributes"})
<1> HIDE DEF new
<1>3. Begins
  <2> HIDE DEF b
  <2>1. CASE c.type \in Speeds
    <3>1. b = [m EXCEPT !.varSpeed = m.varSpeed + c.value]
      BY <2>1 DEF Begun, b, Speeds
    <3>2. c.type \notin {"attributes", "drunk", "invisible"} /\ m.varSpeed + c.value \in Int
      BY <2>1, <1>1 DEF Speeds
    <3>3. /\ b \in Bodies /\ b.ring = m.ring /\ b.boots = m.boots /\ b.health = m.health /\ b.deaths = m.deaths
          /\ b.shown = m.shown /\ b.drunkenness = m.drunkenness
          /\ b.varSpeed = m.varSpeed + c.value /\ b.varSkill = m.varSkill
      BY <1>1, <3>1, <3>2 DEF Bodies
    <3> QED
      BY <1>1, <1>2, <2>1, <3>2, <3>3 DEF Due
  <2>2. CASE c.type = "attributes"
    <3>1. b = [m EXCEPT !.varSkill = m.varSkill + c.value]
      BY <2>2 DEF Begun, b, Speeds
    <3>2. c.type \notin Speeds \cup {"drunk", "invisible"} /\ m.varSkill + c.value \in Int
      BY <2>2, <1>1 DEF Speeds
    <3>3. /\ b \in Bodies /\ b.ring = m.ring /\ b.boots = m.boots /\ b.health = m.health /\ b.deaths = m.deaths
          /\ b.shown = m.shown /\ b.drunkenness = m.drunkenness
          /\ b.varSpeed = m.varSpeed /\ b.varSkill = m.varSkill + c.value
      BY <1>1, <3>1, <3>2 DEF Bodies
    <3> QED
      BY <1>1, <1>2, <2>2, <3>2, <3>3 DEF Due
  <2>3. CASE c.type = "drunk"
    <3>1. b = [m EXCEPT !.drunkenness = c.value]
      BY <2>3 DEF Begun, b, Speeds
    <3>2. c.type \notin Speeds \cup {"attributes", "invisible"}
      BY <2>3 DEF Speeds
    <3>3. /\ b \in Bodies /\ b.ring = m.ring /\ b.boots = m.boots /\ b.health = m.health /\ b.deaths = m.deaths
          /\ b.shown = m.shown /\ b.drunkenness = c.value
          /\ b.varSpeed = m.varSpeed /\ b.varSkill = m.varSkill
      BY <1>1, <3>1 DEF Bodies
    <3> QED
      BY <1>1, <1>2, <2>3, <3>2, <3>3 DEF Due
  <2>4. CASE c.type = "invisible"
    <3>1. b = [m EXCEPT !.shown = FALSE]
      BY <2>4 DEF Begun, b, Speeds
    <3>2. c.type \notin Speeds \cup {"attributes", "drunk"}
      BY <2>4 DEF Speeds
    <3>3. /\ b \in Bodies /\ b.ring = m.ring /\ b.boots = m.boots /\ b.health = m.health /\ b.deaths = m.deaths
          /\ b.shown = FALSE /\ b.drunkenness = m.drunkenness
          /\ b.varSpeed = m.varSpeed /\ b.varSkill = m.varSkill
      BY <1>1, <3>1 DEF Bodies
    <3> QED
      BY <1>1, <1>2, <2>4, <3>2, <3>3 DEF Due
  <2>5. CASE c.type = "fire"
    <3>1. b = Hurt(m, 1)
      BY <2>5 DEF Begun, b, Speeds
    <3>2. b \in Bodies /\ SameBody(b, m) /\ Due(b)
      BY <3>1, <1>1, HurtKeeps
    <3>3. c.type \notin Speeds \cup {"attributes", "drunk", "invisible"}
      BY <2>5 DEF Speeds
    <3> QED
      BY <1>1, <1>2, <3>2, <3>3 DEF SameBody
  <2>6. CASE c.type \notin Speeds \cup {"attributes", "drunk", "invisible", "fire"}
    <3>1. b = m
      BY <2>6 DEF Begun, b
    <3> QED
      BY <1>1, <1>2, <2>6, <3>1
  <2> QED
    BY <2>1, <2>2, <2>3, <2>4, <2>5, <2>6
<1> HIDE DEF b
<1>4. /\ e \in Bodies /\ e.conditions = new /\ e.ring = b.ring /\ e.boots = b.boots
      /\ e.health = b.health /\ e.deaths = b.deaths
      /\ e.varSpeed = b.varSpeed /\ e.varSkill = b.varSkill
      /\ e.drunkenness = b.drunkenness /\ e.shown = b.shown
  BY <1>1, <1>3, WithListFields
<1> HIDE DEF e
<1>5. Adds(m, c, e) /\ Due(e)
  BY <1>3, <1>4 DEF Adds, Due, new
<1>6. e \in Good
  BY <1>5, AddedGood
<1> QED
  BY <1>6 DEF e, b, new

(* startCondition does not touch the list.                                  *)
LEMMA BegunList ==
    ASSUME NEW m \in Bodies, NEW c \in Given
    PROVE  Begun(m, c).conditions = m.conditions
<1>1. CASE c.type = "fire"
  <2>1. Begun(m, c) = Hurt(m, 1)
    BY <1>1 DEF Begun, Speeds
  <2>2. SameBody(Hurt(m, 1), m)
    BY HurtKeeps
  <2> QED
    BY <2>1, <2>2 DEF SameBody
<1>2. CASE c.type \in Speeds \cup {"attributes", "drunk", "invisible"}
  <2>1. /\ [m EXCEPT !.varSpeed = @ + c.value].conditions = m.conditions
        /\ [m EXCEPT !.varSkill = @ + c.value].conditions = m.conditions
        /\ [m EXCEPT !.drunkenness = c.value].conditions = m.conditions
        /\ [m EXCEPT !.shown = FALSE].conditions = m.conditions
    BY DEF Bodies
  <2>2. CASE c.type \in Speeds
    BY <2>1, <2>2 DEF Begun, Speeds
  <2>3. CASE c.type = "attributes"
    BY <2>1, <2>3 DEF Begun, Speeds
  <2>4. CASE c.type = "drunk"
    BY <2>1, <2>4 DEF Begun, Speeds
  <2>5. CASE c.type = "invisible"
    BY <2>1, <2>5 DEF Begun, Speeds
  <2> QED
    BY <1>2, <2>2, <2>3, <2>4, <2>5
<1>3. CASE c.type \notin Speeds \cup {"attributes", "drunk", "invisible", "fire"}
  BY <1>3 DEF Begun
<1> QED
  BY <1>1, <1>2, <1>3

(* onAddCondition.                                                          *)
LEMMA OnAddConditionGood ==
    ASSUME NEW m \in Good, NEW type
    PROVE  OnAddCondition(m, type) \in Good
<1>1. RemoveCondition(m, "haste", FALSE) \in Good /\ RemoveCondition(m, "paralyze", FALSE) \in Good
  BY RemoveConditionGood DEF Speeds
<1> QED
  BY <1>1 DEF OnAddCondition

(* With is what it says, here.                                              *)
LEMMA WithOnAdd ==
    ASSUME NEW d, NEW type
    PROVE  With(d, LAMBDA v : OnAddCondition(v, type)) = OnAddCondition(d, type)
  BY Zenon DEF With

(* The three ways of addCondition.                                          *)
LEMMA AddConditionWays ==
    ASSUME NEW m \in Bodies, NEW c \in Given, NEW force
    PROVE  \/ AddCondition(m, c, force) = [m EXCEPT !.waiting = Append(m.waiting, c)] /\ c.type = "haste"
           \/ \E k \in Listed(m, c.type) : m.conditions[k].id = c.id /\ AddCondition(m, c, force) = Renewed(m, k, c)
           \/ /\ \A i \in 1..Len(m.conditions) : m.conditions[i].type # c.type \/ m.conditions[i].id # c.id
              /\ AddCondition(m, c, force) =
                    OnAddCondition([Begun(m, c) EXCEPT !.conditions = Append(m.conditions, c)], c.type)
<1> DEFINE same == {i \in Listed(m, c.type) : m.conditions[i].id = c.id}
           now == ~(~force /\ c.type = "haste" /\ m.stepping /\ HasCondition(m, "paralyze"))
           e == [Begun(m, c) EXCEPT !.conditions = Append(m.conditions, c)]
<1>0. [Begun(m, c) EXCEPT !.conditions = Append(@, c)] = e
  BY BegunList
<1> HIDE DEF e
<1>1. CASE ~now
  <2>1. AddCondition(m, c, force) = [m EXCEPT !.waiting = Append(@, c)]
    BY <1>1, Zenon DEF AddCondition
  <2> QED
    BY <1>1, <2>1
<1>2. CASE now /\ same # {}
  <2>1. AddCondition(m, c, force) = Renewed(m, CHOOSE i \in same : TRUE, c)
    BY <1>2, Zenon DEF AddCondition
  <2>2. (CHOOSE i \in same : TRUE) \in same
    BY <1>2, Zenon
  <2> QED
    BY <2>1, <2>2
<1>3. CASE now /\ same = {}
  <2>1. AddCondition(m, c, force) = With([Begun(m, c) EXCEPT !.conditions = Append(@, c)], LAMBDA d : OnAddCondition(d, c.type))
    BY <1>3, Zenon DEF AddCondition
  <2>2. AddCondition(m, c, force) = OnAddCondition(e, c.type)
    BY <1>0, <2>1, WithOnAdd, Zenon
  <2>3. m.conditions \in Seq(Given)
    BY BodyFields
  <2>4. ASSUME NEW i \in 1..Len(m.conditions) PROVE m.conditions[i].type # c.type \/ m.conditions[i].id # c.id
    BY <1>3, <2>3 DEF Listed
  <2> QED
    BY <2>2, <2>4 DEF e
<1> QED
  BY <1>1, <1>2, <1>3

(* addCondition keeps a player good, whatever is given, forced or not.      *)
LEMMA AddConditionGood ==
    ASSUME NEW m \in Good, NEW c \in Given, NEW force
    PROVE  AddCondition(m, c, force) \in Good
<1>1. m \in Bodies /\ m.waiting \in Seq(Given \cup {Removal})
  BY BodyFields DEF Good
<1>2. Append(m.waiting, c) \in Seq(Given \cup {Removal})
  BY <1>1
<1>3. CASE AddCondition(m, c, force) = [m EXCEPT !.waiting = Append(m.waiting, c)]
  BY <1>2, <1>3, WaitsGood
<1>4. CASE \E k \in Listed(m, c.type) : m.conditions[k].id = c.id /\ AddCondition(m, c, force) = Renewed(m, k, c)
  BY <1>4, RenewedGood
<1>5. CASE /\ \A i \in 1..Len(m.conditions) : m.conditions[i].type # c.type \/ m.conditions[i].id # c.id
           /\ AddCondition(m, c, force) =
                 OnAddCondition([Begun(m, c) EXCEPT !.conditions = Append(m.conditions, c)], c.type)
  BY <1>5, BegunGood, OnAddConditionGood
<1> QED
  BY <1>1, <1>3, <1>4, <1>5, AddConditionWays

-----------------------------------------------------------------------------
(* The equipment.                                                           *)
RingCondition == Condition("invisible", RingSlot, Forever, 0)

(* What the ring gives is listed.                                           *)
LEMMA RingAdded ==
    ASSUME NEW m \in Good
    PROVE  AddCondition(m, RingCondition, FALSE) \in Good /\ Worn(AddCondition(m, RingCondition, FALSE).conditions)
<1> DEFINE c == RingCondition
           d == AddCondition(m, c, FALSE)
<1>1. c \in Given /\ c.type = "invisible" /\ c.id = RingSlot
  <2>1. c = [type |-> "invisible", id |-> 9, ends |-> 1000, value |-> 0]
    BY DEF RingCondition, Condition, RingSlot, Forever
  <2> HIDE DEF c
  <2>2. c \in [type : Kinds, id : {Combat, RingSlot}, ends : Int, value : Int]
    <3>1. "invisible" \in Kinds
      BY DEF Kinds
    <3>2. [type |-> "invisible", id |-> 9, ends |-> 1000, value |-> 0]
             \in [type : Kinds, id : {0, 9}, ends : Int, value : Int]
      BY <3>1
    <3> QED
      BY <2>1, <3>2 DEF Combat, RingSlot
  <2> QED
    BY <2>1, <2>2 DEF Given, RingSlot, Forever
<1> HIDE DEF c
<1>2. d \in Good
  BY <1>1, AddConditionGood
<1>3. m \in Bodies /\ m.conditions \in Seq(Given)
  BY BodyFields DEF Good
<1>4. ASSUME \E k \in Listed(m, c.type) : m.conditions[k].id = c.id /\ d = Renewed(m, k, c)
      PROVE  Worn(d.conditions)
  <2>1. PICK k \in Listed(m, c.type) : m.conditions[k].id = c.id /\ d = Renewed(m, k, c)
    BY <1>4
  <2> DEFINE e == [m EXCEPT !.conditions[k] = [c EXCEPT !.value = c.value]]
  <2>2. d = m \/ d = e
    BY <2>1, <1>1 DEF Renewed, Speeds
  <2>3. k \in 1..Len(m.conditions) /\ m.conditions[k].type = "invisible" /\ m.conditions[k].id = RingSlot
    BY <1>1, <1>3, <2>1 DEF Listed
  <2>4. [c EXCEPT !.value = c.value] = c
    BY <1>1 DEF Given
  <2>5. e.conditions = [m.conditions EXCEPT ![k] = c]
    BY <1>3, <2>4 DEF Bodies
  <2>6. Worn(m.conditions)
    BY <2>3 DEF Worn
  <2>7. Worn([m.conditions EXCEPT ![k] = c])
    BY <2>3, <1>1, <1>3 DEF Worn
  <2> QED
    BY <1>2, <2>2, <2>5, <2>6, <2>7
<1>5. ASSUME d = OnAddCondition([Begun(m, c) EXCEPT !.conditions = Append(m.conditions, c)], c.type)
      PROVE  Worn(d.conditions)
  <2> DEFINE b == Begun(m, c)
             e == [b EXCEPT !.conditions = Append(m.conditions, c)]
  <2>1. d = e
    BY <1>1, <1>5 DEF OnAddCondition
  <2>2. b = [m EXCEPT !.shown = FALSE]
    BY <1>1 DEF Begun, Speeds
  <2>3. e.conditions = Append(m.conditions, c)
    BY <2>2, <1>3 DEF Bodies
  <2>4. Worn(Append(m.conditions, c))
    <3>1. Len(Append(m.conditions, c)) = Len(m.conditions) + 1 /\ Append(m.conditions, c)[Len(m.conditions) + 1] = c /\ Len(m.conditions) \in Nat
      BY <1>1, <1>3
    <3> QED
      BY <3>1, <1>1 DEF Worn
  <2> QED
    BY <1>2, <2>1, <2>3, <2>4
<1>7. d \in Good /\ Worn(d.conditions)
  BY <1>1, <1>2, <1>3, <1>4, <1>5, AddConditionWays
<1> QED
  BY <1>7 DEF c

(* Putting the ring on.                                                     *)
LEMMA RingOnGood ==
    ASSUME NEW m \in Good
    PROVE  RingOn(m) \in Good
<1> DEFINE d == AddCondition(m, RingCondition, FALSE)
           e == [d EXCEPT !.ring = TRUE]
<1>1. d \in Good /\ Worn(d.conditions)
  BY RingAdded
<1>2. RingOn(m) = e
  BY DEF RingOn, RingCondition
<1> HIDE DEF d
<1>3. d \in Bodies /\ Exact(d) /\ Due(d)
  BY <1>1 DEF Good
<1>4. /\ e \in Bodies /\ e.conditions = d.conditions /\ e.boots = d.boots
      /\ e.health = d.health /\ e.deaths = d.deaths
      /\ e.varSpeed = d.varSpeed /\ e.varSkill = d.varSkill
      /\ e.drunkenness = d.drunkenness /\ e.shown = d.shown
  BY <1>3 DEF Bodies
<1> HIDE DEF e
<1>5. Exact(e) /\ RingKept(e) /\ Due(e)
  BY <1>1, <1>3, <1>4 DEF Exact, RingKept, Due
<1> QED
  BY <1>2, <1>4, <1>5 DEF Good

(* Putting the boots on and taking them off.                                *)
LEMMA BootsGood ==
    ASSUME NEW m \in Good
    PROVE  (~m.boots => BootsOn(m) \in Good) /\ (m.boots => BootsOff(m) \in Good)
<1>1. m \in Bodies /\ Exact(m) /\ RingKept(m) /\ Due(m) /\ m.conditions \in Seq(Given) /\ m.varSpeed \in Int
  BY BodyFields DEF Good
<1>2. BootSpeed \in Int /\ Worth(m.conditions, Speeds) \in Int
  BY <1>1, Parameters, WorthInt
<1>3. ASSUME NEW n \in Int, NEW on \in BOOLEAN, on # m.boots,
             n = IF on THEN m.varSpeed + BootSpeed ELSE m.varSpeed - BootSpeed
      PROVE  [m EXCEPT !.varSpeed = n, !.boots = on] \in Good
  <2> DEFINE e == [m EXCEPT !.varSpeed = n, !.boots = on]
  <2>1. /\ e \in Bodies /\ e.conditions = m.conditions /\ e.boots = on /\ e.ring = m.ring
        /\ e.health = m.health /\ e.deaths = m.deaths
        /\ e.varSpeed = n /\ e.varSkill = m.varSkill
        /\ e.drunkenness = m.drunkenness /\ e.shown = m.shown
    BY <1>1 DEF Bodies
  <2>2. n = Worth(m.conditions, Speeds) + IF on THEN BootSpeed ELSE 0
    <3>1. m.varSpeed = Worth(m.conditions, Speeds) + IF m.boots THEN BootSpeed ELSE 0
      BY <1>1 DEF Exact
    <3>2. m.boots \in BOOLEAN
      BY <1>1, BodyFields
    <3> QED
      BY <1>2, <1>3, <3>1, <3>2
  <2> HIDE DEF e
  <2>3. Exact(e) /\ RingKept(e) /\ Due(e)
    BY <1>1, <2>1, <2>2 DEF Exact, RingKept, Due
  <2>4. e \in Good
    BY <2>1, <2>3 DEF Good
  <2> QED
    BY <2>4 DEF e
<1>4. m.varSpeed + BootSpeed \in Int /\ m.varSpeed - BootSpeed \in Int /\ m.boots \in BOOLEAN
  BY <1>1, <1>2, BodyFields
<1>5. BootsOn(m) = [m EXCEPT !.varSpeed = m.varSpeed + BootSpeed, !.boots = TRUE]
  BY DEF BootsOn
<1>6. BootsOff(m) = [m EXCEPT !.varSpeed = m.varSpeed - BootSpeed, !.boots = FALSE]
  BY DEF BootsOff
<1> QED
  BY <1>3, <1>4, <1>5, <1>6

(* One condition is executed.                                               *)
LEMMA ExecutedGood ==
    ASSUME NEW m \in Good, NEW c \in Given
    PROVE  Executed(m, c) \in Good
<1> DEFINE d == CASE c.type = "fire" -> Hurt(m, 1)
                  [] c.type = "regeneration" -> ChangeHealth(m, c.value)
                  [] OTHER -> m
<1>1. c.value \in Int /\ (c.ends = Past => c.id # RingSlot)
  BY DEF Given, Past, Forever
<1>2. m \in Bodies /\ SameBody(m, m)
  BY DEF Good, SameBody
<1>3. d \in Good /\ SameBody(d, m)
  <2>1. CASE c.type = "fire"
    BY <2>1, <1>2, HurtKeeps, HurtGood
  <2>2. CASE c.type = "regeneration"
    BY <2>2, <1>1, <1>2, ChangeHealthKeeps, ChangeHealthGood
  <2>3. CASE c.type \notin {"fire", "regeneration"}
    BY <2>3, <1>2
  <2> QED
    BY <2>1, <2>2, <2>3
<1>4. Executed(m, c) = IF ~Contains(m.conditions, c) THEN m ELSE IF c.ends = Past THEN Erased(d, c) ELSE d
  BY DEF Executed
<1> HIDE DEF d
<1>5. CASE Contains(m.conditions, c) /\ c.ends = Past
  <2>1. d.conditions = m.conditions /\ d \in Bodies /\ Exact(d) /\ Due(d) /\ RingKept(d)
    BY <1>3 DEF SameBody, Good
  <2>2. d.conditions \in Seq(Given)
    BY <2>1, BodyFields
  <2>3. PICK k \in 1..Len(d.conditions) : d.conditions[k] = c
    BY <1>5, <2>1, <2>2 DEF Contains
  <2>4. Erased(d, c) \in Bodies /\ Exact(Erased(d, c)) /\ Due(Erased(d, c)) /\ RingKept(Erased(d, c))
    BY <2>1, <2>3, <1>1, <1>5, ErasedKeeps
  <2>5. Erased(d, c) \in Good
    BY <2>4 DEF Good
  <2> QED
    BY <1>4, <1>5, <2>5
<1> QED
  BY <1>3, <1>4, <1>5

(* One condition is loaded.                                                 *)
LEMMA LoadedGood ==
    ASSUME NEW m \in Good, NEW c \in Given
    PROVE  Loaded(m, c) \in Good
<1> DEFINE x == [c EXCEPT !.ends = IF c.ends = 0 THEN Past ELSE c.ends]
<1>1. x \in Given
  BY DEF Given, Past, Forever
<1>2. Loaded(m, c) = AddCondition(m, x, FALSE)
  BY DEF Loaded
<1> HIDE DEF x
<1> QED
  BY <1>1, <1>2, AddConditionGood

(* A fold whose steps stay in a set ends in it.                             *)
LEMMA StepsStay ==
    ASSUME NEW kind, NEW D, NEW m \in D, NEW list \in Seq(Given), NEW t,
           StepTrace(kind, {}, m, list, t),
           \A d \in D, c \in Given : Step(kind, {}, d, c) \in D
    PROVE  t[Len(list)] \in D
<1> DEFINE S == {n \in 0..Len(list) : t[n] \in D}
<1>1. Len(list) \in Nat
  OBVIOUS
<1>2. 0 \in S
  BY <1>1 DEF StepTrace
<1>3. ASSUME NEW n \in 1..Len(list), n - 1 \in S PROVE n \in S
  <2>1. t[n] = Step(kind, {}, t[n - 1], list[n]) /\ list[n] \in Given /\ n \in 0..Len(list)
    BY <1>1 DEF StepTrace
  <2>2. t[n - 1] \in D
    BY <1>3
  <2> QED
    BY <2>1, <2>2
<1>4. Len(list) \in S
  <2> HIDE DEF S
  <2> QED
    BY <1>1, <1>2, <1>3, CountUp
<1> QED
  BY <1>4

(* executeConditions, one after the other.                                  *)
OnceExecuted(d, c) == CHOOSE r \in {Executed(v, c) : v \in {d}} : TRUE
(* With, written out, is what it says.                                      *)
LEMMA OnceExecutedIs ==
    ASSUME NEW d, NEW c
    PROVE  OnceExecuted(d, c) = Executed(d, c)
  BY Zenon DEF OnceExecuted
ExecuteSolves(base, list, f) ==
    f = [s \in SUBSET (DOMAIN list) |->
            IF s = {} THEN base
            ELSE OnceExecuted(f[s \ {Max(s)}], list[Max(s)])]

(* What the fold of executeConditions stands for.                           *)
LEMMA ExecuteIs ==
    ASSUME NEW m
    PROVE  ExecuteConditions(m) = (CHOOSE f : ExecuteSolves(m, m.conditions, f))[DOMAIN m.conditions]
  BY Zenon DEF With, OnceExecuted, ExecuteConditions, ExecuteSolves, FoldLeft, MapThenFoldSet

(* executeConditions keeps a player good.                                   *)
LEMMA ExecuteConditionsGood ==
    ASSUME NEW m \in Good
    PROVE  ExecuteConditions(m) \in Good
<1> DEFINE list == m.conditions
<1>1. list \in Seq(Given)
  BY BodyFields DEF Good
<1>2. ASSUME NEW d \in Good, NEW c \in Given PROVE Step("execute", {}, d, c) \in Good
  BY ExecutedGood DEF Step
<1>3. ASSUME NEW f PROVE StepSolves("execute", {}, m, list, f) <=> ExecuteSolves(m, list, f)
  <2>1. \A d, c : Step("execute", {}, d, c) = OnceExecuted(d, c)
    BY OnceExecutedIs, Zenon DEF Step
  <2> QED
    BY <2>1, Zenon DEF StepSolves, ExecuteSolves
<1>9. ExecuteConditions(m) = (CHOOSE f : ExecuteSolves(m, list, f))[DOMAIN list]
  BY ExecuteIs
<1> HIDE DEF list
<1>4. \E f : ExecuteSolves(m, list, f)
  BY <1>1, <1>2, <1>3, StepExists
<1>5. ExecuteSolves(m, list, CHOOSE f : ExecuteSolves(m, list, f))
  BY <1>4, Zenon
<1>6. PICK h : h = CHOOSE f : ExecuteSolves(m, list, f)
  OBVIOUS
<1>7. StepSolves("execute", {}, m, list, h)
  BY <1>3, <1>5, <1>6
<1>8. PICK t : StepTrace("execute", {}, m, list, t) /\ h[DOMAIN list] = t[Len(list)]
  BY <1>1, <1>7, StepTraced
<1>10. t[Len(list)] \in Good
  BY <1>1, <1>2, <1>8, StepsStay
<1> QED
  BY <1>6, <1>8, <1>9, <1>10

(* What was saved, loaded one after the other.                              *)
LoadsAll(m, list) == FoldLeft(LAMBDA d, c : With(d, LAMBDA v : Loaded(v, c)), m, list)
OnceLoaded(d, c) == CHOOSE r \in {Loaded(v, c) : v \in {d}} : TRUE
(* With, written out, is what it says.                                      *)
LEMMA OnceLoadedIs ==
    ASSUME NEW d, NEW c
    PROVE  OnceLoaded(d, c) = Loaded(d, c)
  BY Zenon DEF OnceLoaded
LoadSolves(base, list, f) ==
    f = [s \in SUBSET (DOMAIN list) |->
            IF s = {} THEN base
            ELSE OnceLoaded(f[s \ {Max(s)}], list[Max(s)])]

(* What the fold of a login stands for.                                     *)
LEMMA LoadsIs ==
    ASSUME NEW m, NEW list
    PROVE  LoadsAll(m, list) = (CHOOSE f : LoadSolves(m, list, f))[DOMAIN list]
  BY Zenon DEF With, OnceLoaded, LoadsAll, LoadSolves, FoldLeft, MapThenFoldSet

(* Loading keeps a player good.                                             *)
LEMMA LoadsAllGood ==
    ASSUME NEW m \in Good, NEW list \in Seq(Given)
    PROVE  LoadsAll(m, list) \in Good
<1>2. ASSUME NEW d \in Good, NEW c \in Given PROVE Step("load", {}, d, c) \in Good
  BY LoadedGood DEF Step
<1>3. ASSUME NEW f PROVE StepSolves("load", {}, m, list, f) <=> LoadSolves(m, list, f)
  <2>1. \A d, c : Step("load", {}, d, c) = OnceLoaded(d, c)
    BY OnceLoadedIs, Zenon DEF Step
  <2> QED
    BY <2>1, Zenon DEF StepSolves, LoadSolves
<1>4. \E f : LoadSolves(m, list, f)
  BY <1>2, <1>3, StepExists
<1>5. LoadSolves(m, list, CHOOSE f : LoadSolves(m, list, f))
  BY <1>4, Zenon
<1>6. PICK h : h = CHOOSE f : LoadSolves(m, list, f)
  OBVIOUS
<1>7. StepSolves("load", {}, m, list, h)
  BY <1>3, <1>5, <1>6
<1>8. PICK t : StepTrace("load", {}, m, list, t) /\ h[DOMAIN list] = t[Len(list)]
  BY <1>7, StepTraced
<1>9. LoadsAll(m, list) = h[DOMAIN list]
  BY <1>6, LoadsIs
<1>10. t[Len(list)] \in Good
  BY <1>2, <1>8, StepsStay
<1> QED
  BY <1>8, <1>9, <1>10

(* What is saved of a list.                                                 *)
SaveSolves(base, list, f) ==
    f = [s \in SUBSET (DOMAIN list) |->
            IF s = {} THEN base
            ELSE IF IsPersistent(list[Max(s)]) THEN Append(f[s \ {Max(s)}], list[Max(s)])
                 ELSE f[s \ {Max(s)}]]

(* What the fold of savePlayer stands for.                                  *)
LEMMA PersistentIs ==
    ASSUME NEW list
    PROVE  Persistent(list) = (CHOOSE f : SaveSolves(<<>>, list, f))[DOMAIN list]
  BY Zenon DEF Persistent, SaveSolves, FoldLeft, MapThenFoldSet

(* What is saved is a list of conditions.                                   *)
LEMMA PersistentType ==
    ASSUME NEW list \in Seq(Given)
    PROVE  Persistent(list) \in Seq(Given)
<1>1. <<>> \in Seq(Given)
  OBVIOUS
<1>2. ASSUME NEW d \in Seq(Given), NEW c \in Given PROVE Step("save", {}, d, c) \in Seq(Given)
  BY DEF Step
<1>3. ASSUME NEW f PROVE StepSolves("save", {}, <<>>, list, f) <=> SaveSolves(<<>>, list, f)
  <2>1. \A d, c : Step("save", {}, d, c) = IF IsPersistent(c) THEN Append(d, c) ELSE d
    BY Zenon DEF Step
  <2> QED
    BY <2>1, Zenon DEF StepSolves, SaveSolves
<1>4. \E f : SaveSolves(<<>>, list, f)
  BY <1>1, <1>2, <1>3, StepExists
<1>5. SaveSolves(<<>>, list, CHOOSE f : SaveSolves(<<>>, list, f))
  BY <1>4, Zenon
<1>6. PICK h : h = CHOOSE f : SaveSolves(<<>>, list, f)
  OBVIOUS
<1>7. StepSolves("save", {}, <<>>, list, h)
  BY <1>3, <1>5, <1>6
<1>8. PICK t : StepTrace("save", {}, <<>>, list, t) /\ h[DOMAIN list] = t[Len(list)]
  BY <1>7, StepTraced
<1>9. Persistent(list) = h[DOMAIN list]
  BY <1>6, PersistentIs
<1>10. t[Len(list)] \in Seq(Given)
  BY <1>1, <1>2, <1>8, StepsStay
<1> QED
  BY <1>8, <1>9, <1>10

-----------------------------------------------------------------------------
(* The list at other times, with the same kinds and measures.               *)
LEMMA RetimedGood ==
    ASSUME NEW m \in Good, NEW new \in Seq(Given), Len(new) = Len(m.conditions),
           \A i \in 1..Len(new) : /\ new[i].type = m.conditions[i].type /\ new[i].id = m.conditions[i].id
                                  /\ new[i].value = m.conditions[i].value
    PROVE  [m EXCEPT !.conditions = new] \in Good
<1> DEFINE list == m.conditions
           e == [m EXCEPT !.conditions = new]
<1>1. m \in Bodies /\ Exact(m) /\ RingKept(m) /\ Due(m) /\ list \in Seq(Given)
  BY BodyFields DEF Good
<1>2. /\ e \in Bodies /\ e.conditions = new /\ e.ring = m.ring /\ e.boots = m.boots
      /\ e.health = m.health /\ e.deaths = m.deaths
      /\ e.varSpeed = m.varSpeed /\ e.varSkill = m.varSkill
      /\ e.drunkenness = m.drunkenness /\ e.shown = m.shown
  BY <1>1, WithListFields
<1>3. ASSUME NEW types PROVE Worth(new, types) = Worth(list, types)
  <2>1. \A i \in 1..Len(list) : Val(new[i], types) = Val(list[i], types)
    BY DEF Val
  <2> QED
    BY <1>1, <2>1, WorthAlike
<1>5. /\ Single(new) <=> Single(list)
      /\ \A type : Has(new, type) <=> Has(list, type)
      /\ Worn(new) <=> Worn(list)
  <2>1. Len(new) = Len(list) /\ \A i \in 1..Len(new) : new[i].type = list[i].type /\ new[i].id = list[i].id
    OBVIOUS
  <2> HIDE DEF list
  <2> QED
    BY <2>1 DEF Single, Has, Worn
<1> HIDE DEF e
<1>6. Exact(e) /\ RingKept(e) /\ Due(e)
  BY <1>1, <1>2, <1>3, <1>5 DEF Exact, RingKept, Due
<1> QED
  BY <1>2, <1>6 DEF Good, e

(* Other health.                                                            *)
LEMMA RevivedGood ==
    ASSUME NEW m \in Good, NEW n \in Nat
    PROVE  [m EXCEPT !.deaths = n, !.health = MaxHealth] \in Good
<1> DEFINE e == [m EXCEPT !.deaths = n, !.health = MaxHealth]
<1>1. m \in Bodies /\ Exact(m) /\ RingKept(m)
  BY DEF Good
<1>2. MaxHealth \in 0..MaxHealth /\ MaxHealth # 0
  BY Parameters
<1>3. e \in Bodies /\ SameBody(e, m) /\ e.health = MaxHealth
  BY <1>1, <1>2 DEF Bodies, SameBody
<1> HIDE DEF e
<1>4. Due(e)
  BY <1>2, <1>3 DEF Due
<1>5. Exact(e) /\ RingKept(e)
  BY <1>1, <1>3, SameBodySame
<1> QED
  BY <1>3, <1>4, <1>5 DEF Good, e

(* A player who steps.                                                      *)
LEMMA SteppingGood ==
    ASSUME NEW m \in Good
    PROVE  [m EXCEPT !.stepping = ~@] \in Good
<1> DEFINE e == [m EXCEPT !.stepping = ~m.stepping]
<1>1. m \in Bodies /\ Exact(m) /\ RingKept(m) /\ Due(m)
  BY DEF Good
<1>2. /\ e \in Bodies /\ e.conditions = m.conditions /\ e.ring = m.ring /\ e.boots = m.boots
      /\ e.health = m.health /\ e.deaths = m.deaths
      /\ e.varSpeed = m.varSpeed /\ e.varSkill = m.varSkill
      /\ e.drunkenness = m.drunkenness /\ e.shown = m.shown
  BY <1>1 DEF Bodies
<1> HIDE DEF e
<1>3. Exact(e) /\ RingKept(e) /\ Due(e)
  BY <1>1, <1>2, Zenon DEF Exact, RingKept, Due
<1> QED
  BY <1>2, <1>3 DEF Good, e

(* Whoever is saved has health.                                             *)
LEMMA WithHealthGood ==
    ASSUME NEW m \in Good
    PROVE  WithHealth(m) \in Good /\ WithHealth(m).health \in 1..MaxHealth
<1>1. m \in Bodies /\ m.health \in 0..MaxHealth /\ MaxHealth \in Nat /\ MaxHealth > 0
  BY BodyFields, Parameters DEF Good
<1>2. CASE m.health = 0
  <2>1. WithHealth(m) = ChangeHealth(m, 1)
    BY <1>2 DEF WithHealth
  <2>2. ChangeHealth(m, 1).health = 1
    BY <1>1, <1>2 DEF ChangeHealth, Bodies
  <2> QED
    BY <1>1, <2>1, <2>2, ChangeHealthGood
<1>3. CASE m.health # 0
  BY <1>1, <1>3 DEF WithHealth
<1> QED
  BY <1>2, <1>3

(* What is saved is a row.                                                  *)
LEMMA RowOf ==
    ASSUME NEW m \in Bodies, m.health \in 1..MaxHealth
    PROVE  Row(m) \in Rows
<1>1. m.conditions \in Seq(Given) /\ m.ring \in BOOLEAN /\ m.boots \in BOOLEAN
  BY BodyFields
<1>2. Persistent(m.conditions) \in Seq(Given)
  BY <1>1, PersistentType
<1> QED
  BY <1>1, <1>2 DEF Row, Rows

(* A player as it is loaded, and one who is gone.                           *)
LEMMA FreshGood ==
    ASSUME NEW n \in 1..MaxHealth
    PROVE  Fresh(n) \in Good /\ [Fresh(n) EXCEPT !.online = FALSE] \in Good
<1> DEFINE m == Fresh(n)
<1>1. /\ m \in Bodies /\ m.conditions = <<>> /\ m.varSpeed = 0 /\ m.varSkill = 0 /\ m.drunkenness = 0
      /\ m.shown = TRUE /\ m.ring = FALSE /\ m.boots = FALSE /\ m.health = n
  <2>1. n \in 0..MaxHealth /\ 0 \in Nat /\ 0 \in Int
    BY Parameters
  <2>2. <<>> \in Seq(Given) /\ <<>> \in Seq(Given \cup {Removal})
    OBVIOUS
  <2> QED
    BY <2>1, <2>2 DEF Fresh, Bodies
<1> DEFINE e == [m EXCEPT !.online = FALSE]
<1> HIDE DEF m
<1>2. e \in Bodies /\ SameBody(e, m) /\ e.health = n
  BY <1>1 DEF Bodies, SameBody
<1>3. Worth(<<>>, Speeds) = 0 /\ Worth(<<>>, {"attributes"}) = 0
  BY WorthEmpty
<1>4. Exact(m)
  <2>1. ~Has(<<>>, "drunk") /\ ~Has(<<>>, "invisible") /\ Single(<<>>)
    BY DEF Has, Single
  <2> QED
    BY <1>1, <1>3, <2>1 DEF Exact
<1>5. RingKept(m) /\ Due(m) /\ n # 0
  BY <1>1 DEF RingKept, Due
<1> HIDE DEF e
<1>6. Exact(e) /\ RingKept(e) /\ Due(e)
  BY <1>2, <1>4, <1>5, SameBodySame DEF Due
<1> QED
  BY <1>1, <1>2, <1>4, <1>5, <1>6 DEF Good, m, e

CondInv == sick \in Good /\ saved \in Rows

(* The loop of Player::death leaves what the ring gives.                    *)
LEMMA CuredGood ==
    ASSUME NEW m \in Good
    PROVE  Cured(m) \in Good
<1>1. \A c \in {x \in ToSet(m.conditions) : IsPersistent(x)} : c.id # RingSlot
  BY DEF IsPersistent, Combat, RingSlot
<1> QED
  BY <1>1, WithoutGood DEF Cured

(* Whoever leaves.                                                          *)
LEMMA LeavesKeeps ==
    ASSUME NEW m \in Good, Leaves(m)
    PROVE  CondInv'
<1>1. WithHealth(m) \in Good /\ WithHealth(m).health \in 1..MaxHealth
  BY WithHealthGood
<1>2. Row(WithHealth(m)) \in Rows
  BY <1>1, RowOf DEF Good
<1>3. MaxHealth \in 1..MaxHealth
  BY Parameters
<1> QED
  BY <1>2, <1>3, FreshGood DEF Leaves, CondInv

(* The start.                                                               *)
LEMMA CondInitial ==
    ASSUME CondInit
    PROVE  CondInv
<1>1. MaxHealth \in 1..MaxHealth
  BY Parameters
<1>2. Fresh(MaxHealth) \in Good /\ Fresh(MaxHealth).health = MaxHealth
  BY <1>1, FreshGood DEF Fresh
<1>3. Row(Fresh(MaxHealth)) \in Rows
  BY <1>1, <1>2, RowOf DEF Good
<1> QED
  BY <1>2, <1>3 DEF CondInit, CondInv

(* dispel of what is busy.                                                  *)
LEMMA CastKeeps ==
    ASSUME CondInv, NEW c \in Spells, NEW force, Cast(c, force)
    PROVE  CondInv'
  BY AddConditionGood, Parameters DEF Cast, Befalls, CondInv

(* Dispelling: at once, or when the player may act again.                   *)
LEMMA DispelKeeps ==
    ASSUME CondInv, NEW c \in Spells, NEW busy, Dispel(c.type, busy)
    PROVE  CondInv'
<1> DEFINE type == c.type
           new == [i \in DOMAIN sick.conditions |->
                     IF sick.conditions[i].type = type /\ sick.conditions[i].id = Combat
                     THEN [sick.conditions[i] EXCEPT !.ends = 0] ELSE sick.conditions[i]]
<1>1. sick \in Good /\ saved' = saved /\ sick.conditions \in Seq(Given)
  BY BodyFields DEF CondInv, Good, Dispel, Befalls
<1>2. CASE type = "paralyze"
  <2>1. sick' = RemoveCondition(sick, "paralyze", FALSE)
    BY <1>2 DEF Dispel
  <2>2. sick' \in Good
    BY <1>1, <2>1, RemoveConditionGood DEF Speeds
  <2> QED
    BY <1>1, <2>2 DEF CondInv
<1>3. CASE type # "paralyze" /\ busy
  <2>1. sick' = [sick EXCEPT !.conditions = new]
    BY <1>3 DEF Dispel
  <2>2. ASSUME NEW i \in 1..Len(sick.conditions)
        PROVE  /\ new[i] \in Given /\ new[i].type = sick.conditions[i].type
               /\ new[i].id = sick.conditions[i].id /\ new[i].value = sick.conditions[i].value
    <3> DEFINE x == sick.conditions[i]
    <3>1. x \in Given /\ new[i] = IF x.type = type /\ x.id = Combat THEN [x EXCEPT !.ends = 0] ELSE x
      BY <1>1
    <3>2. x.id = Combat => [x EXCEPT !.ends = 0] \in Given
      BY <3>1 DEF Given, Combat, RingSlot
    <3> HIDE DEF new, x
    <3>3. [x EXCEPT !.ends = 0].type = x.type /\ [x EXCEPT !.ends = 0].id = x.id /\ [x EXCEPT !.ends = 0].value = x.value
      BY <3>1 DEF Given
    <3>4. /\ new[i] \in Given /\ new[i].type = x.type
          /\ new[i].id = x.id /\ new[i].value = x.value
      BY <3>1, <3>2, <3>3
    <3> QED
      BY <3>4 DEF x
  <2>3. new \in Seq(Given) /\ Len(new) = Len(sick.conditions)
    <3>1. DOMAIN new = 1..Len(sick.conditions) /\ Len(sick.conditions) \in Nat
      BY <1>1
    <3> HIDE DEF new
    <3>2. new = [i \in 1..Len(sick.conditions) |-> new[i]]
      BY <3>1 DEF new
    <3> QED
      BY <2>2, <3>1, <3>2
  <2> HIDE DEF new
  <2>4. sick' \in Good
    BY <1>1, <2>1, <2>2, <2>3, RetimedGood
  <2> QED
    BY <1>1, <2>4 DEF CondInv
<1>4. CASE type # "paralyze" /\ ~busy
  <2>1. sick' = Without(sick, {x \in Of(sick, type) : x.id = Combat})
    BY <1>4 DEF Dispel
  <2>2. \A x \in {y \in Of(sick, type) : y.id = Combat} : x.id # RingSlot
    BY DEF Combat, RingSlot
  <2>3. sick' \in Good
    BY <1>1, <2>1, <2>2, WithoutGood
  <2> QED
    BY <1>1, <2>3 DEF CondInv
<1> QED
  BY <1>2, <1>3, <1>4

(* Time.                                                                    *)
LEMMA TimePassesKeeps ==
    ASSUME CondInv, TimePasses
    PROVE  CondInv'
<1> DEFINE new == [i \in DOMAIN sick.conditions |-> Older(sick.conditions[i])]
<1>1. sick \in Good /\ saved' = saved /\ sick.conditions \in Seq(Given)
  BY BodyFields DEF CondInv, Good, TimePasses, Goes
<1>2. sick' = [sick EXCEPT !.conditions = new]
  BY Zenon DEF TimePasses
<1>3. ASSUME NEW i \in 1..Len(sick.conditions)
      PROVE  /\ new[i] \in Given /\ new[i].type = sick.conditions[i].type
             /\ new[i].id = sick.conditions[i].id /\ new[i].value = sick.conditions[i].value
  <2> DEFINE x == sick.conditions[i]
             y == [x EXCEPT !.ends = x.ends - 1]
  <2>1. x \in Given /\ new[i] = IF x.ends \in {Forever, Past} THEN x ELSE y
    BY <1>1 DEF Older
  <2> HIDE DEF new, x
  <2>2. x.ends # Forever => y \in Given
    BY <2>1 DEF Given
  <2>3. y.type = x.type /\ y.id = x.id /\ y.value = x.value
    BY <2>1 DEF Given
  <2>4. /\ new[i] \in Given /\ new[i].type = x.type
        /\ new[i].id = x.id /\ new[i].value = x.value
    BY <2>1, <2>2, <2>3
  <2> QED
    BY <2>4 DEF x
<1>4. new \in Seq(Given) /\ Len(new) = Len(sick.conditions)
  <2>1. DOMAIN new = 1..Len(sick.conditions) /\ Len(sick.conditions) \in Nat
    BY <1>1
  <2>2. new = [i \in 1..Len(sick.conditions) |-> new[i]]
    BY <2>1
  <2> HIDE DEF new
  <2> QED
    BY <1>3, <2>1, <2>2
<1> HIDE DEF new
<1>5. sick' \in Good
  BY <1>1, <1>2, <1>3, <1>4, RetimedGood
<1> QED
  BY <1>1, <1>5 DEF CondInv

(* An event that waited.                                                    *)
LEMMA RunWaitingKeeps ==
    ASSUME CondInv, NEW k, RunWaiting(k)
    PROVE  CondInv'
<1> DEFINE c == sick.waiting[k]
           w == RemoveAt(sick.waiting, k)
           m == [sick EXCEPT !.waiting = w]
<1>1. /\ sick \in Good /\ saved' = saved /\ sick.waiting \in Seq(Given \cup {Removal}) /\ k \in 1..Len(sick.waiting)
      /\ sick' = IF c.type = "remove" THEN RemoveCondition(m, "paralyze", TRUE) ELSE AddCondition(m, c, TRUE)
  <2>1. sick \in Good /\ sick.waiting \in Seq(Given \cup {Removal})
    BY BodyFields DEF CondInv, Good
  <2> QED
    BY <2>1 DEF RunWaiting, Goes
<1>2. c \in Given \/ c.type = "remove"
  <2>1. c \in Given \/ c = Removal
    BY <1>1
  <2> QED
    BY <2>1 DEF Removal, Condition
<1>3. w \in Seq(Given \cup {Removal})
  BY <1>1, RemoveAtIs
<1>4. m \in Good
  <2> HIDE DEF w
  <2> QED
    BY <1>1, <1>3, WaitsGood
<1> HIDE DEF m, c
<1>5. RemoveCondition(m, "paralyze", TRUE) \in Good
  BY <1>4, RemoveConditionGood DEF Speeds
<1>6. sick' \in Good
  BY <1>1, <1>2, <1>4, <1>5, AddConditionGood
<1> QED
  BY <1>1, <1>6 DEF CondInv

(* A login.                                                                 *)
LEMMA LogsInKeeps ==
    ASSUME CondInv, LogsIn
    PROVE  CondInv'
<1> DEFINE bare == Fresh(saved.health)
           shod == IF saved.boots THEN BootsOn(bare) ELSE bare
           worn == IF saved.ring THEN RingOn(shod) ELSE shod
<1>1. saved.health \in 1..MaxHealth /\ saved.conditions \in Seq(Given)
  BY DEF CondInv, Rows
<1>2. sick' = LoadsAll(worn, Reverse(saved.conditions)) /\ saved' = Row(Fresh(MaxHealth))
  BY Zenon DEF LogsIn, LoadsAll
<1>3. bare \in Good /\ ~bare.boots
  BY <1>1, FreshGood DEF Fresh
<1> HIDE DEF bare
<1>4. shod \in Good
  BY <1>3, BootsGood
<1> HIDE DEF shod
<1>5. worn \in Good
  BY <1>4, RingOnGood
<1> HIDE DEF worn
<1>6. Reverse(saved.conditions) \in Seq(Given)
  BY <1>1 DEF Reverse
<1>7. sick' \in Good
  BY <1>2, <1>5, <1>6, LoadsAllGood
<1>8. saved' \in Rows
  <2>1. MaxHealth \in 1..MaxHealth
    BY Parameters
  <2>2. Fresh(MaxHealth) \in Good /\ Fresh(MaxHealth).health = MaxHealth
    BY <2>1, FreshGood DEF Fresh
  <2> QED
    BY <1>2, <2>1, <2>2, RowOf DEF Good
<1> QED
  BY <1>7, <1>8 DEF CondInv

(* A death, with and without a corpse.                                      *)
LEMMA ExecuteDeathKeeps ==
    ASSUME CondInv, NEW dropsCorpse \in BOOLEAN, ExecuteDeath(dropsCorpse)
    PROVE  CondInv'
<1> DEFINE e == [sick EXCEPT !.deaths = sick.deaths - 1, !.health = MaxHealth]
           m == Cured(e)
<1>1. sick \in Good /\ saved \in Rows /\ sick.deaths \in Nat /\ sick.deaths > 0
  BY BodyFields DEF CondInv, Good, ExecuteDeath
<1>2. IF dropsCorpse THEN Leaves(m) ELSE sick' = m /\ saved' = saved
  BY DEF ExecuteDeath
<1>3. sick.deaths - 1 \in Nat
  BY <1>1
<1>4. m \in Good
  BY <1>1, <1>3, RevivedGood, CuredGood
<1> HIDE DEF m
<1> QED
  BY <1>1, <1>2, <1>4, LeavesKeeps DEF CondInv

(* Every step.                                                              *)
LEMMA CondStep ==
    ASSUME CondInv, CondNext
    PROVE  CondInv'
<1>0. sick \in Good /\ saved \in Rows
  BY DEF CondInv
<1>1. CASE \E c \in Spells : Cast(c, FALSE) \/ (c.type = "haste" /\ Cast(c, TRUE))
  BY <1>1, CastKeeps
<1>2. CASE \E c \in Spells, busy \in BOOLEAN : Dispel(c.type, busy)
  BY <1>2, DispelKeeps
<1>3. CASE DispelDestroys
  BY <1>0, <1>3, RingOffGood DEF DispelDestroys, Befalls, CondInv
<1>4. CASE Hit
  BY <1>0, <1>4, HurtGood DEF Hit, Befalls, CondInv
<1>5. CASE Heal
  BY <1>0, <1>5, ChangeHealthGood DEF Heal, Befalls, CondInv
<1>6. CASE ChangeRing
  BY <1>0, <1>6, RingOffGood, RingOnGood DEF ChangeRing, Befalls, CondInv
<1>7. CASE ChangeBoots
  BY <1>0, <1>7, BootsGood DEF ChangeBoots, Befalls, CondInv
<1>8. CASE Steps
  BY <1>0, <1>8, SteppingGood DEF Steps, Goes, CondInv
<1>9. CASE TimePasses
  BY <1>9, TimePassesKeeps
<1>10. CASE Think
  BY <1>0, <1>10, ExecuteConditionsGood DEF Think, Goes, CondInv
<1>11. CASE \E k \in 1..MaxWaiting + 1 : RunWaiting(k)
  BY <1>11, RunWaitingKeeps
<1>12. CASE SaveGame
  BY <1>0, <1>12, WithHealthGood DEF SaveGame, Goes, CondInv
<1>13. CASE LogsOut
  BY <1>0, <1>13, LeavesKeeps DEF LogsOut
<1>14. CASE LogsIn
  BY <1>14, LogsInKeeps
<1>15. CASE \E dropsCorpse \in BOOLEAN : ExecuteDeath(dropsCorpse)
  BY <1>15, ExecuteDeathKeeps
<1> QED
  BY <1>1, <1>2, <1>3, <1>4, <1>5, <1>6, <1>7, <1>8, <1>9, <1>10, <1>11, <1>12,
     <1>13, <1>14, <1>15 DEF CondNext

(* A good player is what ConditionsSound says.                              *)
LEMMA CondSafe ==
    ASSUME CondInv
    PROVE  ConditionsSound
<1> DEFINE list == sick.conditions
<1>1. sick \in Bodies /\ Exact(sick) /\ RingKept(sick) /\ Due(sick) /\ list \in Seq(Given) /\ sick.deaths \in Nat
  BY BodyFields DEF CondInv, Good
<1>2. ASSUME NEW types PROVE Total(types) = Worth(list, types)
  BY Zenon DEF Total, Worth
<1>3. \A type : Has(list, type) <=> Listed(sick, type) # {}
  BY <1>1 DEF Has, Listed
<1>4. Worn(list) => Has(list, "invisible")
  BY DEF Worn, Has
<1>5. DOMAIN list = 1..Len(list)
  BY <1>1
<1>6. EffectsExact
  BY <1>1, <1>2, <1>3, <1>4, <1>5 DEF EffectsExact, Exact, RingKept, Single
<1>7. DeathIsDue
  BY <1>1 DEF DeathIsDue, Due
<1> QED
  BY <1>6, <1>7 DEF ConditionsSound

(* In every state: a player's speed, skill, drink and invisibility are what *)
(* the listed conditions and the equipment give, one kind from one source   *)
(* is listed once, and nobody is in the game without health unless a death  *)
(* is on its way (Creature::addCondition, removeCondition,                  *)
(* executeConditions, changeHealth, Game::executeDeath,                     *)
(* IOLoginData::savePlayer).                                                *)
THEOREM ConditionsCorrect == CondSpec => []ConditionsSound
<1>1. ASSUME CondInv, UNCHANGED condVars PROVE CondInv'
  BY <1>1 DEF CondInv, condVars
<1>2. CondInit => CondInv
  BY CondInitial
<1>3. CondInv /\ [CondNext]_condVars => CondInv'
  BY <1>1, CondStep
<1>4. CondInv => ConditionsSound
  BY CondSafe
<1> QED
  BY <1>2, <1>3, <1>4, PTL DEF CondSpec
=============================================================================
