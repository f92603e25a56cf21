---------------------------- MODULE ScreensProofs ----------------------------
(***************************************************************************)
(* What is proved about screens: that c_getchar and the keyboard handler   *)
(* share a ring, that mouse packets stay aligned, and that frames are kept *)
(* apart, whatever programs do with screens of their own; and that the     *)
(* two queues of screens stay right whatever they do with those of others. *)
(* And about the text console: the cursor comes back into its window, and  *)
(* a console nobody disturbs shows the last lines of what was printed.     *)
(***************************************************************************)
EXTENDS Screens, Console, Lists

\* Programs with screens of their own, any number of them, doing all there is to do.
OwnNext ==
  \/ OwnScreens(NUM_SCREENS)
  \/ Switching
  \/ Keyboard
  \/ Mouse
  \/ Drawing

OwnSpec == ScreensInit /\ [][OwnNext]_screenVars

-----------------------------------------------------------------------------
RingIndex == 0..(BUFSIZE - 1)

\* A ring of things of D, its pointers into it or unset.
RingType(D) == [data : [RingIndex -> D], char : RingIndex \cup {UNSET}, space : RingIndex \cup {UNSET}]

Characters == KEYS \cup {UNSET}
Bytes == (0..(PACKET - 1)) \cup {UNSET}

QueueType == [first : Int, last : Int, length : Int]

ScreenTypes ==
  /\ unused_screens \in QueueType /\ active_screens \in QueueType
  /\ owner \in [ScreenHandles -> SCREEN_USERS \cup {0}]
  /\ active_screen \in ScreenHandles
  /\ screenOf \in [SCREEN_USERS -> ScreenHandles]
  /\ keys \in [ScreenHandles -> RingType(Characters)]
  /\ mice \in [ScreenHandles -> RingType(Bytes)]
  /\ mouseByte \in 0..(PACKET - 1)
  /\ getchar \in [SCREEN_USERS -> [pc : {"out", "read"}, char : Characters]]
  /\ frames \in [Frames -> SUBSET ScreenHandles]
  /\ drawing \in [SCREEN_USERS -> [pc : {"out", "begun", "switched"}, target : Frames]]
  /\ smeared \in BOOLEAN

Untouched(r) == r.char = UNSET /\ r.space = UNSET

\* Screens are opened one after the other: those not opened yet wait in their order and
\* have rings nobody has reset.
Fresh ==
  /\ active_screens.length \in 0..NUM_SCREENS
  /\ unused_screens.length = NUM_SCREENS - active_screens.length
  /\ unused_screens.length # 0 => unused_screens.first = active_screens.length
  /\ active_screens.length # 0 => active_screens.last \in 0..(active_screens.length - 1)
  /\ DOMAIN chained = ScreenHandles
  /\ \A s \in ScreenHandles : s >= active_screens.length =>
       /\ chained[s] = IF s = NUM_SCREENS - 1 THEN NO_NODE ELSE s + 1
       /\ owner[s] = 0 /\ Untouched(keys[s]) /\ Untouched(mice[s])
  /\ \A s \in ScreenHandles : keys[s].char = UNSET <=> keys[s].space = UNSET
  /\ \A s \in ScreenHandles : mice[s].char = UNSET <=> mice[s].space = UNSET

\* The programs read the keys of a screen one at a time.
OneReader ==
  \A p, q \in SCREEN_USERS :
    p # q /\ screenOf[p] = screenOf[q] => getchar[p].pc = "out" \/ getchar[q].pc = "out"

\* The bytes that wait in a ring stand where those of a packet do.
Waiting(r) ==
  {i \in RingIndex : IF r.char <= r.space THEN r.char <= i /\ i < r.space
                     ELSE r.char <= i \/ i < r.space}

AlignedRing(r) == \A i \in Waiting(r) : r.data[i] = i % PACKET

\* And the next byte of the mouse goes on there.
MouseInStep ==
  \A s \in ScreenHandles \ torn :
    /\ mice[s].space # UNSET =>
         mice[s].space % PACKET = IF s = active_screen THEN mouseByte ELSE 0
    /\ AlignedRing(mice[s])

\* Where a routine that has begun, and has not missed a switch, is going to draw.
TargetsRight ==
  \A p \in SCREEN_USERS : drawing[p].pc = "begun" =>
    drawing[p].target = IF screenOf[p] = active_screen THEN VIDEO ELSE screenOf[p]

OwnInv ==
  /\ ScreenTypes
  /\ Fresh
  /\ OneReader
  /\ ReadIsFirst
  /\ MouseInStep
  /\ TargetsRight
  /\ FramesApart

(***************************************************************************)
(* A ring pointer goes round.                                              *)
(***************************************************************************)
LEMMA Pointers ==
  /\ BUFSIZE \in Nat /\ BUFSIZE > 1
  /\ UNSET \notin RingIndex /\ 0 \in RingIndex
  /\ \A i \in RingIndex : RingNext(i) = (IF i = BUFSIZE - 1 THEN 0 ELSE i + 1) /\ RingNext(i) \in RingIndex
  /\ \A i \in RingIndex : i \in Nat /\ i < BUFSIZE
  BY ScreensAssumption DEF RingNext, RingIndex, UNSET

(***************************************************************************)
(* Quotient and remainder are unique.                                      *)
(***************************************************************************)
LEMMA Remainder ==
  ASSUME NEW P \in Nat \ {0}, NEW q \in Nat, NEW r \in 0..(P - 1)
  PROVE  (P * q + r) % P = r
  <1> DEFINE n == P * q + r
             qq == n \div P
             rr == n % P
  <1>1. n \in Nat
    OBVIOUS
  <1>2. qq \in Nat /\ rr \in 0..(P - 1) /\ n = P * qq + rr
    BY <1>1
  <1> HIDE DEF qq, rr
  <1>3. \A k \in Nat : k > 0 => P * k >= P
    OBVIOUS
  <1>4. ASSUME NEW a \in Nat, NEW b \in Nat, NEW s \in 0..(P - 1), NEW t \in 0..(P - 1),
               P * a + s = P * b + t, a < b
        PROVE  FALSE
    <2>1. b - a \in Nat /\ b - a > 0
      BY <1>4
    <2>2. P * (b - a) >= P
      BY <1>3, <2>1
    <2>3. P * (b - a) = P * b - P * a
      OBVIOUS
    <2>4. P * a \in Int /\ P * b \in Int
      OBVIOUS
    <2> QED
      BY <1>4, <2>2, <2>3, <2>4
  <1>5. P * q + r = P * qq + rr
    BY <1>2
  <1>6. ~ (q < qq)
    BY <1>2, <1>4, <1>5
  <1>7. ~ (qq < q)
    BY <1>2, <1>4, <1>5
  <1>8. q = qq
    BY <1>2, <1>6, <1>7
  <1>9. r = rr
    BY <1>2, <1>5, <1>8
  <1> QED
    BY <1>9 DEF rr

(***************************************************************************)
(* The place of a byte in its packet, one byte further.                    *)
(***************************************************************************)
LEMMA NextPlace ==
  /\ PACKET \in Nat \ {0} /\ 0 % PACKET = 0
  /\ \A i \in Nat : i % PACKET \in 0..(PACKET - 1)
  /\ \A i \in RingIndex : RingNext(i) % PACKET = ((i % PACKET) + 1) % PACKET
  <1>1. PACKET \in Nat \ {0} /\ BUFSIZE % PACKET = 0
    BY ScreensAssumption
  <1>2. \A i \in Nat : i % PACKET \in 0..(PACKET - 1) /\ i \div PACKET \in Nat
                       /\ i = PACKET * (i \div PACKET) + (i % PACKET)
    BY <1>1
  <1>3. \A r \in 0..(PACKET - 1) : r % PACKET = r
    BY <1>1
  <1>4. PACKET % PACKET = 0
    BY <1>1
  <1>5. ASSUME NEW i \in Nat
        PROVE  (i + 1) % PACKET = ((i % PACKET) + 1) % PACKET
    <2> DEFINE q == i \div PACKET
               r == i % PACKET
    <2>1. q \in Nat /\ r \in 0..(PACKET - 1) /\ i = PACKET * q + r
      BY <1>2
    <2> HIDE DEF q, r
    <2>2. CASE r + 1 \in 0..(PACKET - 1)
      <3>1. i + 1 = PACKET * q + (r + 1)
        BY <1>1, <2>1
      <3>2. (PACKET * q + (r + 1)) % PACKET = r + 1
        BY <1>1, <2>1, <2>2, Remainder
      <3>3. (r + 1) % PACKET = r + 1
        BY <1>3, <2>2
      <3> QED
        BY <3>1, <3>2, <3>3 DEF r
    <2>3. CASE r + 1 = PACKET
      <3>1. i + 1 = PACKET * (q + 1) + 0
        BY <1>1, <2>1, <2>3
      <3>2. (PACKET * (q + 1) + 0) % PACKET = 0
        <4>1. q + 1 \in Nat /\ 0 \in 0..(PACKET - 1)
          BY <1>1, <2>1
        <4> QED
          BY <1>1, <4>1, Remainder
      <3> QED
        BY <1>4, <2>3, <3>1, <3>2 DEF r
    <2> QED
      BY <1>1, <2>1, <2>2, <2>3
  <1>6. ASSUME NEW i \in RingIndex
        PROVE  RingNext(i) % PACKET = ((i % PACKET) + 1) % PACKET
    <2>1. CASE i = BUFSIZE - 1
      <3>1. i + 1 = BUFSIZE /\ i \in Nat
        BY <2>1, Pointers
      <3>2. ((i % PACKET) + 1) % PACKET = 0
        BY <1>1, <1>5, <3>1
      <3>3. 0 % PACKET = 0
        BY <1>1
      <3> QED
        BY <2>1, <3>2, <3>3, Pointers
    <2>2. CASE i # BUFSIZE - 1
      BY <1>5, <2>2, Pointers
    <2> QED
      BY <2>1, <2>2
  <1> QED
    BY <1>1, <1>2, <1>3, <1>6

-----------------------------------------------------------------------------
(***************************************************************************)
(* Pushing a screen behind a queue, and taking the first one off.          *)
(***************************************************************************)
LEMMA Pushed ==
  ASSUME NEW q \in QueueType, NEW links, NEW s \in Int
  PROVE  /\ EnqueueScreen(q, links, s).q \in QueueType
         /\ EnqueueScreen(q, links, s).q.length = (IF q.length # 0 THEN q.length + 1 ELSE 1)
         /\ EnqueueScreen(q, links, s).q.first = (IF q.length # 0 THEN q.first ELSE s)
         /\ EnqueueScreen(q, links, s).q.last = s
  <1> DEFINE to == EnqueueScreen(q, links, s)
             grown == [q EXCEPT !.last = s, !.length = @ + 1]
             single == [first |-> s, last |-> s, length |-> 1]
  <1>1. to.q = IF q.length # 0 THEN grown ELSE single
    BY DEF EnqueueScreen
  <1>2. /\ q.length + 1 \in Int /\ grown \in QueueType /\ grown.first = q.first
        /\ grown.last = s /\ grown.length = q.length + 1
    <2>1. q \in [first : Int, last : Int, length : Int] /\ q.length + 1 \in Int
      BY DEF QueueType
    <2>2. \A m \in Int : LET r == [q EXCEPT !.last = s, !.length = m]
                         IN  r \in [first : Int, last : Int, length : Int]
                             /\ r.first = q.first /\ r.last = s /\ r.length = m
      BY <2>1
    <2> QED
      BY <2>1, <2>2 DEF QueueType
  <1>3. single \in QueueType /\ single.first = s /\ single.last = s /\ single.length = 1
    BY DEF QueueType
  <1> HIDE DEF to, grown, single
  <1>4. /\ to.q \in QueueType /\ to.q.last = s
        /\ to.q.length = (IF q.length # 0 THEN q.length + 1 ELSE 1)
        /\ to.q.first = (IF q.length # 0 THEN q.first ELSE s)
    BY <1>1, <1>2, <1>3
  <1> QED
    BY <1>1, <1>4 DEF to

LEMMA Popped ==
  ASSUME NEW q \in QueueType, chained[q.first] \in Int
  PROVE  /\ DequeueScreen(q) \in QueueType
         /\ DequeueScreen(q).length = q.length - 1
         /\ DequeueScreen(q).first = chained[q.first]
         /\ DequeueScreen(q).last = (IF q.first = q.last THEN NO_NODE ELSE q.last)
  BY DEF DequeueScreen, QueueType, NO_NODE

(***************************************************************************)
(* A ring after a pointer of it has moved, or a byte was stored.           *)
(***************************************************************************)
LEMMA RingMoves ==
  ASSUME NEW D, NEW r \in RingType(D), NEW i \in RingIndex, NEW x \in D
  PROVE  /\ [r EXCEPT !.char = i] \in RingType(D) /\ [r EXCEPT !.space = i] \in RingType(D)
         /\ ResetRing(r) \in RingType(D) /\ ResetRing(r).char = 0 /\ ResetRing(r).space = 0
         /\ ResetRing(r).data = r.data
         /\ \A j \in RingIndex : [r EXCEPT !.data[j] = x, !.space = i] \in RingType(D)
  BY Pointers DEF RingType, ResetRing

(***************************************************************************)
(* The screens before anything happened.                                   *)
(***************************************************************************)
LEMMA Handles ==
  /\ NUM_SCREENS \in Nat \ {0}
  /\ \A s : s \in ScreenHandles <=> s \in Nat /\ s < NUM_SCREENS
  /\ VIDEO \in Frames /\ VIDEO \notin ScreenHandles /\ ScreenHandles \subseteq Frames
  /\ NO_NODE \notin ScreenHandles /\ 0 \in ScreenHandles /\ 0 \notin SCREEN_USERS
  BY ScreensAssumption DEF ScreenHandles, Frames, VIDEO, NO_NODE

LEMMA OwnInitInv == ScreensInit => OwnInv
  <1> SUFFICES ASSUME ScreensInit PROVE OwnInv
    OBVIOUS
  <1>1. /\ keys = [s \in ScreenHandles |-> EmptyRing] /\ mice = [s \in ScreenHandles |-> EmptyRing]
        /\ getchar = [p \in SCREEN_USERS |-> [pc |-> "out", char |-> UNSET]]
        /\ drawing = [p \in SCREEN_USERS |-> [pc |-> "out", target |-> VIDEO]]
        /\ frames = [f \in Frames |-> {}] /\ mouseByte = 0 /\ torn = {} /\ smeared = FALSE
        /\ owner = [s \in ScreenHandles |-> 0] /\ active_screen = 0
        /\ screenOf = [p \in SCREEN_USERS |-> 0]
        /\ unused_screens = [first |-> 0, last |-> NUM_SCREENS - 1, length |-> NUM_SCREENS]
        /\ active_screens = [first |-> NO_NODE, last |-> NO_NODE, length |-> 0]
        /\ chained = [s \in ScreenHandles |-> IF s = NUM_SCREENS - 1 THEN NO_NODE ELSE s + 1]
    BY DEF ScreensInit
  <1>2. \A D : UNSET \in D => EmptyRing \in RingType(D)
    BY DEF EmptyRing, RingType, RingIndex
  <1>3. EmptyRing.char = UNSET /\ EmptyRing.space = UNSET
    BY DEF EmptyRing
  <1>4. ScreenTypes
    <2>1. UNSET \in Characters /\ UNSET \in Bytes
      BY DEF Characters, Bytes
    <2>2. 0 \in 0..(PACKET - 1)
      BY NextPlace
    <2>3. unused_screens \in QueueType /\ active_screens \in QueueType
      BY <1>1, Handles DEF QueueType, NO_NODE
    <2> QED
      BY <1>1, <1>2, <2>1, <2>2, <2>3, Handles DEF ScreenTypes
  <1>5. Fresh
    BY <1>1, <1>3, Handles DEF Fresh, Untouched
  <1>6. OneReader /\ ReadIsFirst /\ TargetsRight /\ FramesApart
    BY <1>1, Handles DEF OneReader, ReadIsFirst, TargetsRight, FramesApart
  <1>7. MouseInStep
    BY <1>1, <1>3, Pointers DEF MouseInStep, AlignedRing, Waiting, UNSET
  <1> QED
    BY <1>4, <1>5, <1>6, <1>7 DEF OwnInv

-----------------------------------------------------------------------------
(***************************************************************************)
(* A screen is opened: the first nobody opened before.                     *)
(***************************************************************************)
LEMMA OpenStep ==
  ASSUME OwnInv, NEW p \in SCREEN_USERS, OpenScreen(p)
  PROVE  OwnInv'
  <1> DEFINE s == unused_screens.first
             k == active_screens.length
             to == EnqueueScreen(active_screens, chained, s)
  <1>1. ScreenTypes /\ Fresh
    BY DEF OwnInv
  <1>2. /\ unused_screens.length # 0
        /\ unused_screens' = DequeueScreen(unused_screens)
        /\ active_screens' = to.q /\ chained' = to.links
        /\ frames' = [frames EXCEPT ![s] = {}]
        /\ owner' = [owner EXCEPT ![s] = p]
        /\ keys' = [keys EXCEPT ![s] = ResetRing(@)]
        /\ mice' = [mice EXCEPT ![s] = ResetRing(@)]
        /\ torn' = IF mouseByte = 0 THEN torn \ {s} ELSE torn \cup {s}
        /\ UNCHANGED <<active_screen, screenOf, mouseByte, getchar, drawing, smeared>>
    BY DEF OpenScreen, TakeScreen
  <1>3. s = k /\ k \in Nat /\ k < NUM_SCREENS /\ s \in ScreenHandles
    BY <1>1, <1>2, Handles DEF Fresh
  <1>4. /\ chained[s] = (IF s = NUM_SCREENS - 1 THEN NO_NODE ELSE s + 1)
        /\ Untouched(keys[s]) /\ Untouched(mice[s])
    BY <1>1, <1>3 DEF Fresh
  <1>5. keys[s] \in RingType(Characters) /\ mice[s] \in RingType(Bytes)
    BY <1>1, <1>3 DEF ScreenTypes
  <1>6. /\ ResetRing(keys[s]) \in RingType(Characters)
        /\ ResetRing(keys[s]).char = 0 /\ ResetRing(keys[s]).space = 0
        /\ ResetRing(mice[s]) \in RingType(Bytes)
        /\ ResetRing(mice[s]).char = 0 /\ ResetRing(mice[s]).space = 0
    <2>1. UNSET \in Characters /\ UNSET \in Bytes
      BY DEF Characters, Bytes
    <2> QED
      BY <1>5, <2>1, RingMoves, Pointers
  <1>7. /\ keys' \in [ScreenHandles -> RingType(Characters)] /\ mice' \in [ScreenHandles -> RingType(Bytes)]
        /\ keys'[s].char = 0 /\ keys'[s].space = 0 /\ mice'[s].char = 0 /\ mice'[s].space = 0
        /\ \A t \in ScreenHandles \ {s} : keys'[t] = keys[t] /\ mice'[t] = mice[t] /\ owner'[t] = owner[t]
    BY <1>1, <1>2, <1>3, <1>6 DEF ScreenTypes
  <1>8. /\ unused_screens' \in QueueType
        /\ unused_screens'.length = NUM_SCREENS - k - 1
        /\ unused_screens'.first = (IF s = NUM_SCREENS - 1 THEN NO_NODE ELSE s + 1)
    <2>1. unused_screens \in QueueType /\ chained[unused_screens.first] \in Int
      BY <1>1, <1>3, <1>4 DEF ScreenTypes, NO_NODE
    <2> QED
      BY <1>1, <1>2, <1>4, <2>1, Popped, Handles DEF Fresh
  <1>9. /\ active_screens' \in QueueType /\ active_screens'.length = k + 1 /\ active_screens'.last = s
        /\ chained' = IF k # 0 THEN [[chained EXCEPT ![s] = NO_NODE] EXCEPT ![active_screens.last] = s]
                      ELSE [chained EXCEPT ![s] = NO_NODE]
    <2>1. active_screens \in QueueType /\ s \in Int
      BY <1>1, <1>3 DEF ScreenTypes
    <2>2. /\ to.q \in QueueType /\ to.q.last = s
          /\ to.q.length = (IF active_screens.length # 0 THEN active_screens.length + 1 ELSE 1)
      BY <2>1, Pushed
    <2>3. to.links = IF active_screens.length # 0
                     THEN [[chained EXCEPT ![s] = NO_NODE] EXCEPT ![active_screens.last] = s]
                     ELSE [chained EXCEPT ![s] = NO_NODE]
      BY DEF EnqueueScreen
    <2> HIDE DEF to
    <2> QED
      BY <1>2, <1>3, <2>2, <2>3
  <1>10. DOMAIN chained' = ScreenHandles /\ \A t \in ScreenHandles : t > s => chained'[t] = chained[t]
    BY <1>1, <1>3, <1>9, Handles DEF Fresh
  <1>11. ScreenTypes'
    BY <1>1, <1>2, <1>3, <1>7, <1>8, <1>9, Handles DEF ScreenTypes
  <1>12. Fresh'
    <2>1. active_screens'.length \in 0..NUM_SCREENS /\ k + 1 \in Nat
      BY <1>3, <1>9, Handles
    <2>2. unused_screens'.length = NUM_SCREENS - active_screens'.length
      BY <1>3, <1>8, <1>9, Handles
    <2>3. unused_screens'.length # 0 => unused_screens'.first = active_screens'.length
      BY <1>3, <1>8, <1>9, Handles
    <2>4. active_screens'.length # 0 => active_screens'.last \in 0..(active_screens'.length - 1)
      BY <1>3, <1>9
    <2>5. ASSUME NEW t \in ScreenHandles, t >= active_screens'.length
          PROVE  /\ chained'[t] = IF t = NUM_SCREENS - 1 THEN NO_NODE ELSE t + 1
                 /\ owner'[t] = 0 /\ Untouched(keys'[t]) /\ Untouched(mice'[t])
      <3>1. t \in Nat /\ t > s /\ t >= k
        BY <1>3, <1>9, <2>5, Handles
      <3> QED
        BY <1>1, <1>7, <1>10, <3>1 DEF Fresh, Untouched
    <2>6. \A t \in ScreenHandles : (keys'[t].char = UNSET <=> keys'[t].space = UNSET)
                                   /\ (mice'[t].char = UNSET <=> mice'[t].space = UNSET)
      BY <1>1, <1>7 DEF Fresh
    <2> QED
      BY <1>10, <2>1, <2>2, <2>3, <2>4, <2>5, <2>6 DEF Fresh, Untouched
  <1>13. OneReader'
    BY <1>2 DEF OwnInv, OneReader
  <1>14. ReadIsFirst'
    <2>1. ASSUME NEW q \in SCREEN_USERS, getchar[q].pc # "out"
          PROVE  screenOf[q] \in ScreenHandles \ {s}
      BY <1>1, <1>4, <2>1 DEF OwnInv, ReadIsFirst, ScreenTypes, Untouched
    <2> QED
      BY <1>2, <1>7, <2>1 DEF OwnInv, ReadIsFirst
  <1>15. MouseInStep'
    <2>1. ASSUME NEW t \in ScreenHandles \ torn', t # s
          PROVE  /\ mice'[t].space # UNSET =>
                      mice'[t].space % PACKET = IF t = active_screen' THEN mouseByte' ELSE 0
                 /\ AlignedRing(mice'[t])
      BY <1>2, <1>7, <2>1 DEF OwnInv, MouseInStep
    <2>2. ASSUME s \notin torn'
          PROVE  /\ mice'[s].space % PACKET = IF s = active_screen' THEN mouseByte' ELSE 0
                 /\ AlignedRing(mice'[s])
      <3>1. mouseByte' = 0
        BY <1>2, <2>2
      <3>2. AlignedRing(mice'[s])
        BY <1>7, Pointers DEF AlignedRing, Waiting
      <3> QED
        BY <1>7, <3>1, <3>2, NextPlace
    <2> QED
      BY <2>1, <2>2 DEF MouseInStep
  <1>16. TargetsRight'
    BY <1>2 DEF OwnInv, TargetsRight
  <1>17. FramesApart'
    <2>1. s # VIDEO
      BY <1>3, Handles
    <2>2. \A f \in Frames : frames'[f] = IF f = s THEN {} ELSE frames[f]
      BY <1>1, <1>2 DEF ScreenTypes
    <2> QED
      BY <1>2, <2>1, <2>2, Handles DEF OwnInv, FramesApart
  <1> QED
    BY <1>11, <1>12, <1>13, <1>14, <1>15, <1>16, <1>17 DEF OwnInv

(***************************************************************************)
(* A process goes to a screen of its own, between two other calls.         *)
(***************************************************************************)
LEMMA SetStep ==
  ASSUME OwnInv, NEW p \in SCREEN_USERS, NEW s \in ScreenHandles, SetScreen(p, s)
  PROVE  OwnInv'
  <1>1. /\ getchar[p].pc = "out" /\ drawing[p].pc = "out"
        /\ screenOf' = [screenOf EXCEPT ![p] = s]
        /\ UNCHANGED <<chainVars, active_screen, inputVars, drawVars>>
    BY DEF SetScreen, Idle
  <1>2. screenOf \in [SCREEN_USERS -> ScreenHandles]
    BY DEF OwnInv, ScreenTypes
  <1>3. ScreenTypes'
    BY <1>1, <1>2 DEF OwnInv, ScreenTypes, chainVars, inputVars, drawVars
  <1>4. Fresh' /\ MouseInStep' /\ FramesApart'
    BY <1>1 DEF OwnInv, Fresh, MouseInStep, FramesApart, chainVars, inputVars, drawVars
  <1>5. OneReader' /\ ReadIsFirst' /\ TargetsRight'
    BY <1>1, <1>2 DEF OwnInv, OneReader, ReadIsFirst, TargetsRight, inputVars, drawVars
  <1> QED
    BY <1>3, <1>4, <1>5 DEF OwnInv

(***************************************************************************)
(* Screens are switched: two frames are copied, and who draws misses it.   *)
(***************************************************************************)
LEMMA SwitchStep ==
  ASSUME OwnInv, NEW p \in SCREEN_USERS, NEW s \in ScreenHandles, SwitchScreen(p, s)
  PROVE  OwnInv'
  <1> DEFINE a == active_screen
  <1>1. /\ s # a /\ active_screen' = s
        /\ frames' = [frames EXCEPT ![a] = frames[VIDEO], ![VIDEO] = frames[s]]
        /\ drawing' = [q \in SCREEN_USERS |->
             IF drawing[q].pc = "out" THEN drawing[q] ELSE [drawing[q] EXCEPT !.pc = "switched"]]
        /\ torn' = IF mouseByte = 0 THEN torn ELSE torn \cup {a, s}
        /\ UNCHANGED <<chainVars, screenOf, keys, mice, mouseByte, getchar, smeared>>
    BY DEF SwitchScreen
  <1>2. /\ a \in ScreenHandles /\ a # VIDEO /\ frames \in [Frames -> SUBSET ScreenHandles]
        /\ drawing \in [SCREEN_USERS -> [pc : {"out", "begun", "switched"}, target : Frames]]
    BY Handles DEF OwnInv, ScreenTypes
  <1>3. /\ frames' \in [Frames -> SUBSET ScreenHandles]
        /\ frames'[VIDEO] = frames[s] /\ frames'[a] = frames[VIDEO]
        /\ \A t \in ScreenHandles \ {a} : frames'[t] = frames[t]
    BY <1>1, <1>2, Handles
  <1>4. /\ drawing' \in [SCREEN_USERS -> [pc : {"out", "begun", "switched"}, target : Frames]]
        /\ \A q \in SCREEN_USERS : drawing'[q].pc # "begun"
    <2>1. ASSUME NEW q \in SCREEN_USERS
          PROVE  /\ drawing'[q] \in [pc : {"out", "begun", "switched"}, target : Frames]
                 /\ drawing'[q].pc # "begun"
      BY <1>1, <1>2, <2>1
    <2>2. DOMAIN drawing' = SCREEN_USERS /\ drawing' = [q \in SCREEN_USERS |-> drawing'[q]]
      BY <1>1
    <2> QED
      BY <2>1, <2>2
  <1>5. ScreenTypes'
    BY <1>1, <1>3, <1>4 DEF OwnInv, ScreenTypes, chainVars
  <1>6. Fresh' /\ OneReader' /\ ReadIsFirst'
    BY <1>1 DEF OwnInv, Fresh, OneReader, ReadIsFirst, chainVars
  <1>7. MouseInStep'
    BY <1>1, <1>2 DEF OwnInv, MouseInStep
  <1>8. TargetsRight'
    BY <1>4 DEF TargetsRight
  <1>9. FramesApart'
    BY <1>1, <1>2, <1>3 DEF OwnInv, FramesApart
  <1> QED
    BY <1>5, <1>6, <1>7, <1>8, <1>9 DEF OwnInv

-----------------------------------------------------------------------------
(***************************************************************************)
(* What an interrupt handler stores in a ring.                             *)
(***************************************************************************)
Put(r, x) == [r EXCEPT !.data[r.space] = x, !.space = RingNext(r.space)]

LEMMA Stored ==
  ASSUME NEW D, NEW r \in RingType(D), NEW x \in D, r.space # UNSET
  PROVE  /\ r.space \in RingIndex
         /\ Put(r, x) \in RingType(D)
         /\ Put(r, x).char = r.char /\ Put(r, x).space = RingNext(r.space)
         /\ Put(r, x).data[r.space] = x
         /\ \A j \in RingIndex \ {r.space} : Put(r, x).data[j] = r.data[j]
  <1>1. r.space \in RingIndex /\ RingNext(r.space) \in RingIndex
    BY Pointers DEF RingType
  <1> DEFINE i == RingNext(r.space)
             d == [r.data EXCEPT ![r.space] = x]
  <1>2. [r EXCEPT !.data[r.space] = x, !.space = i] = [r EXCEPT !.data = d, !.space = i]
    BY DEF RingType
  <1>3. d \in [RingIndex -> D] /\ d[r.space] = x /\ \A j \in RingIndex \ {r.space} : d[j] = r.data[j]
    BY <1>1 DEF RingType
  <1> HIDE DEF d, i
  <1>4. LET e == [r EXCEPT !.data = d, !.space = i]
        IN  e \in RingType(D) /\ e.char = r.char /\ e.space = i /\ e.data = d
    BY <1>1, <1>3 DEF RingType, i
  <1> QED
    BY <1>1, <1>2, <1>3, <1>4 DEF i, Put

(***************************************************************************)
(* A key is pressed: its character goes behind those that wait.            *)
(***************************************************************************)
LEMMA KeyStep ==
  ASSUME OwnInv, NEW k \in KEYS, KeyPressed(k)
  PROVE  OwnInv'
  <1> DEFINE a == active_screen
             r == keys[a]
             e == Put(r, k)
  <1>1. /\ r.space # UNSET /\ RingNext(r.space) # r.char
        /\ keys' = [keys EXCEPT ![a] = e]
        /\ UNCHANGED <<chainVars, active_screen, screenOf, mice, mouseByte, torn, getchar, drawVars>>
    BY DEF KeyPressed, Put
  <1>2. a \in ScreenHandles /\ keys \in [ScreenHandles -> RingType(Characters)]
    BY DEF OwnInv, ScreenTypes
  <1>3. r \in RingType(Characters) /\ k \in Characters
    BY <1>2 DEF Characters
  <1>4. /\ r.space \in RingIndex /\ e \in RingType(Characters)
        /\ e.char = r.char /\ e.space = RingNext(r.space)
        /\ \A j \in RingIndex \ {r.space} : e.data[j] = r.data[j]
    BY <1>1, <1>3, Stored
  <1>5. e.space # UNSET /\ r.char # UNSET /\ r.char \in RingIndex
    BY <1>1, <1>2, <1>3, <1>4, Pointers DEF OwnInv, Fresh, RingType
  <1> HIDE DEF e
  <1>6. /\ keys' \in [ScreenHandles -> RingType(Characters)] /\ keys'[a] = e
        /\ \A t \in ScreenHandles \ {a} : keys'[t] = keys[t]
    BY <1>1, <1>2, <1>4
  <1>7. ScreenTypes'
    BY <1>1, <1>6 DEF OwnInv, ScreenTypes, chainVars, drawVars
  <1>8. Fresh'
    BY <1>1, <1>2, <1>4, <1>5, <1>6 DEF OwnInv, Fresh, Untouched, chainVars
  <1>9. OneReader' /\ MouseInStep' /\ TargetsRight' /\ FramesApart'
    BY <1>1 DEF OwnInv, OneReader, MouseInStep, TargetsRight, FramesApart, drawVars
  <1>10. ReadIsFirst'
    <2>1. ASSUME NEW q \in SCREEN_USERS, getchar[q].pc # "out"
          PROVE  /\ keys'[screenOf[q]].char # keys'[screenOf[q]].space
                 /\ keys'[screenOf[q]].data[keys'[screenOf[q]].char] = getchar[q].char
      <3>1. /\ screenOf[q] \in ScreenHandles
            /\ keys[screenOf[q]].char # keys[screenOf[q]].space
            /\ keys[screenOf[q]].data[keys[screenOf[q]].char] = getchar[q].char
        BY <2>1 DEF OwnInv, ReadIsFirst, ScreenTypes
      <3>2. CASE screenOf[q] = a
        BY <1>1, <1>4, <1>5, <1>6, <3>1, <3>2
      <3>3. CASE screenOf[q] # a
        BY <1>6, <3>1, <3>3
      <3> QED
        BY <3>2, <3>3
    <2> QED
      BY <1>1, <2>1 DEF ReadIsFirst
  <1> QED
    BY <1>7, <1>8, <1>9, <1>10 DEF OwnInv

(***************************************************************************)
(* c_getchar takes the first character and moves on.  The ring is not      *)
(* empty in between, so its pointers are set.                              *)
(***************************************************************************)
LEMMA GetcharStep ==
  ASSUME OwnInv, NEW p \in SCREEN_USERS, GetcharReads(p) \/ GetcharAdvances(p)
  PROVE  OwnInv'
  <1> DEFINE s == screenOf[p]
             r == keys[s]
             e == [r EXCEPT !.char = RingNext(r.char)]
  <1>1. /\ s \in ScreenHandles /\ r \in RingType(Characters)
        /\ keys \in [ScreenHandles -> RingType(Characters)]
        /\ getchar \in [SCREEN_USERS -> [pc : {"out", "read"}, char : Characters]]
    BY DEF OwnInv, ScreenTypes
  <1>2. r.char # r.space
    BY DEF GetcharReads, GetcharAdvances, OwnInv, ReadIsFirst
  <1>3. r.char \in RingIndex /\ r.space # UNSET /\ r.data[r.char] \in Characters
    <2>1. r.char # UNSET /\ r.space # UNSET
      BY <1>1, <1>2 DEF OwnInv, Fresh
    <2> QED
      BY <1>1, <2>1 DEF RingType
  <1>4. CASE GetcharReads(p)
    <2>1. /\ getchar[p].pc = "out" /\ drawing[p].pc = "out"
          /\ \A q \in SCREEN_USERS : screenOf[q] = screenOf[p] => getchar[q].pc = "out"
          /\ getchar' = [getchar EXCEPT ![p] = [pc |-> "read", char |-> r.data[r.char]]]
          /\ UNCHANGED <<chainVars, active_screen, screenOf, keys, mice, mouseByte, torn, drawVars>>
      BY <1>4 DEF GetcharReads, Idle
    <2>2. /\ getchar' \in [SCREEN_USERS -> [pc : {"out", "read"}, char : Characters]]
          /\ getchar'[p].char = r.data[r.char]
          /\ \A q \in SCREEN_USERS \ {p} : getchar'[q] = getchar[q]
      BY <1>1, <1>3, <2>1
    <2>3. ScreenTypes' /\ Fresh' /\ MouseInStep' /\ TargetsRight' /\ FramesApart'
      BY <2>1, <2>2
        DEF OwnInv, ScreenTypes, Fresh, MouseInStep, TargetsRight, FramesApart, chainVars, drawVars
    <2>4. OneReader' /\ ReadIsFirst'
      BY <1>2, <2>1, <2>2 DEF OwnInv, OneReader, ReadIsFirst
    <2> QED
      BY <2>3, <2>4 DEF OwnInv
  <1>5. CASE GetcharAdvances(p)
    <2>1. /\ getchar[p].pc # "out"
          /\ keys' = [keys EXCEPT ![s] = e]
          /\ getchar' = [getchar EXCEPT ![p] = [pc |-> "out", char |-> UNSET]]
          /\ UNCHANGED <<chainVars, active_screen, screenOf, mice, mouseByte, torn, drawVars>>
      BY <1>5 DEF GetcharAdvances
    <2>2. e \in RingType(Characters) /\ e.char # UNSET /\ e.space = r.space /\ e.data = r.data
      BY <1>1, <1>3, Pointers DEF RingType
    <2> HIDE DEF e
    <2>3. /\ getchar' \in [SCREEN_USERS -> [pc : {"out", "read"}, char : Characters]]
          /\ getchar'[p].pc = "out" /\ \A q \in SCREEN_USERS \ {p} : getchar'[q] = getchar[q]
      <3>1. UNSET \in Characters
        BY DEF Characters
      <3> QED
        BY <1>1, <2>1, <3>1
    <2>4. /\ keys' \in [ScreenHandles -> RingType(Characters)] /\ keys'[s] = e
          /\ \A t \in ScreenHandles \ {s} : keys'[t] = keys[t]
      BY <1>1, <2>1, <2>2
    <2>5. ScreenTypes' /\ MouseInStep' /\ TargetsRight' /\ FramesApart'
      BY <2>1, <2>3, <2>4 DEF OwnInv, ScreenTypes, MouseInStep, TargetsRight, FramesApart, chainVars, drawVars
    <2>6. Fresh'
      BY <1>1, <1>3, <2>1, <2>2, <2>4 DEF OwnInv, Fresh, Untouched, chainVars
    <2>7. OneReader'
      BY <2>1, <2>3 DEF OwnInv, OneReader
    <2>8. ReadIsFirst'
      <3>1. ASSUME NEW q \in SCREEN_USERS, getchar'[q].pc # "out"
            PROVE  /\ q # p /\ getchar'[q] = getchar[q] /\ getchar[q].pc # "out"
                   /\ screenOf[q] \in ScreenHandles /\ keys'[screenOf[q]] = keys[screenOf[q]]
        BY <2>1, <2>3, <2>4, <3>1 DEF OwnInv, ScreenTypes, OneReader
      <3> QED
        BY <2>1, <3>1 DEF OwnInv, ReadIsFirst
    <2> QED
      BY <2>5, <2>6, <2>7, <2>8 DEF OwnInv
  <1> QED
    BY <1>4, <1>5

(***************************************************************************)
(* Only the mouse ring t changes, and nobody has a part in it but mouse    *)
(* routines.                                                               *)
(***************************************************************************)
LEMMA MouseOnly ==
  ASSUME OwnInv, NEW t \in ScreenHandles, mice' \in [ScreenHandles -> RingType(Bytes)],
         \A u \in ScreenHandles \ {t} : mice'[u] = mice[u],
         mice'[t].char = UNSET <=> mice'[t].space = UNSET,
         Untouched(mice[t]) => Untouched(mice'[t]), mouseByte' \in 0..(PACKET - 1), MouseInStep',
         UNCHANGED <<chainVars, active_screen, screenOf, keys, torn, getchar, drawVars>>
  PROVE  OwnInv'
  <1>1. ScreenTypes' /\ OneReader' /\ ReadIsFirst' /\ TargetsRight' /\ FramesApart'
    BY DEF OwnInv, ScreenTypes, OneReader, ReadIsFirst, TargetsRight, FramesApart, chainVars, drawVars
  <1>2. Fresh'
    <2>1. \A u \in ScreenHandles : /\ mice'[u].char = UNSET <=> mice'[u].space = UNSET
                                   /\ Untouched(mice[u]) => Untouched(mice'[u])
      BY DEF OwnInv, Fresh
    <2> QED
      BY <2>1 DEF OwnInv, Fresh, chainVars
  <1> QED
    BY <1>1, <1>2 DEF OwnInv

(***************************************************************************)
(* A byte comes from the mouse, into a ring that may be full: the bytes    *)
(* that wait then are the new one and some of those before, or none.       *)
(***************************************************************************)
LEMMA IsrMouseStep ==
  ASSUME OwnInv, IsrMouse
  PROVE  OwnInv'
  <1> DEFINE a == active_screen
             r == mice[a]
             e == Put(r, mouseByte)
  <1>1. /\ mouseByte' = (mouseByte + 1) % PACKET
        /\ UNCHANGED <<chainVars, active_screen, screenOf, keys, torn, getchar, drawVars>>
    BY DEF IsrMouse
  <1>2. /\ a \in ScreenHandles /\ mice \in [ScreenHandles -> RingType(Bytes)]
        /\ r \in RingType(Bytes) /\ mouseByte \in Bytes /\ mouseByte \in Nat
    <2>1. /\ a \in ScreenHandles /\ mice \in [ScreenHandles -> RingType(Bytes)]
          /\ mouseByte \in 0..(PACKET - 1)
      BY DEF OwnInv, ScreenTypes
    <2>2. mouseByte \in Nat
      BY <2>1, NextPlace
    <2> QED
      BY <2>1, <2>2 DEF Bytes
  <1>3. mouseByte' \in 0..(PACKET - 1)
    <2>1. mouseByte + 1 \in Nat
      BY <1>2
    <2> QED
      BY <1>1, <2>1, NextPlace
  <1>4. CASE r.space = UNSET
    <2>1. mice' = mice
      BY <1>4 DEF IsrMouse
    <2>2. MouseInStep'
      BY <1>1, <1>4, <2>1 DEF OwnInv, MouseInStep
    <2> QED
      BY <1>1, <1>2, <1>3, <2>1, <2>2, MouseOnly DEF OwnInv, Fresh
  <1>5. CASE r.space # UNSET
    <2>1. mice' = [mice EXCEPT ![a] = e]
      BY <1>2, <1>5 DEF IsrMouse, Put
    <2>2. /\ r.space \in RingIndex /\ e \in RingType(Bytes)
          /\ e.char = r.char /\ e.space = RingNext(r.space) /\ e.data[r.space] = mouseByte
          /\ \A j \in RingIndex \ {r.space} : e.data[j] = r.data[j]
      BY <1>2, <1>5, Stored
    <2> HIDE DEF e
    <2>3. /\ mice' \in [ScreenHandles -> RingType(Bytes)] /\ mice'[a] = e
          /\ \A t \in ScreenHandles \ {a} : mice'[t] = mice[t]
      BY <1>2, <2>1, <2>2
    <2>4. r.char # UNSET /\ e.char # UNSET /\ e.space # UNSET /\ r.char \in RingIndex
      BY <1>2, <1>5, <2>2, Pointers DEF OwnInv, Fresh, RingType
    <2>5. ASSUME a \notin torn
          PROVE  e.space % PACKET = mouseByte' /\ AlignedRing(e)
      <3>1. r.space % PACKET = mouseByte /\ AlignedRing(r)
        BY <1>2, <1>5, <2>5 DEF OwnInv, MouseInStep
      <3>2. e.space % PACKET = mouseByte'
        BY <1>1, <2>2, <3>1, NextPlace
      <3>3. ASSUME NEW i \in Waiting(e)
            PROVE  i \in RingIndex /\ (i = r.space \/ i \in Waiting(r))
        <4>1. i \in RingIndex /\ i \in Nat /\ i < BUFSIZE
          BY Pointers DEF Waiting
        <4>2. IF e.char <= e.space THEN e.char <= i /\ i < e.space ELSE e.char <= i \/ i < e.space
          BY DEF Waiting
        <4>3. e.space = (IF r.space = BUFSIZE - 1 THEN 0 ELSE r.space + 1)
          BY <2>2, Pointers
        <4>4. /\ BUFSIZE \in Nat /\ BUFSIZE > 1 /\ r.char \in Nat /\ r.char < BUFSIZE
              /\ r.space \in Nat /\ r.space < BUFSIZE
          BY <2>2, <2>4, Pointers
        <4>5. i # r.space =>
                IF r.char <= r.space THEN r.char <= i /\ i < r.space ELSE r.char <= i \/ i < r.space
          BY <2>2, <4>1, <4>2, <4>3, <4>4
        <4> QED
          BY <4>1, <4>5 DEF Waiting
      <3>4. AlignedRing(e)
        BY <2>2, <3>1, <3>3 DEF AlignedRing
      <3> QED
        BY <3>2, <3>4
    <2>6. MouseInStep'
      BY <1>1, <1>2, <2>3, <2>5 DEF OwnInv, MouseInStep
    <2> QED
      BY <1>1, <1>2, <1>3, <1>5, <2>3, <2>4, <2>6, MouseOnly DEF Untouched
  <1> QED
    BY <1>4, <1>5

(***************************************************************************)
(* A process takes a byte, or throws all of them away.                     *)
(***************************************************************************)
LEMMA GetMouseStep ==
  ASSUME OwnInv, NEW p \in SCREEN_USERS, GetMouse(p) \/ ClearMouse(p)
  PROVE  OwnInv'
  <1> DEFINE s == screenOf[p]
             r == mice[s]
  <1>1. /\ s \in ScreenHandles /\ r \in RingType(Bytes)
        /\ mice \in [ScreenHandles -> RingType(Bytes)] /\ mouseByte \in 0..(PACKET - 1)
        /\ r.char = UNSET <=> r.space = UNSET
    BY DEF OwnInv, ScreenTypes, Fresh
  <1>2. ASSUME NEW i \in RingIndex \cup {UNSET}, mice' = [mice EXCEPT ![s].char = i],
               i = UNSET <=> r.space = UNSET, \A j \in RingIndex :
                 (IF i <= r.space THEN i <= j /\ j < r.space ELSE i <= j \/ j < r.space) => j \in Waiting(r),
               UNCHANGED <<chainVars, active_screen, screenOf, keys, mouseByte, torn, getchar, drawVars>>
        PROVE  OwnInv'
    <2> DEFINE e == [r EXCEPT !.char = i]
    <2>1. e \in RingType(Bytes) /\ e.char = i /\ e.space = r.space /\ e.data = r.data
      BY <1>1 DEF RingType
    <2>2. mice' = [mice EXCEPT ![s] = e]
      BY <1>2
    <2> HIDE DEF e
    <2>3. /\ mice' \in [ScreenHandles -> RingType(Bytes)] /\ mice'[s] = e
          /\ \A t \in ScreenHandles \ {s} : mice'[t] = mice[t]
      BY <1>1, <2>1, <2>2
    <2>4. AlignedRing(r) => AlignedRing(e)
      BY <1>2, <2>1 DEF AlignedRing, Waiting
    <2>5. MouseInStep'
      BY <1>1, <1>2, <2>1, <2>3, <2>4 DEF OwnInv, MouseInStep
    <2> QED
      BY <1>1, <1>2, <2>1, <2>3, <2>5, MouseOnly DEF Untouched
  <1>3. CASE GetMouse(p)
    <2>1. /\ r.char # r.space /\ mice' = [mice EXCEPT ![s].char = RingNext(r.char)]
          /\ UNCHANGED <<chainVars, active_screen, screenOf, keys, mouseByte, torn, getchar, drawVars>>
      BY <1>3 DEF GetMouse
    <2>2. r.char \in RingIndex /\ r.space \in RingIndex
      BY <1>1, <2>1 DEF RingType
    <2>3. RingNext(r.char) \in RingIndex /\ RingNext(r.char) # UNSET
      BY <2>2, Pointers
    <2>4. ASSUME NEW j \in RingIndex,
                 IF RingNext(r.char) <= r.space THEN RingNext(r.char) <= j /\ j < r.space
                 ELSE RingNext(r.char) <= j \/ j < r.space
          PROVE  j \in Waiting(r)
      <3>1. RingNext(r.char) = (IF r.char = BUFSIZE - 1 THEN 0 ELSE r.char + 1)
        BY <2>2, Pointers
      <3>2. /\ BUFSIZE \in Nat /\ BUFSIZE > 1 /\ r.char \in Nat /\ r.char < BUFSIZE
            /\ r.space \in Nat /\ r.space < BUFSIZE /\ j \in Nat /\ j < BUFSIZE
        BY <2>2, Pointers
      <3>3. IF r.char <= r.space THEN r.char <= j /\ j < r.space ELSE r.char <= j \/ j < r.space
        BY <2>1, <2>4, <3>1, <3>2
      <3> QED
        BY <3>3 DEF Waiting
    <2> QED
      BY <1>2, <2>1, <2>2, <2>3, <2>4, Pointers
  <1>4. CASE ClearMouse(p)
    <2>1. /\ mice' = [mice EXCEPT ![s].char = r.space]
          /\ UNCHANGED <<chainVars, active_screen, screenOf, keys, mouseByte, torn, getchar, drawVars>>
      BY <1>4 DEF ClearMouse
    <2>2. r.space \in RingIndex \cup {UNSET} /\ r.space \in Int
      BY <1>1, Pointers DEF RingType, UNSET
    <2>3. \A j \in RingIndex : ~(r.space <= j /\ j < r.space) /\ r.space <= r.space
      BY <2>2, Pointers
    <2> QED
      BY <1>2, <2>1, <2>2, <2>3
  <1> QED
    BY <1>3, <1>4

-----------------------------------------------------------------------------
(***************************************************************************)
(* A routine decides where to draw, and draws.                             *)
(***************************************************************************)
LEMMA DrawStep ==
  ASSUME OwnInv, NEW p \in SCREEN_USERS, GsBegin(p) \/ GsDraw(p)
  PROVE  OwnInv'
  <1> DEFINE a == active_screen
             s == screenOf[p]
             f == drawing[p].target
  <1>1. /\ a \in ScreenHandles /\ s \in ScreenHandles /\ f \in Frames
        /\ a # VIDEO /\ s # VIDEO /\ s \in Frames /\ VIDEO \in Frames
        /\ frames \in [Frames -> SUBSET ScreenHandles]
        /\ drawing \in [SCREEN_USERS -> [pc : {"out", "begun", "switched"}, target : Frames]]
    BY Handles DEF OwnInv, ScreenTypes
  <1>2. UNCHANGED <<chainVars, active_screen, screenOf, inputVars>>
    BY DEF GsBegin, GsDraw
  <1>3. Fresh' /\ OneReader' /\ ReadIsFirst' /\ MouseInStep'
    BY <1>2 DEF OwnInv, Fresh, OneReader, ReadIsFirst, MouseInStep, chainVars, inputVars
  <1>4. CASE GsBegin(p)
    <2> DEFINE g == IF s = a THEN VIDEO ELSE s
    <2>1. /\ drawing' = [drawing EXCEPT ![p] = [pc |-> "begun", target |-> g]]
          /\ frames' = frames /\ smeared' = smeared
      BY <1>4 DEF GsBegin
    <2>2. g \in Frames
      BY <1>1
    <2>3. /\ drawing' \in [SCREEN_USERS -> [pc : {"out", "begun", "switched"}, target : Frames]]
          /\ drawing'[p].target = g /\ \A q \in SCREEN_USERS \ {p} : drawing'[q] = drawing[q]
      BY <1>1, <2>1, <2>2
    <2>4. ScreenTypes'
      BY <1>2, <2>1, <2>3 DEF OwnInv, ScreenTypes, chainVars, inputVars
    <2>5. TargetsRight' /\ FramesApart'
      BY <1>2, <2>1, <2>3 DEF OwnInv, TargetsRight, FramesApart
    <2> QED
      BY <1>3, <2>4, <2>5 DEF OwnInv
  <1>5. CASE GsDraw(p)
    <2>1. /\ drawing[p].pc # "out"
          /\ frames' = [frames EXCEPT ![f] = frames[f] \cup {s}]
          /\ smeared' = (smeared \/ drawing[p].pc = "switched")
          /\ drawing' = [drawing EXCEPT ![p].pc = "out"]
      BY <1>5 DEF GsDraw
    <2>2. /\ frames' \in [Frames -> SUBSET ScreenHandles] /\ frames'[f] = frames[f] \cup {s}
          /\ \A g \in Frames \ {f} : frames'[g] = frames[g]
      BY <1>1, <2>1
    <2>3. /\ drawing' \in [SCREEN_USERS -> [pc : {"out", "begun", "switched"}, target : Frames]]
          /\ drawing'[p].pc = "out" /\ \A q \in SCREEN_USERS \ {p} : drawing'[q] = drawing[q]
      BY <1>1, <2>1
    <2>4. smeared' \in BOOLEAN
      BY <2>1 DEF OwnInv, ScreenTypes
    <2>5. ScreenTypes'
      BY <1>2, <2>2, <2>3, <2>4 DEF OwnInv, ScreenTypes, chainVars, inputVars
    <2>6. TargetsRight'
      BY <1>2, <2>3 DEF OwnInv, TargetsRight
    <2>7. FramesApart'
      <3>1. SUFFICES ASSUME ~ smeared'
                     PROVE  \A t \in ScreenHandles :
                              (IF t = a THEN frames'[VIDEO] ELSE frames'[t]) \subseteq {t}
        BY <1>2 DEF FramesApart
      <3>2. ~ smeared /\ drawing[p].pc = "begun"
        BY <1>1, <2>1, <3>1 DEF OwnInv, ScreenTypes
      <3>3. f = IF s = a THEN VIDEO ELSE s
        BY <3>2 DEF OwnInv, TargetsRight
      <3>4. \A t \in ScreenHandles : (IF t = a THEN frames[VIDEO] ELSE frames[t]) \subseteq {t}
        BY <3>2 DEF OwnInv, FramesApart
      <3>5. \A t \in ScreenHandles : t \in Frames /\ t # VIDEO
        BY Handles
      <3> QED
        BY <1>1, <2>2, <3>3, <3>4, <3>5
    <2> QED
      BY <1>3, <2>5, <2>6, <2>7 DEF OwnInv
  <1> QED
    BY <1>4, <1>5

(***************************************************************************)
(* Every step keeps the invariant.                                         *)
(***************************************************************************)
LEMMA OwnStep == OwnInv /\ [OwnNext]_screenVars => OwnInv'
  <1> SUFFICES ASSUME OwnInv, [OwnNext]_screenVars PROVE OwnInv'
    OBVIOUS
  <1>1. CASE OwnScreens(NUM_SCREENS)
    BY <1>1, OpenStep, SetStep DEF OwnScreens
  <1>2. CASE Switching
    BY <1>2, SwitchStep DEF Switching
  <1>3. CASE Keyboard
    BY <1>3, KeyStep, GetcharStep DEF Keyboard
  <1>4. CASE Mouse
    BY <1>4, IsrMouseStep, GetMouseStep DEF Mouse
  <1>5. CASE Drawing
    BY <1>5, DrawStep DEF Drawing
  <1>6. CASE UNCHANGED screenVars
    BY <1>6 DEF OwnInv, ScreenTypes, Fresh, OneReader, ReadIsFirst, MouseInStep, TargetsRight, FramesApart,
                screenVars, chainVars, inputVars, drawVars
  <1> QED
    BY <1>1, <1>2, <1>3, <1>4, <1>5, <1>6 DEF OwnNext

LEMMA OwnAlways == OwnSpec => []OwnInv
  BY OwnInitInv, OwnStep, PTL DEF OwnSpec

(***************************************************************************)
(* c_getchar and the keyboard handler share a ring without a lock: what    *)
(* c_getchar has read stays the first character until it moves on,         *)
(* whatever number of screens, keys and programs there is.                 *)
(***************************************************************************)
THEOREM GetcharSafe == OwnSpec => []ReadIsFirst
  <1>1. OwnInv => ReadIsFirst
    BY DEF OwnInv
  <1> QED
    BY <1>1, OwnAlways, PTL

(***************************************************************************)
(* The mouse handler stores without looking whether there is room: bytes   *)
(* are lost, but those that wait stay at their places in packets.          *)
(***************************************************************************)
THEOREM MouseAligned == OwnSpec => []PacketsAligned
  <1>1. OwnInv => PacketsAligned
    BY DEF OwnInv, MouseInStep, AlignedRing, Waiting, PacketsAligned, RingIndex
  <1> QED
    BY <1>1, OwnAlways, PTL

(***************************************************************************)
(* Frames are copied to and from video memory when screens are switched:   *)
(* a screen shows nothing but what its own programs drew there.            *)
(***************************************************************************)
THEOREM FramesKeptApart == OwnSpec => []FramesApart
  <1>1. OwnInv => FramesApart
    BY DEF OwnInv
  <1> QED
    BY <1>1, OwnAlways, PTL

-----------------------------------------------------------------------------
(* The queues of screens, with processes that open, close, set and switch to any of them. *)

AnyNext ==
  \/ ScreenCalls
  \/ Switching
  \/ Keyboard
  \/ Mouse
  \/ Drawing

ScreensSpec == ScreensInit /\ [][AnyNext]_screenVars

Unowned == {s \in ScreenHandles : owner[s] = 0}
Owned == {s \in ScreenHandles : owner[s] # 0}

Links == [ScreenHandles -> ScreenHandles \cup {NO_NODE}]

\* The screens M are queue q, along the links nx.
Queued(q, M, nx) ==
  /\ q = [first |-> q.first, last |-> q.last, length |-> q.length]
  /\ IsList(M, q.length, q.first, nx, NO_NODE)
  /\ q.length # 0 => q.last \in M /\ nx[q.last] = NO_NODE

\* Queue and links e: those of M along nx, and s behind them.
Joined(e, M, nx, s) ==
  /\ e.links \in Links
  /\ Queued(e.q, M \cup {s}, e.links)
  /\ \A m \in ScreenHandles \ (M \cup {s}) : e.links[m] = nx[m]

KeptInv ==
  /\ owner \in [ScreenHandles -> SCREEN_USERS \cup {0}]
  /\ chained \in Links
  /\ Queued(unused_screens, Unowned, chained)
  /\ Queued(active_screens, Owned, chained)

(***************************************************************************)
(* Numbers of screens, and the number for none.                            *)
(***************************************************************************)
LEMMA HandleFacts ==
  /\ NUM_SCREENS \in Nat /\ NUM_SCREENS # 0
  /\ NO_NODE \notin ScreenHandles
  /\ IsFiniteSet(ScreenHandles) /\ Cardinality(ScreenHandles) = NUM_SCREENS
  <1>1. NUM_SCREENS \in Nat /\ NUM_SCREENS # 0
    BY ScreensAssumption
  <1>2. IsFiniteSet(0..(NUM_SCREENS - 1)) /\ Cardinality(0..(NUM_SCREENS - 1)) = NUM_SCREENS
    BY <1>1, FS_Interval
  <1>3. IsFiniteSet(ScreenHandles) /\ Cardinality(ScreenHandles) = NUM_SCREENS
    BY <1>2 DEF ScreenHandles
  <1>4. NO_NODE \notin ScreenHandles
    BY <1>1 DEF ScreenHandles, NO_NODE
  <1> QED
    BY <1>1, <1>3, <1>4

(***************************************************************************)
(* Screens that link to the ones after them, as _screen_init leaves them.  *)
(***************************************************************************)
LEMMA KeptInit == ScreensInit => KeptInv
  <1> SUFFICES ASSUME ScreensInit PROVE KeptInv
    OBVIOUS
  <1>1. Unowned = ScreenHandles /\ Owned = {}
    BY DEF ScreensInit, Unowned, Owned
  <1>2. Numbered(ScreenHandles, [s \in ScreenHandles |-> s], NUM_SCREENS, 0, chained, NO_NODE)
    BY HandleFacts DEF ScreensInit, Numbered, ScreenHandles
  <1>3. IsList(ScreenHandles, NUM_SCREENS, 0, chained, NO_NODE)
    BY <1>2 DEF IsList
  <1>4. IsList({}, 0, NO_NODE, chained, NO_NODE)
    BY EmptyList
  <1>5. owner \in [ScreenHandles -> SCREEN_USERS \cup {0}] /\ chained \in Links
    BY HandleFacts DEF ScreensInit, Links, ScreenHandles
  <1>6. Queued(unused_screens, ScreenHandles, chained)
    <2>1. unused_screens = [first |-> 0, last |-> NUM_SCREENS - 1, length |-> NUM_SCREENS]
      BY DEF ScreensInit
    <2>2. NUM_SCREENS - 1 \in ScreenHandles /\ chained[NUM_SCREENS - 1] = NO_NODE
      BY HandleFacts DEF ScreensInit, ScreenHandles
    <2> QED
      BY <1>3, <2>1, <2>2 DEF Queued
  <1>7. Queued(active_screens, {}, chained)
    <2>1. active_screens = [first |-> NO_NODE, last |-> NO_NODE, length |-> 0]
      BY DEF ScreensInit
    <2> QED
      BY <1>4, <2>1 DEF Queued
  <1> QED
    BY <1>1, <1>5, <1>6, <1>7 DEF KeptInv

(***************************************************************************)
(* _enqueue: the queue has one screen more, the links of no other queue    *)
(* change.                                                                 *)
(***************************************************************************)
LEMMA Enqueued ==
  ASSUME NEW q, NEW M \in SUBSET ScreenHandles, NEW nx \in Links, Queued(q, M, nx),
         NEW s \in ScreenHandles, s \notin M, NEW e, e = EnqueueScreen(q, nx, s)
  PROVE  Joined(e, M, nx, s)
  <1> DEFINE l == e.links
             to == e.q
  <1>1. /\ q = [first |-> q.first, last |-> q.last, length |-> q.length]
        /\ IsList(M, q.length, q.first, nx, NO_NODE) /\ s # NO_NODE
    BY HandleFacts DEF Queued
  <1>2. /\ \A m \in M : nx[m] \in M \cup {NO_NODE}
        /\ \A m, n \in M : nx[m] = nx[n] => m = n
        /\ IF q.length = 0 THEN M = {} /\ q.first = NO_NODE ELSE q.first \in M
    BY <1>1, ListFacts
  <1>3. CASE q.length # 0
    <2>1. q.last \in M /\ nx[q.last] = NO_NODE
      BY <1>3 DEF Queued
    <2>2. l = [[nx EXCEPT ![s] = NO_NODE] EXCEPT ![q.last] = s]
            /\ to = [q EXCEPT !.last = s, !.length = @ + 1]
      BY <1>3 DEF EnqueueScreen
    <2>3. to = [first |-> q.first, last |-> s, length |-> q.length + 1]
      BY <1>1, <2>2
    <2>4. /\ l \in Links /\ l[s] = NO_NODE
          /\ \A m \in M : nx[m] = NO_NODE => l[m] = s
          /\ \A m \in M : nx[m] # NO_NODE => l[m] = nx[m]
          /\ \A m \in ScreenHandles \ (M \cup {s}) : l[m] = nx[m]
      BY <1>2, <2>1, <2>2 DEF Links
    <2> HIDE DEF l, to
    <2>5. IsList(M \cup {s}, to.length, to.first, l, NO_NODE)
      <3>1. PICK a, b, c, d : a = q.length /\ b = q.first /\ c = to.length /\ d = to.first
        BY Zenon
      <3>2. /\ IsList(M, a, b, nx, NO_NODE)
            /\ s \notin M /\ s # NO_NODE /\ l[s] = NO_NODE
            /\ \A m \in M : nx[m] = NO_NODE => l[m] = s
            /\ \A m \in M : nx[m] # NO_NODE => l[m] = nx[m]
            /\ a = 0 => d = s
            /\ a # 0 => d = b
            /\ c = a + 1
        BY <1>1, <1>3, <2>3, <2>4, <3>1
      <3>3. IsList(M \cup {s}, c, d, l, NO_NODE)
        BY ONLY <3>2, PutLast
      <3> QED
        BY <3>1, <3>3, Zenon
    <2> QED
      BY <2>3, <2>4, <2>5 DEF Queued, Joined, l, to
  <1>4. CASE q.length = 0
    <2>1. l = [nx EXCEPT ![s] = NO_NODE] /\ to = [first |-> s, last |-> s, length |-> 1]
      BY <1>4 DEF EnqueueScreen
    <2>2. to = [first |-> s, last |-> s, length |-> q.length + 1]
      BY <1>4, <2>1
    <2>3. /\ l \in Links /\ l[s] = NO_NODE
          /\ \A m \in M : nx[m] = NO_NODE => l[m] = s
          /\ \A m \in M : nx[m] # NO_NODE => l[m] = nx[m]
          /\ \A m \in ScreenHandles \ (M \cup {s}) : l[m] = nx[m]
      BY <1>2, <1>4, <2>1 DEF Links
    <2> HIDE DEF l, to
    <2>4. IsList(M \cup {s}, to.length, to.first, l, NO_NODE)
      <3>1. PICK a, b, c, d : a = q.length /\ b = q.first /\ c = to.length /\ d = to.first
        BY Zenon
      <3>2. /\ IsList(M, a, b, nx, NO_NODE)
            /\ s \notin M /\ s # NO_NODE /\ l[s] = NO_NODE
            /\ \A m \in M : nx[m] = NO_NODE => l[m] = s
            /\ \A m \in M : nx[m] # NO_NODE => l[m] = nx[m]
            /\ a = 0 => d = s
            /\ a # 0 => d = b
            /\ c = a + 1
        BY <1>1, <1>4, <2>2, <2>3, <3>1
      <3>3. IsList(M \cup {s}, c, d, l, NO_NODE)
        BY ONLY <3>2, PutLast
      <3> QED
        BY <3>1, <3>3, Zenon
    <2> QED
      BY <2>2, <2>3, <2>4 DEF Queued, Joined, l, to
  <1> QED
    BY <1>3, <1>4

(***************************************************************************)
(* _dequeue: the queue is without its first screen.                        *)
(***************************************************************************)
LEMMA Dequeued ==
  ASSUME NEW q, NEW M \in SUBSET ScreenHandles, chained \in Links, Queued(q, M, chained),
         q.length # 0
  PROVE  q.first \in M /\ Queued(DequeueScreen(q), M \ {q.first}, chained)
  <1> DEFINE to == DequeueScreen(q)
             s == q.first
  <1>1. /\ IsList(M, q.length, q.first, chained, NO_NODE)
        /\ q.last \in M /\ chained[q.last] = NO_NODE
    BY DEF Queued
  <1>2. s \in M /\ chained[s] \in M \cup {NO_NODE} /\ \A m \in M : chained[m] # s
    BY <1>1, ListFacts
  <1>3. to = [first |-> chained[s], length |-> q.length - 1,
              last |-> IF s = q.last THEN NO_NODE ELSE q.last]
    BY DEF DequeueScreen
  <1> HIDE DEF to
  <1>4. IsList(M \ {s}, to.length, to.first, chained, NO_NODE)
    BY <1>1, <1>2, <1>3, TakenOut
  <1>5. to.length # 0 => to.first \in M \ {s} /\ NO_NODE \notin M \ {s}
    BY <1>4, ListFacts
  <1>6. to.length # 0 => to.last \in M \ {s} /\ chained[to.last] = NO_NODE
    BY <1>1, <1>3, <1>5
  <1> QED
    BY <1>2, <1>3, <1>4, <1>6 DEF Queued, to

(***************************************************************************)
(* _remove_node: the queue is without the screen, the links of no other    *)
(* queue change.                                                           *)
(***************************************************************************)
LEMMA Removed ==
  ASSUME NEW q, NEW M \in SUBSET ScreenHandles, chained \in Links, Queued(q, M, chained),
         NEW s \in M, \A t \in ScreenHandles \ M : chained[t] # s
  PROVE  /\ RemoveScreenNode(q, s).links \in Links
         /\ Queued(RemoveScreenNode(q, s).q, M \ {s}, RemoveScreenNode(q, s).links)
         /\ \A m \in ScreenHandles \ M : RemoveScreenNode(q, s).links[m] = chained[m]
  <1> DEFINE l == RemoveScreenNode(q, s).links
             to == RemoveScreenNode(q, s).q
             before == {t \in ScreenHandles : chained[t] = s}
             prev == IF q.first = s \/ before = {} THEN NO_NODE ELSE CHOOSE t \in before : TRUE
  <1>1. IsList(M, q.length, q.first, chained, NO_NODE)
    BY DEF Queued
  <1>2. /\ q.first \in M /\ q.length # 0
        /\ \A m \in M : chained[m] \in M \cup {NO_NODE} /\ chained[m] # q.first
        /\ \A m, n \in M : chained[m] = chained[n] => m = n
        /\ \A n \in M : n # q.first => \E m \in M : chained[m] = n
        /\ NO_NODE \notin M
    BY <1>1, ListFacts
  <1>3. q.last \in M /\ chained[q.last] = NO_NODE
    BY <1>2 DEF Queued
  <1>4. /\ q.first = s => prev = NO_NODE
        /\ q.first # s => prev \in M /\ chained[prev] = s
    <2>1. before \in SUBSET M
      OBVIOUS
    <2>2. q.first # s => before # {}
      BY <1>2
    <2> QED
      BY <2>1, <2>2
  <1>5. /\ to = [first |-> IF prev = NO_NODE THEN chained[s] ELSE q.first,
                 last |-> IF chained[s] = NO_NODE THEN prev ELSE q.last,
                 length |-> q.length - 1]
        /\ l = IF prev = NO_NODE THEN chained ELSE [chained EXCEPT ![prev] = chained[s]]
    BY DEF RemoveScreenNode
  <1> HIDE DEF to, l, before, prev
  <1>6. /\ to = [first |-> to.first, last |-> to.last, length |-> to.length]
        /\ to.length = q.length - 1
        /\ q.first = s => to.first = chained[s]
        /\ q.first # s => to.first = q.first
        /\ to.last = IF chained[s] = NO_NODE THEN prev ELSE q.last
    BY <1>2, <1>4, <1>5
  <1>7. /\ l \in Links
        /\ \A m \in ScreenHandles \ M : l[m] = chained[m]
        /\ \A m \in M \ {s} : chained[m] = s => l[m] = chained[s]
        /\ \A m \in M \ {s} : chained[m] # s => l[m] = chained[m]
    <2>1. CASE q.first = s
      BY <1>2, <1>4, <1>5, <2>1
    <2>2. CASE q.first # s
      <3>1. prev \in M /\ prev # NO_NODE /\ chained[prev] = s
        BY <1>2, <1>4, <2>2
      <3>2. l = [chained EXCEPT ![prev] = chained[s]]
        BY <1>5, <3>1
      <3> QED
        BY <1>2, <3>1, <3>2 DEF Links
    <2> QED
      BY <2>1, <2>2
  <1>8. IsList(M \ {s}, to.length, to.first, l, NO_NODE)
    BY <1>1, <1>6, <1>7, TakenOut
  <1>9. to.length # 0 => to.first \in M \ {s} /\ NO_NODE \notin M \ {s}
    BY <1>8, ListFacts
  <1>10. to.length # 0 => to.last \in M \ {s} /\ l[to.last] = NO_NODE
    <2>1. CASE chained[s] = NO_NODE
      <3>1. to.length # 0 => q.first # s
        BY <1>6, <1>9, <2>1
      <3>2. q.first # s => prev # s
        BY <1>2, <1>4, <2>1
      <3> QED
        BY <1>4, <1>6, <1>7, <2>1, <3>1, <3>2
    <2>2. CASE chained[s] # NO_NODE
      <3>1. q.last # s /\ chained[q.last] # s
        BY <1>2, <1>3, <2>2
      <3> QED
        BY <1>3, <1>6, <1>7, <2>2, <3>1
    <2> QED
      BY <2>1, <2>2
  <1> QED
    BY <1>6, <1>7, <1>8, <1>10 DEF Queued, to, l

(***************************************************************************)
(* A queue is the same as long as the links of its screens are.            *)
(***************************************************************************)
LEMMA SameQueue ==
  ASSUME NEW q, NEW M, NEW nx, Queued(q, M, nx), NEW to, \A m \in M : to[m] = nx[m]
  PROVE  Queued(q, M, to)
  <1>1. IsList(M, q.length, q.first, nx, NO_NODE)
    BY DEF Queued
  <1>2. IsList(M, q.length, q.first, to, NO_NODE)
    BY <1>1, SameLinks
  <1> QED
    BY <1>2 DEF Queued

(***************************************************************************)
(* Opening a screen moves it to the queue of the active ones.              *)
(***************************************************************************)
LEMMA OpenKept ==
  ASSUME KeptInv, NEW p \in SCREEN_USERS, OpenScreen(p)
  PROVE  KeptInv'
  <1> DEFINE s == unused_screens.first
             to == EnqueueScreen(active_screens, chained, s)
  <1>1. /\ chained \in Links /\ Queued(unused_screens, Unowned, chained)
        /\ Queued(active_screens, Owned, chained)
        /\ Unowned \in SUBSET ScreenHandles /\ Owned \in SUBSET ScreenHandles
    BY DEF KeptInv, Unowned, Owned
  <1>2. /\ unused_screens.length # 0
        /\ unused_screens' = DequeueScreen(unused_screens)
        /\ active_screens' = to.q /\ chained' = to.links
        /\ owner' = [owner EXCEPT ![s] = p]
    BY DEF OpenScreen, TakeScreen
  <1>3. s \in Unowned /\ Queued(DequeueScreen(unused_screens), Unowned \ {s}, chained)
    BY <1>1, <1>2, Dequeued
  <1>4. s \in ScreenHandles /\ s \notin Owned
    BY <1>3 DEF Unowned, Owned
  <1>5. /\ to.links \in Links /\ Queued(to.q, Owned \cup {s}, to.links)
        /\ \A m \in ScreenHandles \ (Owned \cup {s}) : to.links[m] = chained[m]
    <2>1. Joined(to, Owned, chained, s)
      BY <1>1, <1>4, Enqueued
    <2> QED
      BY <2>1 DEF Joined
  <1> HIDE DEF to
  <1>6. Queued(DequeueScreen(unused_screens), Unowned \ {s}, to.links)
    <2>1. \A m \in Unowned \ {s} : to.links[m] = chained[m]
      BY <1>5 DEF Unowned, Owned
    <2> QED
      BY <1>3, <2>1, SameQueue
  <1>7. /\ owner' \in [ScreenHandles -> SCREEN_USERS \cup {0}]
        /\ Unowned' = Unowned \ {s} /\ Owned' = Owned \cup {s}
    BY <1>2, <1>4, ScreensAssumption DEF KeptInv, Unowned, Owned
  <1> QED
    BY <1>2, <1>5, <1>6, <1>7 DEF KeptInv

(***************************************************************************)
(* With no screen left, one that has an owner gets another.                *)
(***************************************************************************)
LEMMA OpenEmptyKept ==
  ASSUME KeptInv, NEW p \in SCREEN_USERS, OpenScreenEmpty(p)
  PROVE  KeptInv'
  <1>1. IsList(Unowned, unused_screens.length, unused_screens.first, chained, NO_NODE)
        /\ owner \in [ScreenHandles -> SCREEN_USERS \cup {0}]
    BY DEF KeptInv, Queued
  <1>2. unused_screens.length = 0 /\ UNCHANGED <<unused_screens, active_screens, chained>>
        /\ owner' = [owner EXCEPT ![E_EMPTY] = p]
    BY DEF OpenScreenEmpty, TakeScreen
  <1>3. Unowned = {}
    BY <1>1, <1>2, ListFacts
  <1>4. \A s \in ScreenHandles : owner[s] # 0
    BY <1>3 DEF Unowned
  <1>5. owner' \in [ScreenHandles -> SCREEN_USERS \cup {0}] /\ \A s \in ScreenHandles : owner'[s] # 0
    BY <1>1, <1>2, <1>4, ScreensAssumption
  <1>6. Unowned' = Unowned /\ Owned' = Owned
    BY <1>4, <1>5 DEF Unowned, Owned
  <1> QED
    BY <1>2, <1>5, <1>6 DEF KeptInv

(***************************************************************************)
(* Closing a screen, whoever does it, moves it back.                       *)
(***************************************************************************)
LEMMA CloseKept ==
  ASSUME KeptInv, NEW p \in SCREEN_USERS, NEW s \in ScreenHandles, CloseScreen(p, s)
  PROVE  KeptInv'
  <1> DEFINE from == RemoveScreenNode(active_screens, s)
             to == EnqueueScreen(unused_screens, from.links, s)
  <1>1. /\ chained \in Links /\ Queued(unused_screens, Unowned, chained)
        /\ Queued(active_screens, Owned, chained)
        /\ Unowned \in SUBSET ScreenHandles /\ Owned \in SUBSET ScreenHandles
        /\ ScreenHandles \ Owned = Unowned
    BY DEF KeptInv, Unowned, Owned
  <1>2. /\ owner[s] # 0
        /\ owner' = [owner EXCEPT ![s] = 0]
        /\ active_screens' = from.q
        /\ unused_screens' = to.q /\ chained' = to.links
    BY DEF CloseScreen
  <1>3. s \in Owned /\ s \notin Unowned
    BY <1>2 DEF Unowned, Owned
  <1>4. \A t \in ScreenHandles \ Owned : chained[t] # s
    <2>1. IsList(Unowned, unused_screens.length, unused_screens.first, chained, NO_NODE)
      BY <1>1 DEF Queued
    <2>2. \A t \in Unowned : chained[t] \in Unowned \cup {NO_NODE}
      BY <2>1, ListFacts
    <2> QED
      BY <1>1, <1>3, <2>2, HandleFacts
  <1>5. /\ from.links \in Links /\ Queued(from.q, Owned \ {s}, from.links)
        /\ \A m \in ScreenHandles \ Owned : from.links[m] = chained[m]
    BY <1>1, <1>3, <1>4, Removed
  <1> HIDE DEF from
  <1>6. Queued(unused_screens, Unowned, from.links)
    BY <1>1, <1>5, SameQueue
  <1>7. /\ to.links \in Links /\ Queued(to.q, Unowned \cup {s}, to.links)
        /\ \A m \in ScreenHandles \ (Unowned \cup {s}) : to.links[m] = from.links[m]
    <2>1. Joined(to, Unowned, from.links, s)
      BY <1>1, <1>3, <1>5, <1>6, Enqueued
    <2> QED
      BY <2>1 DEF Joined
  <1> HIDE DEF to
  <1>8. Queued(from.q, Owned \ {s}, to.links)
    <2>1. \A m \in Owned \ {s} : to.links[m] = from.links[m]
      BY <1>1, <1>7
    <2> QED
      BY <1>5, <2>1, SameQueue
  <1>9. /\ owner' \in [ScreenHandles -> SCREEN_USERS \cup {0}]
        /\ Unowned' = Unowned \cup {s} /\ Owned' = Owned \ {s}
    BY <1>2 DEF KeptInv, Unowned, Owned
  <1> QED
    BY <1>2, <1>7, <1>8, <1>9 DEF KeptInv

(***************************************************************************)
(* Nothing else touches the queues or the owners.                          *)
(***************************************************************************)
LEMMA KeptStep == KeptInv /\ [AnyNext]_screenVars => KeptInv'
  <1> SUFFICES ASSUME KeptInv, [AnyNext]_screenVars PROVE KeptInv'
    OBVIOUS
  <1>1. ASSUME UNCHANGED chainVars PROVE KeptInv'
    BY <1>1 DEF KeptInv, Unowned, Owned, chainVars
  <1>2. CASE ScreenCalls
    <2>1. \A p \in SCREEN_USERS, s \in ScreenHandles : SetScreen(p, s) => UNCHANGED chainVars
      BY DEF SetScreen
    <2> QED
      BY <1>1, <1>2, <2>1, OpenKept, OpenEmptyKept, CloseKept DEF ScreenCalls
  <1>3. CASE Switching
    <2>1. UNCHANGED chainVars
      BY <1>3 DEF Switching, SwitchScreen
    <2> QED
      BY <1>1, <2>1
  <1>4. CASE Keyboard
    <2>1. UNCHANGED chainVars
      BY <1>4 DEF Keyboard, KeyPressed, GetcharReads, GetcharAdvances
    <2> QED
      BY <1>1, <2>1
  <1>5. CASE Mouse
    <2>1. UNCHANGED chainVars
      BY <1>5 DEF Mouse, IsrMouse, GetMouse, ClearMouse
    <2> QED
      BY <1>1, <2>1
  <1>6. CASE Drawing
    <2>1. UNCHANGED chainVars
      BY <1>6 DEF Drawing, GsBegin, GsDraw
    <2> QED
      BY <1>1, <2>1
  <1>7. CASE UNCHANGED screenVars
    BY <1>1, <1>7 DEF screenVars
  <1> QED
    BY <1>2, <1>3, <1>4, <1>5, <1>6, <1>7 DEF AnyNext

(***************************************************************************)
(* What the property says of a queue.                                      *)
(***************************************************************************)
LEMMA QueueSeen ==
  ASSUME NEW q, NEW M \in SUBSET ScreenHandles, Queued(q, M, chained)
  PROVE  /\ MembersOf(q) = M /\ q.length = Cardinality(M) /\ IsFiniteSet(M)
         /\ q.length # 0 => InQueue(q)[q.length - 1] = q.last
  <1>1. IsList(M, q.length, q.first, chained, NO_NODE) /\ NUM_SCREENS \in Nat
    BY HandleFacts DEF Queued
  <1>2. Traversal(InQueue(q), NUM_SCREENS, q.first, chained, NO_NODE)
    <2>1. PICK f : Traversal(f, NUM_SCREENS, q.first, chained, NO_NODE)
      BY <1>1, TraversalExists
    <2> DEFINE Is(h) == h = [i \in 0..NUM_SCREENS |-> IF i = 0 THEN q.first
                               ELSE LET n == h[i - 1] IN IF n = NO_NODE THEN n ELSE chained[n]]
    <2>2. Is(f)
      BY <2>1 DEF Traversal
    <2>3. InQueue(q) = CHOOSE g : Is(g)
      BY DEF InQueue
    <2> HIDE DEF Is
    <2>4. Is(InQueue(q))
      BY <2>2, <2>3, Zenon
    <2> QED
      BY <2>4 DEF Traversal, Is
  <1>3. IsFiniteSet(M) /\ Cardinality(M) = q.length /\ q.length \in Nat
    BY <1>1, Counted, ListFacts
  <1>4. q.length <= NUM_SCREENS
    <2>1. M \in SUBSET ScreenHandles /\ IsFiniteSet(ScreenHandles) /\ Cardinality(ScreenHandles) = NUM_SCREENS
      BY HandleFacts
    <2>2. Cardinality(M) <= Cardinality(ScreenHandles)
      BY ONLY <2>1, FS_Subset
    <2> QED
      BY <1>3, <2>1, <2>2
  <1>5. {InQueue(q)[i] : i \in 0..NUM_SCREENS} \ {NO_NODE} = M
    BY <1>1, <1>2, <1>4, Members
  <1>6. PICK pos : Numbered(M, pos, q.length, q.first, chained, NO_NODE)
    BY <1>1 DEF IsList
  <1>7. \A i \in 0..NUM_SCREENS : IF i < q.length THEN InQueue(q)[i] \in M /\ pos[InQueue(q)[i]] = i
                                  ELSE InQueue(q)[i] = NO_NODE
    BY <1>1, <1>2, <1>6, Visits
  <1>8. ASSUME q.length # 0 PROVE InQueue(q)[q.length - 1] = q.last
    <2>1. q.length - 1 \in 0..NUM_SCREENS /\ q.length - 1 < q.length
      BY <1>1, <1>3, <1>4, <1>8
    <2>2. InQueue(q)[q.length - 1] \in M /\ pos[InQueue(q)[q.length - 1]] = q.length - 1
      BY <1>7, <2>1
    <2>3. q.last \in M /\ chained[q.last] = NO_NODE
      BY <1>8 DEF Queued
    <2>4. pos[q.last] = q.length - 1
      BY <1>6, <2>3 DEF Numbered
    <2> QED
      BY <1>6, <2>2, <2>3, <2>4 DEF Numbered
  <1> QED
    BY <1>3, <1>5, <1>8 DEF MembersOf

(***************************************************************************)
(* Every screen is in one of the two queues, in that of the active ones    *)
(* just when it has an owner, with the lengths and the last nodes that     *)
(* screen.c keeps right: however many screens there are and in whatever    *)
(* order processes open, close, set and switch to their own and others'.   *)
(***************************************************************************)
THEOREM NoScreenLost == ScreensSpec => []ScreensKept
  <1>1. KeptInv => ScreensKept
    <2> SUFFICES ASSUME KeptInv PROVE ScreensKept
      OBVIOUS
    <2>1. /\ Unowned \in SUBSET ScreenHandles /\ Owned \in SUBSET ScreenHandles
          /\ Unowned \cup Owned = ScreenHandles /\ Unowned \cap Owned = {}
      BY DEF Unowned, Owned
    <2>2. Queued(unused_screens, Unowned, chained) /\ Queued(active_screens, Owned, chained)
      BY DEF KeptInv
    <2>3. /\ MembersOf(unused_screens) = Unowned /\ unused_screens.length = Cardinality(Unowned)
          /\ IsFiniteSet(Unowned)
          /\ unused_screens.length # 0 =>
               InQueue(unused_screens)[unused_screens.length - 1] = unused_screens.last
      BY <2>1, <2>2, QueueSeen
    <2>4. /\ MembersOf(active_screens) = Owned /\ active_screens.length = Cardinality(Owned)
          /\ IsFiniteSet(Owned)
          /\ active_screens.length # 0 =>
               InQueue(active_screens)[active_screens.length - 1] = active_screens.last
      BY <2>1, <2>2, QueueSeen
    <2>5. Cardinality(Unowned) + Cardinality(Owned) = NUM_SCREENS
      <3>1. Cardinality(Unowned \cup Owned) =
              Cardinality(Unowned) + Cardinality(Owned) - Cardinality(Unowned \cap Owned)
        BY <2>3, <2>4, FS_Union
      <3>2. Cardinality(Unowned) \in Nat /\ Cardinality(Owned) \in Nat
        BY <2>3, <2>4, FS_CardinalityType
      <3> QED
        <4>1. Cardinality(Unowned \cup Owned) = NUM_SCREENS /\ Cardinality(Unowned \cap Owned) = 0
          BY <2>1, HandleFacts, FS_EmptySet, Zenon
        <4> QED
          BY ONLY <3>1, <3>2, <4>1
    <2>6. \A q \in {unused_screens, active_screens} :
            /\ q.length = Cardinality(MembersOf(q))
            /\ q.length # 0 => InQueue(q)[q.length - 1] = q.last
      BY <2>3, <2>4
    <2>7. MembersOf(unused_screens) \cup MembersOf(active_screens) = ScreenHandles
          /\ MembersOf(active_screens) = {s \in ScreenHandles : owner[s] # 0}
          /\ unused_screens.length + active_screens.length = NUM_SCREENS
      BY <2>1, <2>3, <2>4, <2>5 DEF Owned
    <2> QED
      BY <2>6, <2>7 DEF ScreensKept
  <1> QED
    BY <1>1, KeptInit, KeptStep, PTL DEF ScreensSpec

-----------------------------------------------------------------------------
(* c_io.c: the cursor of the console *)

\* Any processes print anything.
ConsoleSpec == ConsoleInit /\ [][ConsoleNext(PRINTERS, LETTERS \cup {NEWLINE, RETURN})]_consoleVars

\* On the line: the cursor may be right of the window, and this call looks at it again
\* or puts it back before it ends.
OnLine == {"scroll", "scrolled", "put", "load x", "store x", "wrap"}
PutcharPlaces == OnLine \cup {"idle", "load y", "store y"}

\* Where the line is not below the window, if nobody else has moved it.
InLines == {"put", "load x", "store x", "wrap", "load y"}

CursorInv ==
  /\ scroll \in [min_x : Nat, min_y : Nat, max_x : Nat, max_y : Nat]
  /\ scroll.min_x <= scroll.max_x /\ scroll.min_y <= scroll.max_y
  /\ call \in [PRINTERS -> [at : PutcharPlaces, char : LETTERS \cup {NEWLINE, RETURN, BLANK}, loaded : Nat]]
  /\ curr_x \in Nat /\ curr_x >= scroll.min_x
  /\ curr_y \in Nat /\ curr_y >= scroll.min_y
  /\ mixed \in BOOLEAN
  /\ \A p \in PRINTERS : call[p].at = "store x" => call[p].loaded >= scroll.min_x
  /\ \A p \in PRINTERS : call[p].at = "store y" => call[p].loaded >= scroll.min_y
  /\ curr_x > scroll.max_x => \E p \in PRINTERS : call[p].at \in OnLine

\* One call at a time.
AloneInv ==
  /\ \A p, q \in PRINTERS : p # q => call[p].at = "idle" \/ call[q].at = "idle"
  /\ curr_y <= scroll.max_y + 1
  /\ \A p \in PRINTERS : call[p].at \in InLines => curr_y <= scroll.max_y
  /\ \A p \in PRINTERS : call[p].at = "store y" => call[p].loaded <= scroll.max_y

ConsoleInv == CursorInv /\ (mixed \/ AloneInv)

CallRecords == [at : PutcharPlaces, char : LETTERS \cup {NEWLINE, RETURN, BLANK}, loaded : Nat]

\* What each step of a c_putchar does to what the invariant speaks of: r is what becomes of
\* the call of p.
Turn(p, r) ==
  /\ call' = [call EXCEPT ![p] = r] /\ r \in CallRecords /\ scroll' = scroll
  /\ curr_x' \in Nat /\ curr_x' >= scroll.min_x /\ curr_y' \in Nat /\ curr_y' >= scroll.min_y
  /\ r.at = "store x" => r.loaded >= scroll.min_x
  /\ r.at = "store y" => r.loaded >= scroll.min_y
  /\ curr_x' > scroll.max_x => r.at \in OnLine \/ (curr_x' = curr_x /\ call[p].at \notin OnLine)

\* And while nobody interrupts it.
TurnAlone(p, r) ==
  /\ call[p].at # "idle" \/ NobodyPrints
  /\ curr_y' <= scroll.max_y + 1
  /\ r.at \in InLines => curr_y' <= scroll.max_y
  /\ r.at = "store y" => r.loaded <= scroll.max_y

(***************************************************************************)
(* The invariant after a step of p that moves the cursor as Turn says.     *)
(***************************************************************************)
LEMMA TurnInv ==
  ASSUME ConsoleInv, NEW p \in PRINTERS, NEW r, Turn(p, r), mixed' \in BOOLEAN,
         mixed' \/ (~ mixed /\ TurnAlone(p, r))
  PROVE  ConsoleInv'
  <1>1. CursorInv /\ call \in [PRINTERS -> CallRecords]
    BY DEF ConsoleInv, CursorInv, CallRecords
  <1>2. call'[p] = r /\ (\A q \in PRINTERS \ {p} : call'[q] = call[q]) /\ r \in CallRecords
          /\ scroll' = scroll
    BY <1>1 DEF Turn
  <1>3. call' \in [PRINTERS -> CallRecords]
    BY <1>1 DEF Turn
  <1>4. curr_x' > scroll'.max_x => \E q \in PRINTERS : call'[q].at \in OnLine
    <2>1. SUFFICES ASSUME curr_x' > scroll.max_x, r.at \notin OnLine
                   PROVE  \E q \in PRINTERS : call'[q].at \in OnLine
      BY <1>2
    <2>2. curr_x > scroll.max_x /\ call[p].at \notin OnLine
      BY <2>1 DEF Turn
    <2>3. PICK q \in PRINTERS : call[q].at \in OnLine
      BY <1>1, <2>2 DEF CursorInv
    <2> QED
      BY <1>2, <2>2, <2>3
  <1>5. CursorInv'
    <2>1. \A q \in PRINTERS : call'[q].at = "store x" => call'[q].loaded >= scroll'.min_x
      BY <1>1, <1>2 DEF CursorInv, Turn
    <2>2. \A q \in PRINTERS : call'[q].at = "store y" => call'[q].loaded >= scroll'.min_y
      BY <1>1, <1>2 DEF CursorInv, Turn
    <2>3. (curr_x \in Nat /\ curr_x >= scroll.min_x /\ curr_y \in Nat /\ curr_y >= scroll.min_y
            /\ mixed \in BOOLEAN)'
      BY <1>2 DEF Turn
    <2>4. (/\ scroll \in [min_x : Nat, min_y : Nat, max_x : Nat, max_y : Nat]
           /\ scroll.min_x <= scroll.max_x /\ scroll.min_y <= scroll.max_y)'
      BY <1>1, <1>2 DEF CursorInv
    <2> QED
      BY <1>3, <1>4, <2>1, <2>2, <2>3, <2>4 DEF CursorInv, CallRecords
  <1>6. ASSUME ~ mixed'
        PROVE  AloneInv'
    <2>1. AloneInv /\ TurnAlone(p, r)
      BY <1>6 DEF ConsoleInv
    <2>2. \A q \in PRINTERS \ {p} : call[q].at = "idle"
      BY <2>1 DEF AloneInv, TurnAlone, NobodyPrints
    <2>3. \A q \in PRINTERS \ {p} : call'[q].at = "idle"
      BY <1>2, <2>2
    <2>4. \A q \in PRINTERS : (call'[q].at \in InLines \/ call'[q].at = "store y") => q = p
      <3>1. "idle" \notin InLines /\ "idle" # "store y"
        BY DEF InLines
      <3>2. TAKE q \in PRINTERS
      <3>3. q # p => call'[q].at = "idle"
        BY <2>3
      <3> QED
        BY <3>1, <3>3
    <2>5. \A q, u \in PRINTERS : q # u => call'[q].at = "idle" \/ call'[u].at = "idle"
      BY <2>3
    <2> QED
      BY <1>2, <2>1, <2>4, <2>5 DEF AloneInv, TurnAlone
  <1> QED
    BY <1>5, <1>6 DEF ConsoleInv

(***************************************************************************)
(* A call goes on to its next place.                                       *)
(***************************************************************************)
LEMMA Goes ==
  ASSUME call \in [PRINTERS -> CallRecords], NEW p \in PRINTERS, NEW at \in PutcharPlaces, Goto(p, at)
  PROVE  \E r \in CallRecords : call' = [call EXCEPT ![p] = r] /\ r.at = at
  <1>1. CASE at = "idle"
    <2>1. NotPrinting \in CallRecords /\ NotPrinting.at = at
      BY <1>1 DEF NotPrinting, CallRecords
    <2>2. call' = [call EXCEPT ![p] = NotPrinting]
      BY <1>1 DEF Goto
    <2> QED
      BY <2>1, <2>2
  <1>2. CASE at # "idle"
    <2> DEFINE r == [call[p] EXCEPT !.at = at]
    <2>1. r \in CallRecords /\ r.at = at
      BY DEF CallRecords
    <2>2. call' = [call EXCEPT ![p] = r]
      BY <1>2 DEF Goto
    <2> QED
      BY <2>1, <2>2
  <1> QED
    BY <1>1, <1>2

(***************************************************************************)
(* A step that only goes on, the cursor moved as it may.                   *)
(***************************************************************************)
LEMMA GoesOn ==
  ASSUME ConsoleInv, NEW p \in PRINTERS, NEW at \in PutcharPlaces \ {"store x", "store y"}, Goto(p, at),
         scroll' = scroll, mixed' = mixed, curr_x' \in Nat, curr_x' >= scroll.min_x, curr_y' \in Nat, curr_y' >= scroll.min_y,
         curr_x' > scroll.max_x => at \in OnLine \/ (curr_x' = curr_x /\ call[p].at \notin OnLine),
         call[p].at # "idle",
         ~ mixed => curr_y' <= scroll.max_y + 1 /\ (at \in InLines => curr_y' <= scroll.max_y)
  PROVE  ConsoleInv'
  <1>1. call \in [PRINTERS -> CallRecords] /\ mixed \in BOOLEAN
    BY DEF ConsoleInv, CursorInv, CallRecords
  <1>2. PICK r \in CallRecords : call' = [call EXCEPT ![p] = r] /\ r.at = at
    BY <1>1, Goes
  <1>3. Turn(p, r)
    BY <1>2 DEF Turn
  <1>4. ~ mixed => TurnAlone(p, r)
    BY <1>2 DEF TurnAlone
  <1> QED
    BY <1>1, <1>3, <1>4, TurnInv

(***************************************************************************)
(* Where the cursor is, as far as its window bounds it.                    *)
(***************************************************************************)
LEMMA CursorFacts ==
  ASSUME ConsoleInv
  PROVE  /\ curr_x \in Nat /\ curr_y \in Nat /\ curr_x >= scroll.min_x /\ curr_y >= scroll.min_y
         /\ scroll.min_x \in Nat /\ scroll.max_x \in Nat /\ scroll.min_y \in Nat /\ scroll.max_y \in Nat
         /\ scroll.min_x <= scroll.max_x /\ scroll.min_y <= scroll.max_y
         /\ call \in [PRINTERS -> CallRecords] /\ mixed \in BOOLEAN
         /\ ~ mixed => curr_y <= scroll.max_y + 1
  BY DEF ConsoleInv, CursorInv, AloneInv, CallRecords

(***************************************************************************)
(* And while nobody interrupts.                                            *)
(***************************************************************************)
LEMMA AloneFacts ==
  ASSUME ConsoleInv, ~ mixed, NEW p \in PRINTERS
  PROVE  /\ call[p].at \in {"put", "load x", "store x", "wrap", "load y"} => curr_y <= scroll.max_y
         /\ call[p].at = "store y" => call[p].loaded <= scroll.max_y
  BY DEF ConsoleInv, AloneInv, InLines

(***************************************************************************)
(* The call of c_putchar.                                                  *)
(***************************************************************************)
LEMMA BeginStep ==
  ASSUME ConsoleInv, NEW p \in PRINTERS, NEW c \in LETTERS \cup {NEWLINE, RETURN}, PutcharBegin(p, c)
  PROVE  ConsoleInv'
  <1> DEFINE r == [NotPrinting EXCEPT !.at = IF curr_y > scroll.max_y THEN "scroll" ELSE "put", !.char = c]
  <1>1. r \in CallRecords /\ r.at = (IF curr_y > scroll.max_y THEN "scroll" ELSE "put")
    BY DEF NotPrinting, CallRecords, PutcharPlaces, OnLine
  <1>2. call' = [call EXCEPT ![p] = r] /\ scroll' = scroll /\ curr_x' = curr_x /\ curr_y' = curr_y
        /\ mixed' = (mixed \/ ~ NobodyPrints) /\ call[p].at = "idle"
    BY DEF PutcharBegin
  <1> HIDE DEF r
  <1>3. Turn(p, r)
    BY <1>1, <1>2, CursorFacts DEF Turn, OnLine
  <1>4. ASSUME ~ mixed'
        PROVE  ~ mixed /\ TurnAlone(p, r)
    <2>1. ~ mixed /\ NobodyPrints
      BY <1>2, <1>4
    <2>2. r.at \in InLines => curr_y' <= scroll.max_y
      <3>1. "scroll" \notin InLines
        BY DEF InLines
      <3>2. curr_y > scroll.max_y \/ curr_y <= scroll.max_y
        BY CursorFacts
      <3> QED
        BY <1>1, <1>2, <3>1, <3>2
    <2>3. r.at # "store y"
      BY <1>1
    <2> QED
      BY <1>2, <2>1, <2>2, <2>3, CursorFacts DEF TurnAlone
  <1>5. mixed' \in BOOLEAN
    BY <1>2, CursorFacts DEF NobodyPrints
  <1> QED
    BY <1>3, <1>4, <1>5, TurnInv

(***************************************************************************)
(* The window scrolls.                                                     *)
(***************************************************************************)
LEMMA ScrollsStep ==
  ASSUME ConsoleInv, NEW p \in PRINTERS, PutcharScrolls(p) \/ PutcharScrolled(p)
  PROVE  ConsoleInv'
  <1>1. CASE PutcharScrolls(p)
    <2>1. call[p].at = "scroll" /\ Goto(p, "scrolled") /\ scroll' = scroll /\ mixed' = mixed
          /\ ((curr_x' = curr_x /\ curr_y' = curr_y) \/ (curr_x' = scroll.min_x /\ curr_y' = scroll.min_y))
      BY <1>1 DEF PutcharScrolls
    <2>2. "scrolled" \in PutcharPlaces \ {"store x", "store y"} /\ "scrolled" \in OnLine
            /\ "scrolled" \notin InLines
      BY DEF PutcharPlaces, OnLine, InLines
    <2>3. curr_x' \in Nat /\ curr_x' >= scroll.min_x /\ curr_y' \in Nat /\ curr_y' >= scroll.min_y
          /\ (~ mixed => curr_y' <= scroll.max_y + 1)
      BY <2>1, CursorFacts
    <2> QED
      BY <2>1, <2>2, <2>3, GoesOn
  <1>2. CASE PutcharScrolled(p)
    <2>1. call[p].at = "scrolled" /\ Goto(p, "put") /\ scroll' = scroll /\ mixed' = mixed
          /\ curr_x' = curr_x /\ curr_y' = scroll.max_y
      BY <1>2 DEF PutcharScrolled
    <2>2. "put" \in PutcharPlaces \ {"store x", "store y"} /\ "put" \in OnLine
      BY DEF PutcharPlaces, OnLine
    <2>3. curr_x' \in Nat /\ curr_x' >= scroll.min_x /\ curr_y' \in Nat /\ curr_y' >= scroll.min_y
          /\ curr_y' <= scroll.max_y /\ curr_y' <= scroll.max_y + 1
      BY <2>1, CursorFacts
    <2> QED
      BY <2>1, <2>2, <2>3, GoesOn
  <1> QED
    BY <1>1, <1>2

(***************************************************************************)
(* Not greater.                                                            *)
(***************************************************************************)
LEMMA NotBeyond == \A x, m \in Nat : x <= m => ~ (x > m)
  OBVIOUS

Within(x) == x \in Nat /\ x >= scroll.min_x /\ x <= scroll.max_x

(***************************************************************************)
(* Something is put, or the cursor goes back to the first column.          *)
(***************************************************************************)
LEMMA PutsStep ==
  ASSUME ConsoleInv, NEW p \in PRINTERS, PutcharPuts(p) \/ PutcharReturns(p) \/ PutcharWraps(p)
  PROVE  ConsoleInv'
  <1>1. "put" \in InLines /\ "wrap" \in InLines /\ "put" \in OnLine /\ "wrap" \in OnLine
    BY DEF InLines, OnLine
  <1>2. \A at \in {"load x", "idle", "load y"} : at \in PutcharPlaces \ {"store x", "store y"}
    BY DEF PutcharPlaces, OnLine
  <1>3. CASE PutcharPuts(p)
    <2>1. call[p].at = "put" /\ Goto(p, "load x") /\ scroll' = scroll /\ mixed' = mixed
          /\ curr_x' = curr_x /\ curr_y' = curr_y
      BY <1>3 DEF PutcharPuts
    <2>2. "load x" \in OnLine
      BY DEF OnLine
    <2>3. curr_x' \in Nat /\ curr_x' >= scroll.min_x /\ curr_y' \in Nat /\ curr_y' >= scroll.min_y
          /\ (~ mixed => curr_y' <= scroll.max_y /\ curr_y' <= scroll.max_y + 1)
      BY <2>1, CursorFacts, AloneFacts
    <2> QED
      BY <1>2, <2>1, <2>2, <2>3, GoesOn
  <1>4. ASSUME NEW at \in {"idle", "load y"}, call[p].at \in {"put", "wrap"}, Goto(p, at), scroll' = scroll,
               mixed' = mixed,
               Within(curr_x'), curr_y' = curr_y
        PROVE  ConsoleInv'
    <2>1. curr_y' \in Nat /\ curr_y' >= scroll.min_y
            /\ (~ mixed => curr_y' <= scroll.max_y /\ curr_y' <= scroll.max_y + 1)
      BY <1>4, CursorFacts, AloneFacts
    <2>2. curr_x' \in Nat /\ curr_x' >= scroll.min_x /\ ~ (curr_x' > scroll.max_x)
      <3>1. Within(curr_x') /\ scroll.max_x \in Nat
        BY <1>4, CursorFacts
      <3>2. curr_x' \in Nat /\ curr_x' >= scroll.min_x /\ curr_x' <= scroll.max_x
        BY <3>1, Zenon DEF Within
      <3> QED
        BY <3>1, <3>2, NotBeyond
    <2>3. call[p].at # "idle"
      BY <1>4
    <2> QED
      BY <1>2, <1>4, <2>1, <2>2, <2>3, GoesOn
  <1>5. CASE PutcharReturns(p)
    <2>1. call[p].at = "put" /\ scroll' = scroll /\ mixed' = mixed /\ curr_x' = scroll.min_x
            /\ curr_y' = curr_y
          /\ (Goto(p, "idle") \/ Goto(p, "load y"))
      BY <1>5 DEF PutcharReturns
    <2>2. Within(scroll.min_x)
      BY CursorFacts DEF Within
    <2> QED
      BY <1>4, <2>1, <2>2
  <1>6. CASE PutcharWraps(p)
    <2>1. call[p].at = "wrap" /\ scroll' = scroll /\ mixed' = mixed /\ curr_y' = curr_y
      BY <1>6 DEF PutcharWraps
    <2>2. CASE curr_x > scroll.max_x
      <3>1. curr_x' = scroll.min_x /\ Goto(p, "load y")
        BY <1>6, <2>2 DEF PutcharWraps, PastWindow
      <3>2. Within(scroll.min_x)
        BY CursorFacts DEF Within
      <3> QED
        BY <1>4, <2>1, <3>1, <3>2
    <2>3. CASE ~ (curr_x > scroll.max_x)
      <3>1. curr_x' = curr_x /\ Goto(p, "idle")
        BY <1>6, <2>3 DEF PutcharWraps, PastWindow
      <3>2. Within(curr_x)
        BY <2>3, CursorFacts DEF Within
      <3> QED
        BY <1>4, <2>1, <3>1, <3>2
    <2> QED
      BY <2>2, <2>3
  <1> QED
    BY <1>3, <1>5, <1>6

(***************************************************************************)
(* The two halves of curr_x += 1 and of curr_y += 1.                       *)
(***************************************************************************)
LEMMA MovesStep ==
  ASSUME ConsoleInv, NEW p \in PRINTERS,
         PutcharLoadsX(p) \/ PutcharStoresX(p) \/ PutcharLoadsY(p) \/ PutcharStoresY(p)
  PROVE  ConsoleInv'
  <1>1. /\ call \in [PRINTERS -> CallRecords] /\ call[p] \in CallRecords /\ mixed \in BOOLEAN
        /\ \A q \in PRINTERS : call[q].at = "store x" => call[q].loaded >= scroll.min_x
        /\ \A q \in PRINTERS : call[q].at = "store y" => call[q].loaded >= scroll.min_y
        /\ ~ mixed => \A q \in PRINTERS : call[q].at = "store y" => call[q].loaded <= scroll.max_y
    BY CursorFacts DEF ConsoleInv, CursorInv, AloneInv
  <1>2. CASE PutcharLoadsX(p)
    <2> DEFINE r == [call[p] EXCEPT !.at = "store x", !.loaded = curr_x]
    <2>1. r \in CallRecords /\ r.at = "store x" /\ r.loaded = curr_x
      BY <1>1, CursorFacts DEF CallRecords, PutcharPlaces, OnLine
    <2>2. call' = [call EXCEPT ![p] = r] /\ scroll' = scroll /\ mixed' = mixed /\ curr_x' = curr_x
            /\ curr_y' = curr_y
          /\ call[p].at = "load x"
      BY <1>1, <1>2 DEF PutcharLoadsX
    <2> HIDE DEF r
    <2>3. Turn(p, r)
      BY <2>1, <2>2, CursorFacts DEF Turn, OnLine
    <2>4. ~ mixed => TurnAlone(p, r)
      BY <2>1, <2>2, CursorFacts, AloneFacts DEF TurnAlone, InLines
    <2> QED
      BY <1>1, <2>2, <2>3, <2>4, TurnInv
  <1>3. CASE PutcharStoresX(p)
    <2> DEFINE at == IF call[p].char = NEWLINE THEN "put" ELSE "wrap"
               r == [call[p] EXCEPT !.at = at, !.loaded = 0]
    <2>1. r \in CallRecords /\ r.at = at /\ at \in {"put", "wrap"}
      BY <1>1 DEF CallRecords, PutcharPlaces, OnLine
    <2>2. call' = [call EXCEPT ![p] = r] /\ scroll' = scroll /\ mixed' = mixed
            /\ curr_x' = call[p].loaded + 1 /\ curr_y' = curr_y
          /\ call[p].at = "store x"
      BY <1>1, <1>3 DEF PutcharStoresX
    <2> HIDE DEF r, at
    <2>3. curr_x' \in Nat /\ curr_x' >= scroll.min_x
      <3>1. call[p].loaded \in Nat /\ call[p].loaded >= scroll.min_x
        BY <1>1, <2>2 DEF CallRecords
      <3>2. curr_x' = call[p].loaded + 1 /\ scroll.min_x \in Nat
        BY <2>2, CursorFacts
      <3> QED
        BY <3>1, <3>2
    <2>4. Turn(p, r)
      BY <2>1, <2>2, <2>3, CursorFacts DEF Turn, OnLine
    <2>5. ~ mixed => TurnAlone(p, r)
      BY <2>1, <2>2, CursorFacts, AloneFacts DEF TurnAlone, InLines
    <2> QED
      BY <1>1, <2>2, <2>4, <2>5, TurnInv
  <1>4. CASE PutcharLoadsY(p)
    <2> DEFINE r == [call[p] EXCEPT !.at = "store y", !.loaded = curr_y]
    <2>1. r \in CallRecords /\ r.at = "store y" /\ r.loaded = curr_y
      BY <1>1, CursorFacts DEF CallRecords, PutcharPlaces
    <2>2. call' = [call EXCEPT ![p] = r] /\ scroll' = scroll /\ mixed' = mixed /\ curr_x' = curr_x
            /\ curr_y' = curr_y
          /\ call[p].at = "load y"
      BY <1>1, <1>4 DEF PutcharLoadsY
    <2> HIDE DEF r
    <2>3. Turn(p, r)
      BY <2>1, <2>2, CursorFacts DEF Turn, OnLine
    <2>4. ~ mixed => TurnAlone(p, r)
      BY <2>1, <2>2, CursorFacts, AloneFacts DEF TurnAlone, InLines
    <2> QED
      BY <1>1, <2>2, <2>3, <2>4, TurnInv
  <1>5. CASE PutcharStoresY(p)
    <2>1. NotPrinting \in CallRecords /\ NotPrinting.at = "idle"
      BY DEF NotPrinting, CallRecords, PutcharPlaces
    <2>2. call' = [call EXCEPT ![p] = NotPrinting] /\ scroll' = scroll /\ mixed' = mixed
            /\ curr_y' = call[p].loaded + 1 /\ curr_x' = curr_x
          /\ call[p].at = "store y"
      BY <1>5 DEF PutcharStoresY
    <2>3. curr_y' \in Nat /\ curr_y' >= scroll.min_y /\ (~ mixed => curr_y' <= scroll.max_y + 1)
      <3>1. call[p].loaded \in Nat /\ call[p].loaded >= scroll.min_y
              /\ (~ mixed => call[p].loaded <= scroll.max_y)
        BY <1>1, <2>2 DEF CallRecords
      <3>2. curr_y' = call[p].loaded + 1 /\ scroll.min_y \in Nat /\ scroll.max_y \in Nat
        BY <2>2, CursorFacts
      <3> QED
        BY <3>1, <3>2
    <2>4. Turn(p, NotPrinting)
      BY <2>1, <2>2, <2>3, CursorFacts DEF Turn, OnLine
    <2>5. ~ mixed => TurnAlone(p, NotPrinting)
      BY <2>1, <2>2, <2>3 DEF TurnAlone, InLines
    <2> QED
      BY <1>1, <2>2, <2>4, <2>5, TurnInv
  <1> QED
    BY <1>2, <1>3, <1>4, <1>5

(***************************************************************************)
(* c_setscroll makes a window that is not empty of any arguments.          *)
(***************************************************************************)
LEMMA WindowFacts ==
  ASSUME NEW s \in SCROLLS
  PROVE  /\ Window(s) \in [min_x : Nat, min_y : Nat, max_x : Nat, max_y : Nat]
         /\ Window(s).min_x <= Window(s).max_x /\ Window(s).min_y <= Window(s).max_y
         /\ Window(s).max_x <= SCREEN_MAX_X /\ Window(s).max_y <= SCREEN_MAX_Y
  <1>1. SCREEN_MAX_X \in Nat /\ SCREEN_MAX_Y \in Nat /\ s[1] \in Nat /\ s[2] \in Nat /\ s[3] \in Nat
          /\ s[4] \in Nat
    BY ConsoleAssumption
  <1>2. ASSUME NEW a \in Nat, NEW v \in Nat, NEW b \in Nat, a <= b
        PROVE  Bounded(a, v, b) \in Nat /\ a <= Bounded(a, v, b) /\ Bounded(a, v, b) <= b
    BY <1>2 DEF Bounded
  <1> DEFINE x == Bounded(0, s[1], SCREEN_MAX_X)
             y == Bounded(0, s[2], SCREEN_MAX_Y)
             mx == Bounded(x, s[3], SCREEN_MAX_X)
             my == Bounded(y, s[4], SCREEN_MAX_Y)
  <1>3. x \in Nat /\ x <= SCREEN_MAX_X /\ y \in Nat /\ y <= SCREEN_MAX_Y
    <2>1. 0 \in Nat /\ 0 <= SCREEN_MAX_X /\ 0 <= SCREEN_MAX_Y
      BY <1>1
    <2> HIDE DEF x, y
    <2> QED
      BY <1>1, <1>2, <2>1 DEF x, y
  <1>4. Window(s) = [min_x |-> x, min_y |-> y, max_x |-> mx, max_y |-> my]
    BY DEF Window
  <1> HIDE DEF x, y
  <1>5. mx \in Nat /\ x <= mx /\ mx <= SCREEN_MAX_X /\ my \in Nat /\ y <= my /\ my <= SCREEN_MAX_Y
    BY <1>1, <1>2, <1>3
  <1> HIDE DEF mx, my
  <1> QED
    BY <1>3, <1>4, <1>5

(***************************************************************************)
(* After _init the cursor is in the first place of the window.             *)
(***************************************************************************)
LEMMA ConsoleBegins == ConsoleInit => ConsoleInv
  <1> SUFFICES ASSUME ConsoleInit
               PROVE  ConsoleInv
    OBVIOUS
  <1>1. PICK s \in SCROLLS : scroll = Window(s)
    BY DEF ConsoleInit
  <1>2. scroll \in [min_x : Nat, min_y : Nat, max_x : Nat, max_y : Nat]
        /\ scroll.min_x <= scroll.max_x /\ scroll.min_y <= scroll.max_y
    BY <1>1, WindowFacts
  <1>3. curr_x = scroll.min_x /\ curr_y = scroll.min_y /\ mixed = FALSE
          /\ call = [p \in PRINTERS |-> NotPrinting]
    BY DEF ConsoleInit
  <1>4. NotPrinting \in [at : PutcharPlaces, char : LETTERS \cup {NEWLINE, RETURN, BLANK}, loaded : Nat]
          /\ NotPrinting.at = "idle"
    BY DEF NotPrinting, PutcharPlaces
  <1>5. scroll.min_x \in Nat /\ scroll.max_x \in Nat /\ scroll.min_y \in Nat /\ scroll.max_y \in Nat
    BY <1>2
  <1>6. \A p \in PRINTERS : call[p].at = "idle"
    BY <1>3, <1>4
  <1>7. CursorInv
    <2>1. \A p \in PRINTERS : call[p].at # "store x" /\ call[p].at # "store y"
      BY <1>6
    <2>2. call \in [PRINTERS -> [at :
            PutcharPlaces, char : LETTERS \cup {NEWLINE, RETURN, BLANK}, loaded : Nat]]
      BY <1>3, <1>4
    <2>3. curr_x \in Nat /\ curr_x >= scroll.min_x /\ curr_y \in Nat /\ curr_y >= scroll.min_y
            /\ ~ (curr_x > scroll.max_x)
      <3>1. curr_x = scroll.min_x /\ curr_y = scroll.min_y
        BY <1>3
      <3> QED
        BY <1>2, <1>5, <3>1
    <2>4. mixed \in BOOLEAN
      BY <1>3
    <2> QED
      BY <1>2, <2>1, <2>2, <2>3, <2>4 DEF CursorInv
  <1>8. AloneInv
    <2>1. \A p \in PRINTERS : call[p].at # "store y" /\ call[p].at \notin InLines
      BY <1>6 DEF InLines
    <2>2. curr_y <= scroll.max_y + 1
      <3>1. curr_y = scroll.min_y
        BY <1>3
      <3> QED
        BY <1>2, <1>5, <3>1
    <2> QED
      BY <1>6, <2>1, <2>2 DEF AloneInv
  <1> QED
    BY <1>7, <1>8 DEF ConsoleInv

(***************************************************************************)
(* Every step keeps the cursor where it may be.                            *)
(***************************************************************************)
LEMMA ConsoleStep ==
  ASSUME ConsoleInv, [ConsoleNext(PRINTERS, LETTERS \cup {NEWLINE, RETURN})]_consoleVars
  PROVE  ConsoleInv'
  <1>1. CASE UNCHANGED consoleVars \/ ConsoleAtBound
    <2>1. UNCHANGED consoleVars
      BY <1>1 DEF ConsoleAtBound
    <2> QED
      BY <2>1 DEF consoleVars, ConsoleInv, CursorInv, AloneInv
  <1>2. CASE \E p \in PRINTERS, c \in LETTERS \cup {NEWLINE, RETURN} : PutcharBegin(p, c)
    BY <1>2, BeginStep
  <1>3. ASSUME NEW p \in PRINTERS, PutcharStep(p)
        PROVE  ConsoleInv'
    <2>1. CASE PutcharScrolls(p) \/ PutcharScrolled(p)
      BY <2>1, ScrollsStep
    <2>2. CASE PutcharPuts(p) \/ PutcharReturns(p) \/ PutcharWraps(p)
      BY <2>2, PutsStep
    <2>3. CASE PutcharLoadsX(p) \/ PutcharStoresX(p) \/ PutcharLoadsY(p) \/ PutcharStoresY(p)
      BY <2>3, MovesStep
    <2> QED
      BY <1>3, <2>1, <2>2, <2>3 DEF PutcharStep
  <1> QED
    BY <1>1, <1>2, <1>3 DEF ConsoleNext

(***************************************************************************)
(* However calls of c_putchar interrupt each other and write the cursor    *)
(* back late, for any number of them, it is in a column of the window when *)
(* they are done, and above the first line never; without interruption it  *)
(* is at most a line below.                                                *)
(***************************************************************************)
THEOREM CursorComesBack == ConsoleSpec => []CursorReturns
  <1>1. ConsoleInv => CursorReturns
    <2> SUFFICES ASSUME ConsoleInv, NobodyPrints
                 PROVE  curr_x \in scroll.min_x..scroll.max_x /\ curr_y >= scroll.min_y
                          /\ (~ mixed => curr_y <= scroll.max_y + 1)
      BY DEF CursorReturns
    <2>1. \A p \in PRINTERS : call[p].at \notin OnLine
      BY DEF NobodyPrints, OnLine
    <2>2. ~ (curr_x > scroll.max_x)
      BY <2>1 DEF ConsoleInv, CursorInv
    <2> QED
      BY <2>2, CursorFacts
  <1>2. ConsoleInv /\ [ConsoleNext(PRINTERS, LETTERS \cup {NEWLINE, RETURN})]_consoleVars => ConsoleInv'
    BY ConsoleStep
  <1> QED
    BY <1>1, <1>2, ConsoleBegins, PTL DEF ConsoleSpec

-----------------------------------------------------------------------------
(* What the text console shows: the pen and the sheet it writes on *)

PrintChars == LETTERS \cup {NEWLINE, RETURN}

\* pen follows t, on a sheet of this width, for as many as n of its characters.
Follows(pen, width, t, n) ==
  pen = [i \in 0..n |-> IF i = 0 THEN <<0, 0>> ELSE PenMove(width, pen[i - 1], t[i])]

(***************************************************************************)
(* The pen is somewhere after every character.                             *)
(***************************************************************************)
LEMMA PenExists ==
  ASSUME NEW width, NEW t, NEW n \in Nat
  PROVE  \E pen : Follows(pen, width, t, n)
  <1> DEFINE T == {m \in Nat : \E pen : Follows(pen, width, t, m)}
  <1>1. 0 \in T
    <2>1. Follows([i \in 0..0 |-> <<0, 0>>], width, t, 0)
      BY DEF Follows
    <2> QED
      BY <2>1
  <1>2. ASSUME NEW m \in T
        PROVE  m + 1 \in T
    <2>1. PICK pen : Follows(pen, width, t, m)
      OBVIOUS
    <2> DEFINE more == [i \in 0..(m + 1) |-> IF i <= m THEN pen[i] ELSE PenMove(width, pen[m], t[m + 1])]
    <2>2. \A i \in 0..m : more[i] = pen[i]
      OBVIOUS
    <2>3. \A i \in 0..m : pen[i] = IF i = 0 THEN <<0, 0>> ELSE PenMove(width, pen[i - 1], t[i])
      BY <2>1 DEF Follows
    <2>4. \A i \in 0..(m + 1) : more[i] = IF i = 0 THEN <<0, 0>> ELSE PenMove(width, more[i - 1], t[i])
      <3>1. TAKE i \in 0..(m + 1)
      <3>2. CASE i \in 0..m
        <4>1. i # 0 => i - 1 \in 0..m
          BY <3>2
        <4> HIDE DEF more
        <4> QED
          BY <2>2, <2>3, <3>2, <4>1
      <3>3. CASE i = m + 1
        <4>1. more[i] = PenMove(width, pen[m], t[m + 1]) /\ i - 1 = m /\ i # 0
          BY <3>3
        <4>2. more[m] = pen[m]
          BY <2>2
        <4> HIDE DEF more
        <4> QED
          BY <3>3, <4>1, <4>2
      <3> QED
        BY <3>2, <3>3
    <2>5. Follows(more, width, t, m + 1)
      <3>1. DOMAIN more = 0..(m + 1) /\ more = [i \in 0..(m + 1) |-> more[i]]
        OBVIOUS
      <3> HIDE DEF more
      <3> QED
        BY <2>4, <3>1 DEF Follows
    <2> QED
      BY <2>5
  <1>3. T = Nat
    <2> HIDE DEF T
    <2>1. T \in SUBSET Nat
      BY DEF T
    <2> QED
      BY <1>1, <1>2, <2>1, SetInduction
  <1> QED
    BY <1>3

\* Where it may be: no line has a column behind the last.
PenRange(width, pen, n) ==
  \A i \in 0..n : pen[i] \in Nat \X (0..(width - 1))

(***************************************************************************)
(* It begins in the first place, and every character moves it.             *)
(***************************************************************************)
LEMMA PenIs ==
  ASSUME NEW width, NEW t \in Seq(PrintChars)
  PROVE  /\ Pen(width, t)[0] = <<0, 0>>
         /\ \A i \in 1..Len(t) : Pen(width, t)[i] = PenMove(width, Pen(width, t)[i - 1], t[i])
  <1> DEFINE pen == Pen(width, t)
  <1>1. Len(t) \in Nat
    OBVIOUS
  <1>2. pen = CHOOSE p : p = [i \in 0..Len(t) |-> IF i = 0 THEN <<0, 0>> ELSE PenMove(width, p[i - 1], t[i])]
    BY DEF Pen
  <1>3. \E p : p = [i \in 0..Len(t) |-> IF i = 0 THEN <<0, 0>> ELSE PenMove(width, p[i - 1], t[i])]
    <2>1. \E p : Follows(p, width, t, Len(t))
      BY <1>1, PenExists
    <2> QED
      BY <2>1 DEF Follows
  <1> HIDE DEF pen
  <1>4. pen = [i \in 0..Len(t) |-> IF i = 0 THEN <<0, 0>> ELSE PenMove(width, pen[i - 1], t[i])]
    BY <1>2, <1>3
  <1>5. pen[0] = <<0, 0>> /\ \A i \in 1..Len(t) : pen[i] = PenMove(width, pen[i - 1], t[i])
    <2>1. \A i \in 0..Len(t) : pen[i] = IF i = 0 THEN <<0, 0>> ELSE PenMove(width, pen[i - 1], t[i])
      BY <1>4
    <2>2. 0 \in 0..Len(t) /\ \A i \in 1..Len(t) : i \in 0..Len(t) /\ i # 0
      BY <1>1
    <2> QED
      BY <2>1, <2>2
  <1> QED
    BY <1>5 DEF pen

(***************************************************************************)
(* A character moves the pen to a place of the sheet, in its line or to    *)
(* the begin of the next.                                                  *)
(***************************************************************************)
LEMMA Moved ==
  ASSUME NEW width \in Nat \ {0}, NEW pos \in Nat \X (0..(width - 1)), NEW c \in PrintChars
  PROVE  /\ PenMove(width, pos, c) \in Nat \X (0..(width - 1))
         /\ \/ PenMove(width, pos, c)[1] = pos[1]
            \/ PenMove(width, pos, c) = <<pos[1] + 1, 0>>
  BY ConsoleAssumption DEF PenMove, PrintChars, NEWLINE, RETURN

(***************************************************************************)
(* So it is in a place of the sheet after every character.                 *)
(***************************************************************************)
LEMMA PenPlaces ==
  ASSUME NEW width \in Nat \ {0}, NEW t \in Seq(PrintChars)
  PROVE  \A i \in 0..Len(t) : Pen(width, t)[i] \in Nat \X (0..(width - 1))
  <1> DEFINE pen == Pen(width, t)
             T == {m \in Nat : m <= Len(t) => pen[m] \in Nat \X (0..(width - 1))}
  <1>1. pen[0] = <<0, 0>> /\ \A i \in 1..Len(t) : pen[i] = PenMove(width, pen[i - 1], t[i])
    BY PenIs
  <1>2. Len(t) \in Nat /\ \A i \in 1..Len(t) : t[i] \in PrintChars
    OBVIOUS
  <1> HIDE DEF pen
  <1>3. 0 \in T
    <2>1. 0 \in 0..(width - 1)
      OBVIOUS
    <2>2. <<0, 0>> \in Nat \X (0..(width - 1))
      BY <2>1
    <2> QED
      BY <1>1, <2>2
  <1>4. ASSUME NEW m \in T
        PROVE  m + 1 \in T
    <2> SUFFICES ASSUME m + 1 <= Len(t) PROVE pen[m + 1] \in Nat \X (0..(width - 1))
      OBVIOUS
    <2>1. m \in Nat /\ m + 1 \in 1..Len(t) /\ pen[m] \in Nat \X (0..(width - 1)) /\ (m + 1) - 1 = m
      BY <1>2
    <2>2. pen[m + 1] = PenMove(width, pen[m], t[m + 1]) /\ t[m + 1] \in PrintChars
      BY <1>1, <1>2, <2>1
    <2> QED
      BY <2>1, <2>2, Moved
  <1>5. T = Nat
    <2> HIDE DEF T
    <2>1. T \in SUBSET Nat
      BY DEF T
    <2> QED
      BY <1>3, <1>4, <2>1, SetInduction
  <1> QED
    BY <1>2, <1>5 DEF pen

(***************************************************************************)
(* The pen never goes up.                                                  *)
(***************************************************************************)
LEMMA PenGoesDown ==
  ASSUME NEW width \in Nat \ {0}, NEW t \in Seq(PrintChars), NEW n \in 0..Len(t)
  PROVE  \A i \in 0..n : Pen(width, t)[i][1] <= Pen(width, t)[n][1]
  <1> DEFINE pen == Pen(width, t)
             T == {m \in Nat : m <= Len(t) => \A i \in 0..m : pen[i][1] <= pen[m][1]}
  <1>1. \A i \in 1..Len(t) : pen[i] = PenMove(width, pen[i - 1], t[i])
    BY PenIs
  <1>2. Len(t) \in Nat /\ \A i \in 1..Len(t) : t[i] \in PrintChars
    OBVIOUS
  <1>3. \A i \in 0..Len(t) : pen[i] \in Nat \X (0..(width - 1)) /\ pen[i][1] \in Nat
    BY PenPlaces
  <1> HIDE DEF pen
  <1>4. 0 \in T
    BY <1>3
  <1>5. ASSUME NEW m \in T
        PROVE  m + 1 \in T
    <2> SUFFICES ASSUME m + 1 <= Len(t) PROVE \A i \in 0..(m + 1) : pen[i][1] <= pen[m + 1][1]
      OBVIOUS
    <2>1. m \in Nat /\ m + 1 \in 1..Len(t) /\ (m + 1) - 1 = m /\ m \in 0..Len(t) /\ m + 1 \in 0..Len(t)
          /\ \A i \in 0..m : pen[i][1] <= pen[m][1]
      BY <1>2
    <2>2. pen[m + 1] = PenMove(width, pen[m], t[m + 1]) /\ t[m + 1] \in PrintChars
      BY <1>1, <1>2, <2>1
    <2>3. pen[m + 1][1] = pen[m][1] \/ pen[m + 1][1] = pen[m][1] + 1
      <3>1. pen[m + 1][1] = pen[m][1] \/ pen[m + 1] = <<pen[m][1] + 1, 0>>
        BY <1>3, <2>1, <2>2, Moved
      <3> QED
        BY <3>1
    <2>4. \A i \in 0..(m + 1) : i \in 0..m \/ i = m + 1
      BY <2>1
    <2>5. \A i \in 0..m : i \in 0..Len(t)
      BY <1>2, <2>1
    <2>6. ASSUME NEW i \in 0..(m + 1)
          PROVE  pen[i][1] <= pen[m + 1][1]
      <3>1. PICK a \in Nat, b \in Nat : a = pen[m][1] /\ b = pen[m + 1][1] /\ a <= b
        BY <1>3, <2>1, <2>3
      <3>2. CASE i = m + 1
        BY <3>1, <3>2
      <3>3. CASE i # m + 1
        <4>1. i \in 0..m
          BY <2>4, <3>3
        <4>2. PICK c \in Nat : c = pen[i][1]
          BY <1>3, <2>5, <4>1
        <4>3. c <= a
          BY <2>1, <3>1, <4>1, <4>2
        <4> QED
          BY <3>1, <4>2, <4>3, SMTT(30)
      <3> QED
        BY <3>2, <3>3
    <2> QED
      BY <2>6
  <1>6. T = Nat
    <2> HIDE DEF T
    <2>1. T \in SUBSET Nat
      BY DEF T
    <2> QED
      BY <1>4, <1>5, <2>1, SetInduction
  <1> QED
    BY <1>2, <1>6 DEF pen

(***************************************************************************)
(* Printing more does not change where the pen was before.                 *)
(***************************************************************************)
LEMMA PenAppend ==
  ASSUME NEW width, NEW t \in Seq(PrintChars), NEW c \in PrintChars
  PROVE  \A i \in 0..Len(t) : Pen(width, Append(t, c))[i] = Pen(width, t)[i]
  <1> DEFINE pen == Pen(width, t)
             more == Pen(width, Append(t, c))
             T == {m \in Nat : m <= Len(t) => more[m] = pen[m]}
  <1>1. pen[0] = <<0, 0>> /\ \A i \in 1..Len(t) : pen[i] = PenMove(width, pen[i - 1], t[i])
    BY PenIs
  <1>2. Append(t, c) \in Seq(PrintChars) /\ Len(Append(t, c)) = Len(t) + 1 /\ Len(t) \in Nat
        /\ \A i \in 1..Len(t) : Append(t, c)[i] = t[i]
    OBVIOUS
  <1>3. more[0] = <<0, 0>> /\ \A i \in 1..Len(t) : more[i] = PenMove(width, more[i - 1], t[i])
    <2>1. /\ more[0] = <<0, 0>>
          /\ \A i \in 1..Len(Append(t, c)) : more[i] = PenMove(width, more[i - 1], Append(t, c)[i])
      BY <1>2, PenIs
    <2>2. \A i \in 1..Len(t) : i \in 1..Len(Append(t, c))
      BY <1>2
    <2> HIDE DEF more
    <2> QED
      BY <1>2, <2>1, <2>2
  <1> HIDE DEF pen, more
  <1>4. 0 \in T
    BY <1>1, <1>3
  <1>5. ASSUME NEW m \in T
        PROVE  m + 1 \in T
    <2> SUFFICES ASSUME m + 1 <= Len(t) PROVE more[m + 1] = pen[m + 1]
      OBVIOUS
    <2>1. m \in Nat /\ m + 1 \in 1..Len(t) /\ (m + 1) - 1 = m /\ more[m] = pen[m]
      BY <1>2
    <2> QED
      BY <1>1, <1>3, <2>1
  <1>6. T = Nat
    <2> HIDE DEF T
    <2>1. T \in SUBSET Nat
      BY DEF T
    <2> QED
      BY <1>4, <1>5, <2>1, SetInduction
  <1> QED
    BY <1>2, <1>6 DEF pen, more

\* Whether a character printed at pos writes or erases a place.
Touches(pos, c, line, column) ==
  pos[1] = line /\ ((c \in LETTERS /\ pos[2] = column) \/ (c = NEWLINE /\ pos[2] <= column))

(***************************************************************************)
(* The sheet after one more character.                                     *)
(***************************************************************************)
LEMMA SheetAppend ==
  ASSUME NEW width, NEW t \in Seq(PrintChars), NEW c \in PrintChars, NEW line, NEW column
  PROVE  Sheet(Pen(width, Append(t, c)), Append(t, c), line, column) =
           IF Touches(Pen(width, t)[Len(t)], c, line, column) THEN IF c = NEWLINE THEN BLANK ELSE c
           ELSE Sheet(Pen(width, t), t, line, column)
  <1>1. PICK u : u = Append(t, c)
    OBVIOUS
  <1>2. PICK pen, more : pen = Pen(width, t) /\ more = Pen(width, u)
    OBVIOUS
  <1>3. /\ Len(t) \in Nat /\ DOMAIN t = 1..Len(t) /\ DOMAIN u = 1..(Len(t) + 1)
        /\ \A i \in 1..Len(t) : u[i] = t[i]
        /\ u[Len(t) + 1] = c
    BY <1>1
  <1>4. \A i \in 0..Len(t) : more[i] = pen[i]
    BY <1>1, <1>2, PenAppend
  <1> DEFINE new == Touching(more, u, line, column)
             old == Touching(pen, t, line, column)
             n == Len(t) + 1
  <1>5. \A i \in 1..Len(t) : i \in new <=> i \in old
    <2>1. \A i \in 1..Len(t) : i - 1 \in 0..Len(t) /\ i \in DOMAIN t /\ i \in DOMAIN u
      BY <1>3
    <2> QED
      BY <1>3, <1>4, <2>1 DEF Touching
  <1>6. n \in new <=> Touches(pen[Len(t)], c, line, column)
    <2>1. n - 1 = Len(t) /\ n \in DOMAIN u /\ Len(t) \in 0..Len(t)
      BY <1>3
    <2> QED
      BY <1>3, <1>4, <2>1 DEF Touching, Touches
  <1>7. new \subseteq 1..n /\ old \subseteq 1..Len(t)
    BY <1>3 DEF Touching
  <1>8. CASE Touches(pen[Len(t)], c, line, column)
    <2> HIDE DEF new, old
    <2>1. n \in new /\ \A j \in new : j <= n
      BY <1>3, <1>6, <1>7, <1>8
    <2>2. (CHOOSE i \in new : \A j \in new : j <= i) = n
      <3>1. \A i \in new : (\A j \in new : j <= i) => i = n
        BY <1>3, <1>7, <2>1
      <3> QED
        BY <2>1, <3>1
    <2>3. Sheet(more, u, line, column) = IF c = NEWLINE THEN BLANK ELSE c
      <3>1. Sheet(more, u, line, column) =
              IF new = {} \/ u[CHOOSE i \in new : \A j \in new : j <= i] = NEWLINE THEN BLANK
              ELSE u[CHOOSE i \in new : \A j \in new : j <= i]
        BY Zenon DEF Sheet, new
      <3> QED
        BY <1>3, <2>1, <2>2, <3>1
    <2> QED
      BY <1>1, <1>2, <1>8, <2>3
  <1>9. CASE ~ Touches(pen[Len(t)], c, line, column)
    <2>1. new = old
      <3> HIDE DEF new, old
      <3>1. \A i \in 1..n : i \in 1..Len(t) \/ i = n
        BY <1>3
      <3>2. n \notin new /\ n \notin old
        BY <1>3, <1>6, <1>7, <1>9
      <3>3. \A i : i \in new <=> i \in old
        BY <1>3, <1>5, <1>7, <3>1, <3>2
      <3> QED
        BY <3>3
    <2>2. old # {} => (CHOOSE i \in old : \A j \in old : j <= i) \in 1..Len(t)
      <3> HIDE DEF new, old
      <3> SUFFICES ASSUME old # {} PROVE \E i \in old : \A j \in old : j <= i
        BY <1>7
      <3> DEFINE above == {m \in Nat : \A j \in old : j <= m}
      <3>1. Len(t) \in above
        BY <1>3, <1>7
      <3>2. PICK m \in above : \A k \in above : m <= k
        <4>1. above \in SUBSET Nat /\ above # {}
          BY <3>1
        <4> HIDE DEF above
        <4> QED
          BY <4>1, LeastOf
      <3>3. m \in old
        <4> SUFFICES ASSUME m \notin old PROVE FALSE
          OBVIOUS
        <4>1. m \in Nat /\ \A j \in old : j \in Nat /\ j <= m /\ j # m /\ j >= 1
          BY <1>3, <1>7, <3>2
        <4>2. m >= 1
          BY <4>1
        <4>3. m - 1 \in Nat /\ \A j \in old : j <= m - 1
          BY <4>1, <4>2
        <4>4. m - 1 \in above
          BY <4>3
        <4> QED
          BY <3>2, <4>1, <4>4
      <3> QED
        BY <3>2, <3>3
    <2>3. Sheet(more, u, line, column) = Sheet(pen, t, line, column)
      <3> DEFINE k == CHOOSE i \in old : \A j \in old : j <= i
      <3>1. Sheet(pen, t, line, column) = IF old = {} \/ t[k] = NEWLINE THEN BLANK ELSE t[k]
        BY Zenon DEF Sheet
      <3>2. Sheet(more, u, line, column) = IF old = {} \/ u[k] = NEWLINE THEN BLANK ELSE u[k]
        <4>1. Sheet(more, u, line, column) =
                IF new = {} \/ u[CHOOSE i \in new : \A j \in new : j <= i] = NEWLINE THEN BLANK
                ELSE u[CHOOSE i \in new : \A j \in new : j <= i]
          BY Zenon DEF Sheet
        <4> HIDE DEF new, old
        <4> QED
          BY <2>1, <4>1
      <3> HIDE DEF k, old
      <3>3. old # {} => u[k] = t[k]
        BY <1>3, <2>2 DEF k
      <3> QED
        BY <3>1, <3>2, <3>3
    <2> QED
      BY <1>1, <1>2, <1>9, <2>3
  <1> QED
    BY <1>8, <1>9

\* The place after all of t, and the first line in sight.
Place(w, t) == Pen(w, t)[Len(t)]
TopOf(w, h, t) == TopLine(Pen(w, t), t, h)

\* Text t ends at this line and column, `old' being the first line in sight; `new' is
\* when one more character is printed.
Page(w, h, t, line, column, old, new) ==
  /\ line \in Nat /\ column \in 0..(w - 1) /\ old \in Nat /\ new \in Nat
  /\ old <= line /\ line <= old + h
  /\ new <= line /\ line < new + h
  /\ line = old + h => column = 0 /\ new = old + 1 /\ \A k : Sheet(Pen(w, t), t, line, k) = BLANK
  /\ line < old + h => new = old

(***************************************************************************)
(* Where a text ends in the window, and where one more character leads: it *)
(* ends below the window only at the begin of a line nothing was written   *)
(* to, which comes into sight with the next character.                     *)
(***************************************************************************)
LEMMA PageFacts ==
  ASSUME NEW w \in Nat \ {0}, NEW h \in Nat \ {0}, NEW t \in Seq(PrintChars), NEW c \in PrintChars
  PROVE  Page(w, h, t, Place(w, t)[1], Place(w, t)[2], TopOf(w, h, t), TopOf(w, h, Append(t, c)))
  <1>1. PICK line, column, old, new :
          line = Place(w, t)[1] /\ column = Place(w, t)[2] /\ old = TopOf(w, h, t)
            /\ new = TopOf(w, h, Append(t, c))
    OBVIOUS
  <1> DEFINE pen == Pen(w, t)
             last == IF t = <<>> THEN 0 ELSE pen[Len(t) - 1][1]
  <1>2. Len(t) \in Nat /\ DOMAIN t = 1..Len(t) /\ (t = <<>> <=> Len(t) = 0)
        /\ \A i \in 1..Len(t) : t[i] \in PrintChars
    OBVIOUS
  <1>3. /\ pen[0] = <<0, 0>> /\ \A i \in 1..Len(t) : pen[i] = PenMove(w, pen[i - 1], t[i])
        /\ \A i \in 0..Len(t) : pen[i] \in Nat \X (0..(w - 1))
    BY PenIs, PenPlaces
  <1>4. Place(w, t) = pen[Len(t)] /\ Len(t) \in 0..Len(t)
    BY <1>2 DEF Place
  <1>5. line \in Nat /\ column \in 0..(w - 1) /\ line = pen[Len(t)][1] /\ column = pen[Len(t)][2]
    BY <1>1, <1>3, <1>4
  <1>6. old = IF last < h THEN 0 ELSE last - h + 1
    <2>1. TopLine(pen, t, h) = IF last < h THEN 0 ELSE last - h + 1
      BY Zenon DEF TopLine
    <2>2. old = TopLine(pen, t, h)
      BY <1>1 DEF TopOf
    <2> HIDE DEF pen, last
    <2> QED
      BY <2>1, <2>2
  <1>7. new = IF line < h THEN 0 ELSE line - h + 1
    <2>1. Len(Append(t, c)) = Len(t) + 1 /\ Append(t, c) \in Seq(PrintChars)
      OBVIOUS
    <2>2. Pen(w, Append(t, c))[Len(t)] = pen[Len(t)]
      BY <1>4, PenAppend
    <2>3. (Len(t) + 1) - 1 = Len(t)
      BY <1>2
    <2>4. Append(t, c) # <<>>
      <3>1. Len(Append(t, c)) = Len(t) + 1 /\ Len(<<>>) = 0
        OBVIOUS
      <3>2. Len(t) + 1 # 0
        BY <1>2
      <3> QED
        BY <3>1, <3>2
    <2> HIDE DEF pen
    <2> QED
      BY <1>1, <1>5, <2>1, <2>2, <2>3, <2>4 DEF TopOf, TopLine
  <1>8. last \in Nat /\ (line = last \/ (line = last + 1 /\ column = 0 /\ t # <<>>))
    <2>1. CASE t = <<>>
      <3>1. line = 0 /\ last = 0
        BY <1>2, <1>3, <1>5, <2>1
      <3> QED
        BY <3>1
    <2>2. CASE t # <<>>
      <3>1. Len(t) \in 1..Len(t) /\ Len(t) - 1 \in 0..Len(t)
        BY <1>2, <2>2
      <3>2. PICK pos : pos = pen[Len(t) - 1]
        OBVIOUS
      <3>3. pos \in Nat \X (0..(w - 1)) /\ pen[Len(t)] = PenMove(w, pos, t[Len(t)]) /\ last = pos[1]
            /\ t[Len(t)] \in PrintChars
        BY <1>2, <1>3, <2>2, <3>1, <3>2
      <3>4. pen[Len(t)][1] = pos[1] \/ pen[Len(t)] = <<pos[1] + 1, 0>>
        BY <3>3, Moved, ZenonT(40)
      <3> HIDE DEF pen, last
      <3> QED
        BY <1>5, <2>2, <3>3, <3>4
    <2> QED
      BY <2>1, <2>2
  <1>9. line = old + h => \A k : Sheet(pen, t, line, k) = BLANK
    <2> SUFFICES ASSUME line = old + h, NEW k PROVE Sheet(pen, t, line, k) = BLANK
      OBVIOUS
    <2>1. line = last + 1 /\ t # <<>>
      <3> HIDE DEF last
      <3> QED
        BY <1>5, <1>6, <1>8
    <2>2. \A i \in 1..Len(t) : pen[i - 1][1] # line
      <3>1. Len(t) - 1 \in 0..Len(t) /\ last = pen[Len(t) - 1][1]
        BY <1>2, <2>1
      <3>2. \A i \in 0..(Len(t) - 1) : pen[i][1] <= pen[Len(t) - 1][1]
        BY <3>1, PenGoesDown
      <3>3. \A i \in 1..Len(t) : i - 1 \in 0..(Len(t) - 1) /\ i - 1 \in 0..Len(t)
        BY <1>2
      <3>4. \A i \in 1..Len(t) : pen[i - 1][1] \in Nat
        BY <1>3, <3>3
      <3> HIDE DEF pen, last
      <3> QED
        BY <1>8, <2>1, <3>1, <3>2, <3>3, <3>4
    <2>3. Touching(pen, t, line, k) = {}
      BY <1>2, <2>2 DEF Touching
    <2> QED
      BY <2>3 DEF Sheet
  <1> HIDE DEF pen, last
  <1>10. /\ old \in Nat /\ new \in Nat /\ old <= line /\ line <= old + h /\ new <= line /\ line < new + h
         /\ line = old + h => column = 0 /\ new = old + 1
         /\ line < old + h => new = old
    <2>1. PICK l \in Nat : l = last
      BY <1>8
    <2>2. line \in Nat /\ h \in Nat /\ h > 0 /\ (line = l \/ (line = l + 1 /\ column = 0))
      BY <1>5, <1>8, <2>1
    <2>3. old = IF l < h THEN 0 ELSE l - h + 1
      BY <1>6, <2>1
    <2>4. old \in Nat /\ new \in Nat /\ old <= line /\ line <= old + h /\ new <= line /\ line < new + h
      BY ONLY <1>7, <2>2, <2>3
    <2>5. line = old + h => column = 0 /\ new = old + 1
      BY ONLY <1>7, <2>2, <2>3
    <2>6. line < old + h => new = old
      BY ONLY <1>7, <2>2, <2>3
    <2> QED
      BY <2>4, <2>5, <2>6
  <1> QED
    <2>1. Page(w, h, t, line, column, old, new)
      BY <1>5, <1>9, <1>10 DEF pen, Page
    <2> QED
      BY <1>1, <2>1

(***************************************************************************)
(* Where the next character goes is in sight.                              *)
(***************************************************************************)
LEMMA InSight ==
  ASSUME NEW w \in Nat \ {0}, NEW h \in Nat \ {0}, NEW t \in Seq(PrintChars), NEW c \in PrintChars
  PROVE  /\ Place(w, t)[1] \in Nat /\ Place(w, t)[2] \in Nat /\ Place(w, t)[2] < w
         /\ TopOf(w, h, Append(t, c)) \in Nat
         /\ TopOf(w, h, Append(t, c)) <= Place(w, t)[1] /\ Place(w, t)[1] < TopOf(w, h, Append(t, c)) + h
  <1>1. PICK line, column, old, new :
          line = Place(w, t)[1] /\ column = Place(w, t)[2] /\ old = TopOf(w, h, t)
            /\ new = TopOf(w, h, Append(t, c))
    OBVIOUS
  <1>2. line \in Nat /\ column \in 0..(w - 1) /\ new \in Nat /\ new <= line /\ line < new + h
    <2>1. Page(w, h, t, line, column, old, new)
      BY <1>1, PageFacts
    <2> QED
      BY <2>1 DEF Page
  <1>3. column \in Nat /\ column < w
    BY <1>2
  <1> QED
    BY <1>1, <1>2, <1>3

(***************************************************************************)
(* And where the pen is then.                                              *)
(***************************************************************************)
LEMMA PlaceAppend ==
  ASSUME NEW w, NEW t \in Seq(PrintChars), NEW c \in PrintChars
  PROVE  Place(w, Append(t, c)) = PenMove(w, Place(w, t), c)
  <1>1. /\ Append(t, c) \in Seq(PrintChars) /\ Len(Append(t, c)) = Len(t) + 1 /\ Len(t) \in Nat
        /\ Append(t, c)[Len(t) + 1] = c
    OBVIOUS
  <1>2. Len(t) + 1 \in 1..Len(Append(t, c)) /\ (Len(t) + 1) - 1 = Len(t) /\ Len(t) \in 0..Len(t)
    BY <1>1
  <1>3. Pen(w, Append(t, c))[Len(t) + 1] = PenMove(w, Pen(w, Append(t, c))[Len(t)], c)
    BY <1>1, <1>2, PenIs
  <1>4. Pen(w, Append(t, c))[Len(t)] = Pen(w, t)[Len(t)]
    BY <1>2, PenAppend
  <1> QED
    BY <1>1, <1>3, <1>4 DEF Place

-----------------------------------------------------------------------------
(* What the screen v shows in window s *)

WidthOf(s) == s.max_x - s.min_x + 1
HeightOf(s) == s.max_y - s.min_y + 1

Inside(s, cell) == cell[1] \in s.min_x..s.max_x /\ cell[2] \in s.min_y..s.max_y

\* What is on the sheet of t at a cell when line `top' is in sight first.
OnSheet(s, t, top, cell) ==
  Sheet(Pen(WidthOf(s), t), t, top + cell[2] - s.min_y, cell[1] - s.min_x)

Shown(v, s, t, top) ==
  \A cell \in Columns \X Lines : v[cell] = IF Inside(s, cell) THEN OnSheet(s, t, top, cell) ELSE BLANK

\* The line the text t ends in is erased, from there up to column n.
Erased(v, s, t, top, n) ==
  \A cell \in Columns \X Lines :
    v[cell] =
      IF ~ Inside(s, cell) THEN BLANK
      ELSE IF /\ top + cell[2] - s.min_y = Place(WidthOf(s), t)[1]
              /\ Place(WidthOf(s), t)[2] <= cell[1] - s.min_x /\ cell[1] - s.min_x < n THEN BLANK
      ELSE OnSheet(s, t, top, cell)

\* A cell of the screen has another content.
Written(v, x, y, c) == [v EXCEPT ![<<x, y>>] = c]

IsWindow(s) ==
  /\ s \in [min_x : Nat, min_y : Nat, max_x : Nat, max_y : Nat]
  /\ s.min_x <= s.max_x /\ s.min_y <= s.max_y
  /\ s.max_x <= SCREEN_MAX_X /\ s.max_y <= SCREEN_MAX_Y

IsVideo(v) == v = [cell \in Columns \X Lines |-> v[cell]]

(***************************************************************************)
(* The edges of a window, its width and its height.                        *)
(***************************************************************************)
LEMMA WindowIs ==
  ASSUME NEW s, IsWindow(s)
  PROVE  /\ s.min_x \in Nat /\ s.max_x \in Nat /\ s.min_y \in Nat /\ s.max_y \in Nat
         /\ s.min_x <= s.max_x /\ s.min_y <= s.max_y
         /\ s.max_x <= SCREEN_MAX_X /\ s.max_y <= SCREEN_MAX_Y /\ SCREEN_MAX_X \in Nat /\ SCREEN_MAX_Y \in Nat
         /\ WidthOf(s) = s.max_x - s.min_x + 1 /\ HeightOf(s) = s.max_y - s.min_y + 1
         /\ WidthOf(s) \in Nat \ {0} /\ HeightOf(s) \in Nat \ {0}
  BY ConsoleAssumption DEF IsWindow, WidthOf, HeightOf

(***************************************************************************)
(* The cells of the screen.                                                *)
(***************************************************************************)
LEMMA CellIs ==
  ASSUME NEW cell \in Columns \X Lines
  PROVE  cell[1] \in Nat /\ cell[2] \in Nat /\ cell[1] \in Columns /\ cell[2] \in Lines
           /\ cell = <<cell[1], cell[2]>>
  BY ConsoleAssumption DEF Columns, Lines

\* Text t ends at this place of the sheet, and this line is in sight first.
Ends(s, t, line, column) == line = Place(WidthOf(s), t)[1] /\ column = Place(WidthOf(s), t)[2]
Begins(s, t, top) == top = TopOf(WidthOf(s), HeightOf(s), t)

\* The cursor is at this column and line.
At(s, x, y, column, line, top) == x = s.min_x + column /\ y = s.min_y + (line - top)

\* What that means of a cell.
SameCell(s, x, y, column, line, top) ==
  \A cell \in Columns \X Lines :
    /\ (cell[1] = x /\ cell[2] = y) <=> (top + cell[2] - s.min_y = line /\ cell[1] - s.min_x = column)
    /\ cell[1] = x /\ cell[2] = y => Inside(s, cell)

(***************************************************************************)
(* A place of the sheet that is in sight is a cell of the window.          *)
(***************************************************************************)
LEMMA PlaceIs ==
  ASSUME NEW s, IsWindow(s), NEW x, NEW y, NEW n \in Nat, n < WidthOf(s), NEW line \in Nat, NEW top \in Nat,
         top <= line, line < top + HeightOf(s), At(s, x, y, n, line, top)
  PROVE  x \in Columns /\ y \in Lines /\ SameCell(s, x, y, n, line, top)
  <1>1. PICK a \in Nat, b \in Nat, c \in Nat, d \in Nat :
          a = s.min_x /\ b = s.max_x /\ c = s.min_y /\ d = s.max_y
    BY WindowIs
  <1>2. a <= b /\ c <= d /\ b <= SCREEN_MAX_X /\ d <= SCREEN_MAX_Y /\ SCREEN_MAX_X \in Nat
          /\ SCREEN_MAX_Y \in Nat
    BY <1>1, WindowIs
  <1>3. n < b - a + 1 /\ line < top + (d - c + 1)
    BY <1>1, WindowIs
  <1>4. PICK x0 \in Int, y0 \in Int : x0 = a + n /\ y0 = c + (line - top)
    OBVIOUS
  <1>5. x = x0 /\ y = y0
    BY <1>1, <1>4 DEF At
  <1>6. x0 \in a..b /\ y0 \in c..d
    BY <1>2, <1>3, <1>4
  <1>7. x0 \in 0..SCREEN_MAX_X /\ y0 \in 0..SCREEN_MAX_Y
    BY <1>2, <1>6
  <1>8. ASSUME NEW i \in Nat, NEW j \in Nat
        PROVE  (i = x0 /\ j = y0) <=> (top + j - c = line /\ i - a = n)
    BY <1>4
  <1>9. SameCell(s, x0, y0, n, line, top)
    <2>1. \A cell \in Columns \X Lines : cell[1] \in Nat /\ cell[2] \in Nat
      BY CellIs
    <2>2. \A cell : cell[1] = x0 /\ cell[2] = y0 => Inside(s, cell)
      BY <1>1, <1>6 DEF Inside
    <2> QED
      BY <1>1, <1>8, <2>1, <2>2 DEF SameCell
  <1> QED
    BY <1>5, <1>7, <1>9 DEF Columns, Lines

(***************************************************************************)
(* A cell is put.                                                          *)
(***************************************************************************)
LEMMA PutIs ==
  ASSUME NEW v, IsVideo(v), NEW x \in Columns, NEW y \in Lines, NEW c
  PROVE  /\ IsVideo(Written(v, x, y, c))
         /\ \A cell \in Columns \X Lines :
              Written(v, x, y, c)[cell] = IF cell[1] = x /\ cell[2] = y THEN c ELSE v[cell]
  <1>1. DOMAIN v = Columns \X Lines
    BY DEF IsVideo
  <1>2. <<x, y>> \in Columns \X Lines
    OBVIOUS
  <1>3. \A cell \in Columns \X Lines : cell = <<x, y>> <=> cell[1] = x /\ cell[2] = y
    OBVIOUS
  <1>4. \A cell \in Columns \X Lines :
              Written(v, x, y, c)[cell] = IF cell[1] = x /\ cell[2] = y THEN c ELSE v[cell]
    <2>1. \A cell \in Columns \X Lines : Written(v, x, y, c)[cell] = IF cell = <<x, y>> THEN c ELSE v[cell]
      BY <1>1, Zenon DEF Written
    <2> QED
      BY <1>3, <2>1
  <1>5. IsVideo(Written(v, x, y, c))
    BY <1>1, Zenon DEF IsVideo, Written
  <1> QED
    BY <1>4, <1>5

(***************************************************************************)
(* A letter goes to its place of the sheet.                                *)
(***************************************************************************)
LEMMA LetterPut ==
  ASSUME NEW s, IsWindow(s), NEW v, IsVideo(v), NEW t \in Seq(PrintChars), NEW c \in LETTERS,
         NEW top, NEW line, NEW column, NEW x, NEW y,
         Ends(s, t, line, column), Begins(s, Append(t, c), top), At(s, x, y, column, line, top),
         Shown(v, s, t, top)
  PROVE  x \in Columns /\ y \in Lines /\ IsVideo(Written(v, x, y, c))
           /\ Shown(Written(v, x, y, c), s, Append(t, c), top)
  <1>1. WidthOf(s) \in Nat \ {0} /\ HeightOf(s) \in Nat \ {0}
    BY WindowIs
  <1>2. c \in PrintChars /\ c # NEWLINE
    BY ConsoleAssumption DEF PrintChars
  <1>3. /\ line \in Nat /\ column \in Nat /\ column < WidthOf(s)
        /\ top \in Nat /\ top <= line /\ line < top + HeightOf(s)
    BY <1>1, <1>2, InSight DEF Ends, Begins
  <1>4. x \in Columns /\ y \in Lines /\ SameCell(s, x, y, column, line, top)
    BY <1>3, PlaceIs
  <1>5. /\ IsVideo(Written(v, x, y, c))
        /\ \A cell \in Columns \X Lines :
              Written(v, x, y, c)[cell] = IF cell[1] = x /\ cell[2] = y THEN c ELSE v[cell]
    BY <1>4, PutIs
  <1>6. \A cell \in Columns \X Lines :
          Written(v, x, y, c)[cell] = IF Inside(s, cell) THEN OnSheet(s, Append(t, c), top, cell) ELSE BLANK
    <2> TAKE cell \in Columns \X Lines
    <2>1. PICK l, k : l = top + cell[2] - s.min_y /\ k = cell[1] - s.min_x
      OBVIOUS
    <2>2. OnSheet(s, Append(t, c), top, cell) =
            IF Touches(Place(WidthOf(s), t), c, l, k) THEN c ELSE OnSheet(s, t, top, cell)
      BY <1>2, <2>1, SheetAppend DEF OnSheet, Place
    <2>3. Touches(Place(WidthOf(s), t), c, l, k) <=> line = l /\ column = k
      BY <1>2 DEF Touches, Ends
    <2>4. /\ (line = l /\ column = k) <=> (cell[1] = x /\ cell[2] = y)
          /\ cell[1] = x /\ cell[2] = y => Inside(s, cell)
      BY <1>4, <2>1 DEF SameCell
    <2>5. v[cell] = IF Inside(s, cell) THEN OnSheet(s, t, top, cell) ELSE BLANK
      BY DEF Shown
    <2>6. Written(v, x, y, c)[cell] = IF cell[1] = x /\ cell[2] = y THEN c ELSE v[cell]
      BY <1>5
    <2> QED
      BY <2>2, <2>3, <2>4, <2>5, <2>6
  <1> QED
    BY <1>4, <1>5, <1>6 DEF Shown

(***************************************************************************)
(* A carriage return leaves the sheet as it was.                           *)
(***************************************************************************)
LEMMA ReturnShows ==
  ASSUME NEW s, IsWindow(s), NEW v, NEW t \in Seq(PrintChars), NEW top, Shown(v, s, t, top)
  PROVE  Shown(v, s, Append(t, RETURN), top)
  <1>1. RETURN \in PrintChars /\ RETURN \notin LETTERS /\ RETURN # NEWLINE
    BY ConsoleAssumption DEF PrintChars, RETURN, NEWLINE
  <1>2. ASSUME NEW l, NEW k
        PROVE  Sheet(Pen(WidthOf(s), Append(t, RETURN)), Append(t, RETURN), l, k)
                 = Sheet(Pen(WidthOf(s), t), t, l, k)
    <2>1. ~ Touches(Pen(WidthOf(s), t)[Len(t)], RETURN, l, k)
      BY <1>1 DEF Touches
    <2> QED
      BY <1>1, <2>1, SheetAppend
  <1>3. \A cell : OnSheet(s, Append(t, RETURN), top, cell) = OnSheet(s, t, top, cell)
    BY <1>2 DEF OnSheet
  <1> QED
    BY <1>3 DEF Shown

(***************************************************************************)
(* Erasing begins with nothing.                                            *)
(***************************************************************************)
LEMMA EraseBegins ==
  ASSUME NEW s, IsWindow(s), NEW v, NEW t \in Seq(PrintChars), NEW top, Shown(v, s, t, top)
  PROVE  Erased(v, s, t, top, Place(WidthOf(s), t)[2])
  <1>1. PICK n : n = Place(WidthOf(s), t)[2]
    OBVIOUS
  <1>2. n \in Nat
    BY <1>1, WindowIs, PenPlaces DEF Place
  <1>3. \A cell \in Columns \X Lines : ~ (n <= cell[1] - s.min_x /\ cell[1] - s.min_x < n)
    BY <1>2, CellIs, WindowIs
  <1> QED
    BY <1>1, <1>3 DEF Shown, Erased

(***************************************************************************)
(* A blank erases one more cell.                                           *)
(***************************************************************************)
LEMMA BlankPut ==
  ASSUME NEW s, IsWindow(s), NEW v, IsVideo(v), NEW t \in Seq(PrintChars),
         NEW top, NEW line, NEW column, NEW n \in Nat, NEW x, NEW y,
         Ends(s, t, line, column), Begins(s, Append(t, NEWLINE), top), At(s, x, y, n, line, top),
         column <= n, n < WidthOf(s), Erased(v, s, t, top, n)
  PROVE  x \in Columns /\ y \in Lines /\ IsVideo(Written(v, x, y, BLANK))
           /\ Erased(Written(v, x, y, BLANK), s, t, top, n + 1)
  <1>1. WidthOf(s) \in Nat \ {0} /\ HeightOf(s) \in Nat \ {0}
    BY WindowIs
  <1>2. NEWLINE \in PrintChars
    BY DEF PrintChars
  <1>3. line \in Nat /\ column \in Nat /\ top \in Nat /\ top <= line /\ line < top + HeightOf(s)
    BY <1>1, <1>2, InSight DEF Ends, Begins
  <1>4. x \in Columns /\ y \in Lines /\ SameCell(s, x, y, n, line, top)
    BY <1>3, PlaceIs
  <1>5. /\ IsVideo(Written(v, x, y, BLANK))
        /\ \A cell \in Columns \X Lines :
              Written(v, x, y, BLANK)[cell] = IF cell[1] = x /\ cell[2] = y THEN BLANK ELSE v[cell]
    BY <1>4, PutIs
  <1>6. \A cell \in Columns \X Lines :
          Written(v, x, y, BLANK)[cell] =
            IF ~ Inside(s, cell) THEN BLANK
            ELSE IF top + cell[2] - s.min_y = line /\ column <= cell[1] - s.min_x
              /\ cell[1] - s.min_x < n + 1 THEN BLANK
            ELSE OnSheet(s, t, top, cell)
    <2> TAKE cell \in Columns \X Lines
    <2>1. PICK l, k \in Int : l = top + cell[2] - s.min_y /\ k = cell[1] - s.min_x
      <3>1. cell[1] \in Nat /\ cell[2] \in Nat /\ s.min_x \in Nat /\ s.min_y \in Nat
        BY CellIs, WindowIs
      <3>2. top + cell[2] - s.min_y \in Int /\ cell[1] - s.min_x \in Int
        BY <1>3, <3>1
      <3> QED
        BY <3>2
    <2>2. k < n + 1 <=> k < n \/ k = n
      OBVIOUS
    <2>3. (l = line /\ k = n) <=> (cell[1] = x /\ cell[2] = y)
      BY <1>4, <2>1 DEF SameCell
    <2>4. v[cell] =
            IF ~ Inside(s, cell) THEN BLANK
            ELSE IF l = line /\ column <= k /\ k < n THEN BLANK
            ELSE OnSheet(s, t, top, cell)
      BY <2>1 DEF Erased, Ends
    <2>5. Written(v, x, y, BLANK)[cell] = IF cell[1] = x /\ cell[2] = y THEN BLANK ELSE v[cell]
      BY <1>5
    <2>6. k = n => column <= k
      OBVIOUS
    <2> QED
      BY <2>1, <2>2, <2>3, <2>4, <2>5, <2>6
  <1> QED
    BY <1>4, <1>5, <1>6 DEF Erased, Ends

(***************************************************************************)
(* The line is erased when the cursor is behind the window.                *)
(***************************************************************************)
LEMMA EraseEnds ==
  ASSUME NEW s, IsWindow(s), NEW v, NEW t \in Seq(PrintChars), NEW top, Erased(v, s, t, top, WidthOf(s))
  PROVE  Shown(v, s, Append(t, NEWLINE), top)
  <1>1. NEWLINE \in PrintChars /\ NEWLINE \notin LETTERS
    BY ConsoleAssumption DEF PrintChars
  <1>2. PICK pos : pos = Place(WidthOf(s), t)
    OBVIOUS
  <1>3. \A cell \in Columns \X Lines :
          v[cell] = IF Inside(s, cell) THEN OnSheet(s, Append(t, NEWLINE), top, cell) ELSE BLANK
    <2> TAKE cell \in Columns \X Lines
    <2>1. cell[1] \in Nat /\ cell[2] \in Nat
      BY CellIs
    <2>2. PICK l, k : l = top + cell[2] - s.min_y /\ k = cell[1] - s.min_x
      OBVIOUS
    <2>3. OnSheet(s, Append(t, NEWLINE), top, cell) =
            IF Touches(pos, NEWLINE, l, k) THEN BLANK ELSE OnSheet(s, t, top, cell)
      BY <1>1, <1>2, <2>2, SheetAppend DEF OnSheet, Place
    <2>4. Touches(pos, NEWLINE, l, k) <=> l = pos[1] /\ pos[2] <= k
      BY <1>1 DEF Touches
    <2>5. Inside(s, cell) => k < WidthOf(s)
      <3>1. s.min_x \in Nat /\ s.max_x \in Nat /\ WidthOf(s) = s.max_x - s.min_x + 1
        BY WindowIs
      <3> QED
        BY <2>1, <2>2, <3>1 DEF Inside
    <2>6. v[cell] =
            IF ~ Inside(s, cell) THEN BLANK
            ELSE IF l = pos[1] /\ pos[2] <= k /\ k < WidthOf(s) THEN BLANK
            ELSE OnSheet(s, t, top, cell)
      BY <1>2, <2>2 DEF Erased
    <2> QED
      BY <2>3, <2>4, <2>5, <2>6
  <1> QED
    BY <1>3 DEF Shown

\* c_scroll by one line, and c_clearscroll, of screen v.
Rolled(v, s) ==
  [cell \in Columns \X Lines |->
    IF ~ Inside(s, cell) THEN v[cell]
    ELSE IF cell[2] + 1 <= s.max_y THEN v[<<cell[1], cell[2] + 1>>]
    ELSE BLANK]

Wiped(v, s) == [cell \in Columns \X Lines |-> IF Inside(s, cell) THEN BLANK ELSE v[cell]]

\* Nothing is written to a line.
EmptyLine(s, t, line) == \A k : Sheet(Pen(WidthOf(s), t), t, line, k) = BLANK

(***************************************************************************)
(* The window has more than one line and is scrolled by one: the line that *)
(* comes in is empty.                                                      *)
(***************************************************************************)
LEMMA RollShows ==
  ASSUME NEW s, IsWindow(s), NEW v, NEW t, NEW top \in Nat, Shown(v, s, t, top),
         EmptyLine(s, t, top + HeightOf(s))
  PROVE  IsVideo(Rolled(v, s)) /\ Shown(Rolled(v, s), s, t, top + 1)
  <1>1. PICK a \in Nat, b \in Nat, c \in Nat, d \in Nat :
          a = s.min_x /\ b = s.max_x /\ c = s.min_y /\ d = s.max_y
    BY WindowIs
  <1>2. a <= b /\ c <= d /\ b <= SCREEN_MAX_X /\ d <= SCREEN_MAX_Y /\ SCREEN_MAX_X \in Nat
          /\ SCREEN_MAX_Y \in Nat
        /\ HeightOf(s) = d - c + 1
    BY <1>1, WindowIs
  <1>3. \A cell \in Columns \X Lines :
          Rolled(v, s)[cell] = IF Inside(s, cell) THEN OnSheet(s, t, top + 1, cell) ELSE BLANK
    <2> TAKE cell \in Columns \X Lines
    <2>1. PICK i \in Nat, j \in Nat : i = cell[1] /\ j = cell[2] /\ i \in Columns /\ j \in Lines
      BY CellIs
    <2>2. Rolled(v, s)[cell] =
            IF ~ Inside(s, cell) THEN v[cell] ELSE IF j + 1 <= d THEN v[<<i, j + 1>>] ELSE BLANK
      BY <1>1, <2>1 DEF Rolled
    <2>3. Inside(s, cell) <=> i \in a..b /\ j \in c..d
      BY <1>1, <2>1 DEF Inside
    <2>4. CASE ~ Inside(s, cell)
      BY <2>2, <2>4 DEF Shown
    <2>5. CASE Inside(s, cell) /\ j + 1 <= d
      <3>1. j + 1 \in c..d /\ j + 1 \in 0..SCREEN_MAX_Y
        BY <1>2, <2>3, <2>5
      <3>2. PICK below : below = <<i, j + 1>>
        OBVIOUS
      <3>3. below \in Columns \X Lines /\ below[1] = i /\ below[2] = j + 1
        BY <2>1, <3>1, <3>2 DEF Lines
      <3>4. Inside(s, below)
        BY <1>1, <2>3, <2>5, <3>1, <3>3 DEF Inside
      <3>5. v[below] = OnSheet(s, t, top, below)
        BY <3>3, <3>4 DEF Shown
      <3>6. OnSheet(s, t, top, below) = OnSheet(s, t, top + 1, cell)
        <4>1. top + (j + 1) - c = (top + 1) + j - c
          OBVIOUS
        <4> QED
          BY <1>1, <2>1, <3>3, <4>1 DEF OnSheet
      <3> QED
        BY <2>2, <2>5, <3>2, <3>5, <3>6
    <2>6. CASE Inside(s, cell) /\ ~ (j + 1 <= d)
      <3>1. (top + 1) + j - c = top + (d - c + 1)
        BY <1>2, <2>3, <2>6
      <3>2. OnSheet(s, t, top + 1, cell) = BLANK
        BY <1>1, <1>2, <2>1, <3>1 DEF OnSheet, EmptyLine
      <3> QED
        BY <2>2, <2>6, <3>2
    <2> QED
      BY <2>4, <2>5, <2>6
  <1>4. IsVideo(Rolled(v, s))
    BY Zenon DEF IsVideo, Rolled
  <1> QED
    BY <1>3, <1>4 DEF Shown

(***************************************************************************)
(* The window has one line and is cleared.                                 *)
(***************************************************************************)
LEMMA WipeShows ==
  ASSUME NEW s, IsWindow(s), s.min_y = s.max_y, NEW v, NEW t, NEW top \in Nat, NEW old, Shown(v, s, t, old),
         EmptyLine(s, t, top)
  PROVE  IsVideo(Wiped(v, s)) /\ Shown(Wiped(v, s), s, t, top)
  <1>1. \A cell \in Columns \X Lines :
          Wiped(v, s)[cell] = IF Inside(s, cell) THEN OnSheet(s, t, top, cell) ELSE BLANK
    <2> TAKE cell \in Columns \X Lines
    <2>1. CASE ~ Inside(s, cell)
      BY <2>1 DEF Wiped, Shown
    <2>2. CASE Inside(s, cell)
      <3>1. PICK j \in Nat, c \in Nat : j = cell[2] /\ c = s.min_y
        BY CellIs, WindowIs
      <3>2. j = c
        BY <2>2, <3>1 DEF Inside
      <3>3. top + j - c = top
        BY <3>2
      <3>4. OnSheet(s, t, top, cell) = BLANK
        BY <3>1, <3>3 DEF OnSheet, EmptyLine
      <3> QED
        BY <2>2, <3>4 DEF Wiped
    <2> QED
      BY <2>1, <2>2
  <1>2. IsVideo(Wiped(v, s))
    BY Zenon DEF IsVideo, Wiped
  <1> QED
    BY <1>1, <1>2 DEF Shown

-----------------------------------------------------------------------------
(* How far a call is: it prints c, t has been printed before. *)

\* Nothing is under way.
Rests(v, s, x, y, t) ==
  \E line, column, old :
    Ends(s, t, line, column) /\ Begins(s, t, old) /\ Shown(v, s, t, old) /\ At(s, x, y, column, line, old)

\* The line of c is in sight.
Aimed(s, t, c, line, column, top) == Ends(s, t, line, column) /\ Begins(s, Append(t, c), top)

\* The window has been scrolled, and the cursor is to be put in its last line.
IsScrolled(v, s, x, t, c) ==
  \E line, column, top :
    /\ Aimed(s, t, c, line, column, top) /\ Shown(v, s, t, top)
    /\ x = s.min_x + column /\ line = top + (s.max_y - s.min_y)

\* The character is to be put.
IsPutting(v, s, x, y, t, c) ==
  /\ c # NEWLINE
  /\ \E line, column, top :
       Aimed(s, t, c, line, column, top) /\ Shown(v, s, t, top) /\ At(s, x, y, column, line, top)

\* A line is being erased, up to column n.
IsErasing(v, s, x, y, t, c) ==
  /\ c = NEWLINE
  /\ \E line, column, top : \E n \in Nat :
       /\ Aimed(s, t, c, line, column, top) /\ column <= n /\ n <= WidthOf(s)
       /\ Erased(v, s, t, top, n) /\ At(s, x, y, n, line, top)

\* The cursor has yet to move to the right, over a letter
IsPut(v, s, x, y, t, c) ==
  /\ c \in LETTERS
  /\ \E line, column, top :
       Aimed(s, t, c, line, column, top) /\ Shown(v, s, Append(t, c), top) /\ At(s, x, y, column, line, top)

\* and over an erased cell.
IsErased(v, s, x, y, t, c) ==
  /\ c = NEWLINE
  /\ \E line, column, top : \E n \in Nat :
       /\ Aimed(s, t, c, line, column, top) /\ column <= n /\ n < WidthOf(s)
       /\ Erased(v, s, t, top, n + 1) /\ At(s, x, y, n, line, top)

\* It has moved over a letter.
IsWrapping(v, s, x, y, t, c) ==
  /\ c \in LETTERS
  /\ \E line, column, top :
       Aimed(s, t, c, line, column, top) /\ Shown(v, s, Append(t, c), top)
         /\ At(s, x, y, column + 1, line, top)

\* It is in the first column, and has yet to move down.
IsReturned(v, s, x, y, t, c) ==
  \E line, column, top :
    /\ Aimed(s, t, c, line, column, top) /\ Shown(v, s, Append(t, c), top) /\ At(s, x, y, 0, line, top)
    /\ PenMove(WidthOf(s), Place(WidthOf(s), t), c) = <<line + 1, 0>>

(***************************************************************************)
(* A cursor below the window has the window scrolled by a line.            *)
(***************************************************************************)
LEMMA ScrollGoes ==
  ASSUME NEW s, IsWindow(s), NEW t \in Seq(PrintChars), NEW c \in PrintChars, NEW v, NEW x, NEW y,
         Rests(v, s, x, y, t), y > s.max_y
  PROVE  /\ y = s.max_y + 1
         /\ IF s.min_y < s.max_y THEN IsVideo(Rolled(v, s)) /\ IsScrolled(Rolled(v, s), s, x, t, c)
            ELSE IsVideo(Wiped(v, s)) /\ IsScrolled(Wiped(v, s), s, s.min_x, t, c)
  <1>1. PICK line, column, old :
          Ends(s, t, line, column) /\ Begins(s, t, old) /\ Shown(v, s, t, old)
            /\ At(s, x, y, column, line, old)
    BY DEF Rests
  <1>2. PICK w, h, top : w = WidthOf(s) /\ h = HeightOf(s) /\ Begins(s, Append(t, c), top)
    BY DEF Begins
  <1>3. w \in Nat \ {0} /\ h \in Nat \ {0}
    BY <1>2, WindowIs
  <1>4. Page(w, h, t, line, column, old, top)
    BY <1>1, <1>2, <1>3, PageFacts DEF Ends, Begins
  <1>5. PICK a \in Nat, b \in Nat, e \in Nat, d \in Nat :
          a = s.min_x /\ b = s.max_x /\ e = s.min_y /\ d = s.max_y
    BY WindowIs
  <1>6. h = d - e + 1 /\ e <= d
    BY <1>2, <1>5, WindowIs
  <1>7. /\ line \in Nat /\ old \in Nat /\ top \in Nat /\ old <= line /\ line <= old + h
        /\ line = old + h => column = 0 /\ top = old + 1 /\ \A k : Sheet(Pen(w, t), t, line, k) = BLANK
    BY <1>4 DEF Page
  <1>8. y = e + (line - old) /\ x = a + column
    BY <1>1, <1>5 DEF At
  <1>9. e + (line - old) > d
    BY <1>5, <1>8
  <1>10. line = old + h
    BY <1>6, <1>7, <1>9
  <1>11. y = d + 1
    <2>1. e + (line - old) = d + 1
      BY <1>6, <1>7, <1>10
    <2> QED
      BY <1>8, <2>1
  <1>12. top = old + 1 /\ column = 0 /\ EmptyLine(s, t, old + HeightOf(s))
           /\ Aimed(s, t, c, line, column, top)
    BY <1>1, <1>2, <1>7, <1>10 DEF EmptyLine, Aimed
  <1>13. line = top + (d - e)
    BY <1>6, <1>7, <1>10, <1>12
  <1>14. CASE e < d
    <2>1. IsVideo(Rolled(v, s)) /\ Shown(Rolled(v, s), s, t, top)
      BY <1>1, <1>7, <1>12, RollShows
    <2>2. IsScrolled(Rolled(v, s), s, x, t, c)
      BY <1>5, <1>8, <1>12, <1>13, <2>1 DEF IsScrolled
    <2> QED
      BY <1>5, <1>11, <1>14, <2>1, <2>2
  <1>15. CASE ~ (e < d)
    <2>1. e = d /\ h = 1
      BY <1>6, <1>15
    <2>2. EmptyLine(s, t, top) /\ s.min_y = s.max_y
      BY <1>2, <1>5, <1>12, <2>1
    <2>3. IsVideo(Wiped(v, s)) /\ Shown(Wiped(v, s), s, t, top)
      BY <1>1, <1>7, <2>2, WipeShows
    <2>4. a = a + column
      BY <1>12
    <2>5. IsScrolled(Wiped(v, s), s, s.min_x, t, c)
      BY <1>5, <1>12, <1>13, <2>3, <2>4 DEF IsScrolled
    <2> QED
      BY <1>5, <1>11, <1>15, <2>3, <2>5
  <1> QED
    BY <1>14, <1>15

(***************************************************************************)
(* A cursor in the window stays where it is.                               *)
(***************************************************************************)
LEMMA Stays ==
  ASSUME NEW s, IsWindow(s), NEW t \in Seq(PrintChars), NEW c \in PrintChars, NEW v, NEW x, NEW y,
         Rests(v, s, x, y, t), ~ (y > s.max_y)
  PROVE  IsPutting(v, s, x, y, t, c) \/ IsErasing(v, s, x, y, t, c)
  <1>1. PICK line, column, old :
          Ends(s, t, line, column) /\ Begins(s, t, old) /\ Shown(v, s, t, old)
            /\ At(s, x, y, column, line, old)
    BY DEF Rests
  <1>2. PICK w, h, top : w = WidthOf(s) /\ h = HeightOf(s) /\ Begins(s, Append(t, c), top)
    BY DEF Begins
  <1>3. w \in Nat \ {0} /\ h \in Nat \ {0}
    BY <1>2, WindowIs
  <1>4. Page(w, h, t, line, column, old, top)
    BY <1>1, <1>2, <1>3, PageFacts DEF Ends, Begins
  <1>5. PICK e \in Nat, d \in Nat : e = s.min_y /\ d = s.max_y
    BY WindowIs
  <1>6. h = d - e + 1 /\ e <= d
    BY <1>2, <1>5, WindowIs
  <1>7. /\ line \in Nat /\ old \in Nat /\ top \in Nat /\ column \in 0..(w - 1) /\ line <= old + h
        /\ line < old + h => top = old
    BY <1>4 DEF Page
  <1>8. y = e + (line - old)
    BY <1>1, <1>5 DEF At
  <1>9. ~ (e + (line - old) > d)
    BY <1>5, <1>8
  <1>10. line < old + h
    BY <1>6, <1>7, <1>9
  <1>11. Aimed(s, t, c, line, column, top) /\ Shown(v, s, t, top) /\ At(s, x, y, column, line, top)
    BY <1>1, <1>2, <1>7, <1>10 DEF Aimed
  <1>12. CASE c = NEWLINE
    <2>1. Erased(v, s, t, top, column)
      BY <1>11, EraseBegins DEF Aimed, Ends
    <2>2. column \in Nat /\ column <= WidthOf(s)
      BY <1>2, <1>3, <1>7
    <2>3. column <= column
      BY <2>2
    <2> QED
      BY <1>11, <1>12, <2>1, <2>2, <2>3 DEF IsErasing
  <1>13. CASE c # NEWLINE
    BY <1>11, <1>13 DEF IsPutting
  <1> QED
    BY <1>12, <1>13

(***************************************************************************)
(* Nor does the line it has been put in change.                            *)
(***************************************************************************)
LEMMA ScrolledGoes ==
  ASSUME NEW s, IsWindow(s), NEW t \in Seq(PrintChars), NEW c \in PrintChars, NEW v, NEW x,
         IsScrolled(v, s, x, t, c)
  PROVE  IsPutting(v, s, x, s.max_y, t, c) \/ IsErasing(v, s, x, s.max_y, t, c)
  <1>1. PICK line, column, top :
          /\ Aimed(s, t, c, line, column, top) /\ Shown(v, s, t, top)
          /\ x = s.min_x + column /\ line = top + (s.max_y - s.min_y)
    BY DEF IsScrolled
  <1>2. PICK w, h : w = WidthOf(s) /\ h = HeightOf(s)
    OBVIOUS
  <1>3. w \in Nat \ {0} /\ h \in Nat \ {0}
    BY <1>2, WindowIs
  <1>4. line \in Nat /\ column \in Nat /\ column < w /\ top \in Nat
    BY <1>1, <1>2, <1>3, InSight DEF Aimed, Ends, Begins
  <1>5. PICK e \in Nat, d \in Nat : e = s.min_y /\ d = s.max_y
    BY WindowIs
  <1>6. d = e + (line - top)
    <2>1. line = top + (d - e)
      BY <1>1, <1>5
    <2> QED
      BY <1>4, <1>5, <2>1, SMTT(30)
  <1>7. At(s, x, s.max_y, column, line, top)
    BY <1>1, <1>5, <1>6 DEF At
  <1>8. CASE c = NEWLINE
    <2>1. Erased(v, s, t, top, column)
      BY <1>1, EraseBegins DEF Aimed, Ends
    <2>2. column <= w /\ column <= column
      BY <1>3, <1>4
    <2> QED
      BY <1>1, <1>2, <1>4, <1>7, <1>8, <2>1, <2>2 DEF IsErasing
  <1>9. CASE c # NEWLINE
    BY <1>1, <1>7, <1>9 DEF IsPutting
  <1> QED
    BY <1>8, <1>9

(***************************************************************************)
(* The letter is put.                                                      *)
(***************************************************************************)
LEMMA LetterGoes ==
  ASSUME NEW s, IsWindow(s), NEW t \in Seq(PrintChars), NEW c \in PrintChars, NEW v, NEW x, NEW y,
         IsVideo(v), IsPutting(v, s, x, y, t, c), c \in LETTERS
  PROVE  x \in Columns /\ y \in Lines /\ IsVideo(Written(v, x, y, c))
           /\ IsPut(Written(v, x, y, c), s, x, y, t, c)
  <1>1. PICK line, column, top :
          Aimed(s, t, c, line, column, top) /\ Shown(v, s, t, top) /\ At(s, x, y, column, line, top)
    BY DEF IsPutting
  <1>2. /\ x \in Columns /\ y \in Lines /\ IsVideo(Written(v, x, y, c))
        /\ Shown(Written(v, x, y, c), s, Append(t, c), top)
    BY <1>1, LetterPut DEF Aimed
  <1> QED
    BY <1>1, <1>2 DEF IsPut

(***************************************************************************)
(* A carriage return ends in the first column.                             *)
(***************************************************************************)
LEMMA ReturnGoes ==
  ASSUME NEW s, IsWindow(s), NEW t \in Seq(PrintChars), NEW c \in PrintChars, NEW v, NEW x, NEW y,
         IsPutting(v, s, x, y, t, c), c = RETURN
  PROVE  Rests(v, s, s.min_x, y, Append(t, c))
  <1>1. PICK line, column, top :
          Aimed(s, t, c, line, column, top) /\ Shown(v, s, t, top) /\ At(s, x, y, column, line, top)
    BY DEF IsPutting
  <1>2. PICK w, h : w = WidthOf(s) /\ h = HeightOf(s)
    OBVIOUS
  <1>3. w \in Nat \ {0} /\ h \in Nat \ {0}
    BY <1>2, WindowIs
  <1>4. line \in Nat /\ column \in Nat /\ column < w /\ top \in Nat /\ top <= line
    BY <1>1, <1>2, <1>3, InSight DEF Aimed, Ends, Begins
  <1>5. PICK a \in Nat, b \in Nat, e \in Nat, d \in Nat :
          a = s.min_x /\ b = s.max_x /\ e = s.min_y /\ d = s.max_y /\ w = b - a + 1
    BY <1>2, WindowIs
  <1>6. Shown(v, s, Append(t, c), top) /\ Begins(s, Append(t, c), top)
    BY <1>1, ReturnShows DEF Aimed
  <1>7. Place(w, Append(t, c)) = <<line, 0>>
    <2>1. PICK pos : pos = Place(w, t)
      OBVIOUS
    <2>2. line = pos[1]
      BY <1>1, <1>2, <2>1 DEF Aimed, Ends
    <2>3. PenMove(w, pos, c) = <<line, 0>>
      BY <2>2 DEF PenMove, NEWLINE, RETURN
    <2> QED
      BY <2>1, <2>3, PlaceAppend
  <1>8. Ends(s, Append(t, c), line, 0)
    BY <1>2, <1>7 DEF Ends
  <1>9. At(s, s.min_x, y, 0, line, top)
    <2>1. a = a + 0
      OBVIOUS
    <2> QED
      BY <1>1, <1>5, <2>1 DEF At
  <1> QED
    BY <1>6, <1>8, <1>9 DEF Rests

(***************************************************************************)
(* A cell is erased.                                                       *)
(***************************************************************************)
LEMMA EraseGoes ==
  ASSUME NEW s, IsWindow(s), NEW t \in Seq(PrintChars), NEW c \in PrintChars, NEW v, NEW x, NEW y,
         IsVideo(v), IsErasing(v, s, x, y, t, c), x <= s.max_x
  PROVE  x \in Columns /\ y \in Lines /\ IsVideo(Written(v, x, y, BLANK))
           /\ IsErased(Written(v, x, y, BLANK), s, x, y, t, c)
  <1>1. PICK line, column, top : \E n \in Nat :
          /\ Aimed(s, t, c, line, column, top) /\ column <= n /\ n <= WidthOf(s)
          /\ Erased(v, s, t, top, n) /\ At(s, x, y, n, line, top)
    BY DEF IsErasing
  <1>2. PICK n \in Nat :
          /\ Aimed(s, t, c, line, column, top) /\ column <= n /\ n <= WidthOf(s)
          /\ Erased(v, s, t, top, n) /\ At(s, x, y, n, line, top)
    BY <1>1
  <1>3. PICK w, h : w = WidthOf(s) /\ h = HeightOf(s)
    OBVIOUS
  <1>4. w \in Nat \ {0} /\ h \in Nat \ {0}
    BY <1>3, WindowIs
  <1>5. line \in Nat /\ column \in Nat /\ column < w /\ top \in Nat /\ top <= line
    BY <1>2, <1>3, <1>4, InSight DEF Aimed, Ends, Begins
  <1>6. PICK a \in Nat, b \in Nat, e \in Nat, d \in Nat :
          a = s.min_x /\ b = s.max_x /\ e = s.min_y /\ d = s.max_y /\ w = b - a + 1
    BY <1>3, WindowIs
  <1>7. n < w
    <2>1. x = a + n
      BY <1>2, <1>6 DEF At
    <2>2. a + n <= b
      BY <1>6, <2>1
    <2> QED
      BY <1>6, <2>2
  <1>8. c = NEWLINE
    BY DEF IsErasing
  <1>9. /\ x \in Columns /\ y \in Lines /\ IsVideo(Written(v, x, y, BLANK))
        /\ Erased(Written(v, x, y, BLANK), s, t, top, n + 1)
    BY <1>2, <1>3, <1>7, <1>8, BlankPut DEF Aimed
  <1> QED
    BY <1>2, <1>3, <1>7, <1>8, <1>9 DEF IsErased

(***************************************************************************)
(* The line is erased.                                                     *)
(***************************************************************************)
LEMMA EraseDone ==
  ASSUME NEW s, IsWindow(s), NEW t \in Seq(PrintChars), NEW c \in PrintChars, NEW v, NEW x, NEW y,
         IsErasing(v, s, x, y, t, c), x > s.max_x
  PROVE  IsReturned(v, s, s.min_x, y, t, c)
  <1>1. PICK line, column, top : \E n \in Nat :
          /\ Aimed(s, t, c, line, column, top) /\ column <= n /\ n <= WidthOf(s)
          /\ Erased(v, s, t, top, n) /\ At(s, x, y, n, line, top)
    BY DEF IsErasing
  <1>2. PICK n \in Nat :
          /\ Aimed(s, t, c, line, column, top) /\ column <= n /\ n <= WidthOf(s)
          /\ Erased(v, s, t, top, n) /\ At(s, x, y, n, line, top)
    BY <1>1
  <1>3. PICK w, h : w = WidthOf(s) /\ h = HeightOf(s)
    OBVIOUS
  <1>4. w \in Nat \ {0} /\ h \in Nat \ {0}
    BY <1>3, WindowIs
  <1>5. line \in Nat /\ column \in Nat /\ column < w /\ top \in Nat /\ top <= line
    BY <1>2, <1>3, <1>4, InSight DEF Aimed, Ends, Begins
  <1>6. PICK a \in Nat, b \in Nat, e \in Nat, d \in Nat :
          a = s.min_x /\ b = s.max_x /\ e = s.min_y /\ d = s.max_y /\ w = b - a + 1
    BY <1>3, WindowIs
  <1>7. n = w
    <2>1. x = a + n /\ n <= w
      BY <1>2, <1>3, <1>6 DEF At
    <2>2. a + n > b
      BY <1>6, <2>1
    <2> QED
      BY <1>4, <1>6, <2>1, <2>2
  <1>8. c = NEWLINE
    BY DEF IsErasing
  <1>9. Shown(v, s, Append(t, c), top)
    BY <1>2, <1>3, <1>7, <1>8, EraseEnds
  <1>10. At(s, s.min_x, y, 0, line, top)
    <2>1. a = a + 0
      OBVIOUS
    <2> QED
      BY <1>2, <1>6, <2>1 DEF At
  <1>11. PenMove(WidthOf(s), Place(WidthOf(s), t), c) = <<line + 1, 0>>
    BY <1>2, <1>8 DEF PenMove, Aimed, Ends, NEWLINE, RETURN
  <1> QED
    BY <1>2, <1>9, <1>10, <1>11 DEF IsReturned

(***************************************************************************)
(* The cursor moves to the right.                                          *)
(***************************************************************************)
LEMMA MoveGoes ==
  ASSUME NEW s, IsWindow(s), NEW t \in Seq(PrintChars), NEW c \in PrintChars, NEW v, NEW x, NEW y,
         NEW x1, x1 = x + 1, x \in Nat
  PROVE  /\ IsPut(v, s, x, y, t, c) => IsWrapping(v, s, x1, y, t, c)
         /\ IsErased(v, s, x, y, t, c) => IsErasing(v, s, x1, y, t, c)
  <1>1. PICK a \in Nat : a = s.min_x
    BY WindowIs
  <1>2. ASSUME NEW n \in Nat, NEW line, NEW top, At(s, x, y, n, line, top)
        PROVE  At(s, x1, y, n + 1, line, top)
    <2>1. x = a + n
      BY <1>1, <1>2 DEF At
    <2>2. x + 1 = a + (n + 1)
      BY <2>1
    <2> QED
      BY <1>1, <1>2, <2>2 DEF At
  <1>3. ASSUME IsPut(v, s, x, y, t, c)
        PROVE  IsWrapping(v, s, x1, y, t, c)
    <2>1. PICK line, column, top :
            Aimed(s, t, c, line, column, top) /\ Shown(v, s, Append(t, c), top)
              /\ At(s, x, y, column, line, top)
      BY <1>3 DEF IsPut
    <2>2. WidthOf(s) \in Nat \ {0} /\ HeightOf(s) \in Nat \ {0}
      BY WindowIs
    <2>3. column \in Nat
      BY <2>1, <2>2, InSight DEF Aimed, Ends, Begins
    <2> QED
      BY <1>2, <1>3, <2>1, <2>3 DEF IsPut, IsWrapping
  <1>4. ASSUME IsErased(v, s, x, y, t, c)
        PROVE  IsErasing(v, s, x1, y, t, c)
    <2>1. PICK line, column, top : \E n \in Nat :
            /\ Aimed(s, t, c, line, column, top) /\ column <= n /\ n < WidthOf(s)
            /\ Erased(v, s, t, top, n + 1) /\ At(s, x, y, n, line, top)
      BY <1>4 DEF IsErased
    <2>2. PICK n \in Nat :
            /\ Aimed(s, t, c, line, column, top) /\ column <= n /\ n < WidthOf(s)
            /\ Erased(v, s, t, top, n + 1) /\ At(s, x, y, n, line, top)
      BY <2>1
    <2>3. PICK w, h : w = WidthOf(s) /\ h = HeightOf(s)
      OBVIOUS
    <2>4. w \in Nat \ {0} /\ h \in Nat \ {0}
      BY <2>3, WindowIs
    <2>5. column \in Nat
      BY <2>2, <2>3, <2>4, InSight DEF Aimed, Ends, Begins
    <2>6. n + 1 \in Nat /\ column <= n + 1 /\ n + 1 <= w
      BY <2>2, <2>3, <2>4, <2>5
    <2>7. At(s, x1, y, n + 1, line, top)
      BY <1>2, <2>2
    <2> QED
      BY <1>4, <2>2, <2>3, <2>6, <2>7 DEF IsErased, IsErasing
  <1> QED
    BY <1>3, <1>4

(***************************************************************************)
(* A letter leads to the next column or to the next line.                  *)
(***************************************************************************)
LEMMA WrapGoes ==
  ASSUME NEW s, IsWindow(s), NEW t \in Seq(PrintChars), NEW c \in PrintChars, NEW v, NEW x, NEW y,
         IsWrapping(v, s, x, y, t, c)
  PROVE  IF x > s.max_x THEN IsReturned(v, s, s.min_x, y, t, c) ELSE Rests(v, s, x, y, Append(t, c))
  <1>1. PICK line, column, top :
          Aimed(s, t, c, line, column, top) /\ Shown(v, s, Append(t, c), top)
            /\ At(s, x, y, column + 1, line, top)
    BY DEF IsWrapping
  <1>2. PICK w, h : w = WidthOf(s) /\ h = HeightOf(s)
    OBVIOUS
  <1>3. w \in Nat \ {0} /\ h \in Nat \ {0}
    BY <1>2, WindowIs
  <1>4. line \in Nat /\ column \in Nat /\ column < w /\ top \in Nat /\ top <= line
    BY <1>1, <1>2, <1>3, InSight DEF Aimed, Ends, Begins
  <1>5. PICK a \in Nat, b \in Nat, e \in Nat, d \in Nat :
          a = s.min_x /\ b = s.max_x /\ e = s.min_y /\ d = s.max_y /\ w = b - a + 1
    BY <1>2, WindowIs
  <1>6. c \in LETTERS /\ c # NEWLINE /\ c # RETURN
    BY ConsoleAssumption DEF IsWrapping
  <1>7. PICK pos : pos = Place(w, t)
    OBVIOUS
  <1>8. line = pos[1] /\ column = pos[2]
    BY <1>1, <1>2, <1>7 DEF Aimed, Ends
  <1>9. PenMove(w, pos, c) = IF column = w - 1 THEN <<line + 1, 0>> ELSE <<line, column + 1>>
    BY <1>6, <1>8 DEF PenMove
  <1>10. x = a + (column + 1)
    BY <1>1, <1>5 DEF At
  <1>11. x > b <=> column = w - 1
    <2>1. w \in Nat /\ column + 1 <= w
      BY <1>3, <1>4
    <2>2. a + (column + 1) > b <=> column = w - 1
      <3>1. column = w - 1 => a + (column + 1) > b
        BY <1>4, <1>5, <2>1
      <3>2. column # w - 1 => column + 1 <= b - a
        BY <1>4, <1>5, <2>1, SMTT(30)
      <3>3. column + 1 <= b - a => ~ (a + (column + 1) > b)
        BY <1>4, <1>5
      <3> QED
        BY <3>1, <3>2, <3>3
    <2> QED
      BY <1>10, <2>2
  <1>12. CASE column = w - 1
    <2>1. At(s, s.min_x, y, 0, line, top)
      <3>1. a = a + 0
        OBVIOUS
      <3> QED
        BY <1>1, <1>5, <3>1 DEF At
    <2>2. IsReturned(v, s, s.min_x, y, t, c)
      BY <1>1, <1>2, <1>7, <1>9, <1>12, <2>1 DEF IsReturned
    <2> QED
      BY <1>5, <1>11, <1>12, <2>2
  <1>13. CASE column # w - 1
    <2>1. Place(w, Append(t, c)) = <<line, column + 1>>
      BY <1>7, <1>9, <1>13, PlaceAppend
    <2>2. Ends(s, Append(t, c), line, column + 1)
      BY <1>2, <2>1 DEF Ends
    <2>3. Rests(v, s, x, y, Append(t, c))
      BY <1>1, <2>2 DEF Rests, Aimed
    <2> QED
      BY <1>5, <1>11, <1>13, <2>3
  <1> QED
    BY <1>12, <1>13

(***************************************************************************)
(* The cursor moves down.                                                  *)
(***************************************************************************)
LEMMA DownGoes ==
  ASSUME NEW s, IsWindow(s), NEW t \in Seq(PrintChars), NEW c \in PrintChars, NEW v, NEW x, NEW y,
         IsReturned(v, s, x, y, t, c), NEW y1, y1 = y + 1, y \in Nat
  PROVE  Rests(v, s, x, y1, Append(t, c))
  <1>1. PICK line, column, top :
          /\ Aimed(s, t, c, line, column, top) /\ Shown(v, s, Append(t, c), top) /\ At(s, x, y, 0, line, top)
          /\ PenMove(WidthOf(s), Place(WidthOf(s), t), c) = <<line + 1, 0>>
    BY DEF IsReturned
  <1>2. PICK w, h : w = WidthOf(s) /\ h = HeightOf(s)
    OBVIOUS
  <1>3. w \in Nat \ {0} /\ h \in Nat \ {0}
    BY <1>2, WindowIs
  <1>4. line \in Nat /\ column \in Nat /\ column < w /\ top \in Nat /\ top <= line
    BY <1>1, <1>2, <1>3, InSight DEF Aimed, Ends, Begins
  <1>5. PICK a \in Nat, b \in Nat, e \in Nat, d \in Nat :
          a = s.min_x /\ b = s.max_x /\ e = s.min_y /\ d = s.max_y /\ w = b - a + 1
    BY <1>2, WindowIs
  <1>6. Place(w, Append(t, c)) = <<line + 1, 0>>
    BY <1>1, <1>2, PlaceAppend
  <1>7. Ends(s, Append(t, c), line + 1, 0)
    BY <1>2, <1>6 DEF Ends
  <1>8. At(s, x, y1, 0, line + 1, top)
    <2>1. y = e + (line - top)
      BY <1>1, <1>5 DEF At
    <2>2. y + 1 = e + ((line + 1) - top)
      BY <1>4, <2>1
    <2> QED
      BY <1>1, <1>5, <2>2 DEF At
  <1> QED
    BY <1>1, <1>7, <1>8 DEF Rests, Aimed

-----------------------------------------------------------------------------
(* The page: what the invariant says of screen, text and calls *)

FrameInv == IsVideo(video) /\ IsWindow(scroll)

\* How far a call of c_putchar is that stands at `at'.
Stage(at, loaded, c, v, s, x, y, t) ==
  \/ at = "scroll" /\ Rests(v, s, x, y, t) /\ y > s.max_y
  \/ at = "scrolled" /\ IsScrolled(v, s, x, t, c)
  \/ at = "put" /\ (IsPutting(v, s, x, y, t, c) \/ IsErasing(v, s, x, y, t, c))
  \/ at = "load x" /\ (IsPut(v, s, x, y, t, c) \/ IsErased(v, s, x, y, t, c))
  \/ at = "store x" /\ (IsPut(v, s, x, y, t, c) \/ IsErased(v, s, x, y, t, c)) /\ loaded = x
  \/ at = "wrap" /\ IsWrapping(v, s, x, y, t, c)
  \/ at = "load y" /\ IsReturned(v, s, x, y, t, c)
  \/ at = "store y" /\ IsReturned(v, s, x, y, t, c) /\ loaded = y

\* p prints the last character of the text, and nobody else prints.
Busy(p, t) ==
  /\ call[p].at # "idle" /\ (\A q \in PRINTERS \ {p} : call[q].at = "idle")
  /\ call[p].char \in PrintChars /\ text = Append(t, call[p].char)
  /\ Stage(call[p].at, call[p].loaded, call[p].char, video, scroll, curr_x, curr_y, t)

\* Nobody prints, and what is shown is the text.
Resting == NobodyPrints /\ text \in Seq(PrintChars) /\ Rests(video, scroll, curr_x, curr_y, text)

TextInv == mixed \/ Resting \/ \E p \in PRINTERS, t \in Seq(PrintChars) : Busy(p, t)

PageInv == ConsoleInv /\ FrameInv /\ TextInv

(***************************************************************************)
(* Screen and window stay what they are.                                   *)
(***************************************************************************)
LEMMA FrameStep ==
  ASSUME FrameInv, [ConsoleNext(PRINTERS, PrintChars)]_consoleVars
  PROVE  FrameInv'
  <1>1. IsVideo(video) /\ DOMAIN video = Columns \X Lines /\ IsWindow(scroll)
    BY DEF FrameInv, IsVideo
  <1>2. scroll' = scroll
    BY DEF ConsoleNext, PutcharStep, ConsoleAtBound, consoleVars, PutcharBegin, PutcharScrolls,
           PutcharScrolled, PutcharPuts, PutcharReturns, PutcharLoadsX, PutcharStoresX, PutcharWraps,
           PutcharLoadsY, PutcharStoresY
  <1>3. \/ video' = video
        \/ \E p \in PRINTERS : PutcharScrolls(p) \/ PutcharPuts(p)
    BY DEF ConsoleNext, PutcharStep, ConsoleAtBound, consoleVars, PutcharBegin, PutcharScrolled,
           PutcharReturns, PutcharLoadsX, PutcharStoresX, PutcharWraps, PutcharLoadsY, PutcharStoresY
  <1>4. IsVideo(video')
    <2>1. CASE video' = video
      BY <1>1, <2>1
    <2>2. ASSUME NEW p \in PRINTERS, PutcharScrolls(p)
          PROVE  IsVideo(video')
      <3>1. (\E lines : video' = Scrolled(lines)) \/ video' = Cleared
        BY <2>2 DEF PutcharScrolls
      <3>2. ASSUME NEW lines, video' = Scrolled(lines)
            PROVE  IsVideo(video')
        BY <1>1, <3>2, Zenon DEF Scrolled, IsVideo
      <3>3. ASSUME video' = Cleared
            PROVE  IsVideo(video')
        BY <1>1, <3>3, Zenon DEF Cleared, IsVideo
      <3> QED
        BY <3>1, <3>2, <3>3
    <2>3. ASSUME NEW p \in PRINTERS, PutcharPuts(p)
          PROVE  IsVideo(video')
      <3>1. PICK c : PutAt(curr_x, curr_y, c)
        BY <2>3 DEF PutcharPuts
      <3>2. video' = video \/ video' = [video EXCEPT ![<<curr_x, curr_y>>] = c]
        BY <3>1 DEF PutAt
      <3>3. ASSUME video' = [video EXCEPT ![<<curr_x, curr_y>>] = c]
            PROVE  IsVideo(video')
        BY <1>1, <3>3, Zenon DEF IsVideo
      <3> QED
        BY <1>1, <3>2, <3>3
    <2> QED
      BY <1>3, <2>1, <2>2, <2>3
  <1> QED
    BY <1>1, <1>2, <1>4 DEF FrameInv

(***************************************************************************)
(* A call that is not interrupted goes on, or is over.                     *)
(***************************************************************************)
LEMMA BusyGoesOn ==
  ASSUME NEW p \in PRINTERS, NEW t \in Seq(PrintChars), Busy(p, t), NEW r, call \in [PRINTERS -> CallRecords],
         call' = [call EXCEPT ![p] = r], r.at # "idle", r.char = call[p].char, text' = text,
         Stage(r.at, r.loaded, r.char, video', scroll', curr_x', curr_y', t)
  PROVE  TextInv'
  <1>1. call'[p] = r /\ \A q \in PRINTERS \ {p} : call'[q] = call[q]
    OBVIOUS
  <1>2. Busy(p, t)'
    BY <1>1 DEF Busy
  <1> QED
    BY <1>2 DEF TextInv

(***************************************************************************)
(* Or it is over, and the page is at rest with one more character.         *)
(***************************************************************************)
LEMMA BusyEnds ==
  ASSUME NEW p \in PRINTERS, NEW t \in Seq(PrintChars), Busy(p, t), call \in [PRINTERS -> CallRecords],
         call' = [call EXCEPT ![p] = NotPrinting], text' = text,
         Rests(video', scroll', curr_x', curr_y', Append(t, call[p].char))
  PROVE  TextInv'
  <1>1. call'[p] = NotPrinting /\ \A q \in PRINTERS \ {p} : call'[q] = call[q]
    OBVIOUS
  <1>2. NobodyPrints'
    BY <1>1 DEF NobodyPrints, NotPrinting, Busy
  <1>3. text' = Append(t, call[p].char) /\ text' \in Seq(PrintChars)
    BY DEF Busy
  <1>4. Resting'
    BY <1>2, <1>3 DEF Resting
  <1> QED
    BY <1>4 DEF TextInv

(***************************************************************************)
(* A step of a call changes where it is, and not its character.            *)
(***************************************************************************)
LEMMA Moves ==
  ASSUME call \in [PRINTERS -> CallRecords], NEW p \in PRINTERS, NEW at,
         call' = [call EXCEPT ![p] = [@ EXCEPT !.at = at]]
  PROVE  \E r : call' = [call EXCEPT ![p] = r] /\ r.at = at /\ r.char = call[p].char
  <1> DEFINE r == [call[p] EXCEPT !.at = at]
  <1>1. call[p] \in CallRecords
    OBVIOUS
  <1>2. r.at = at /\ r.char = call[p].char
    BY <1>1 DEF CallRecords
  <1>3. call' = [call EXCEPT ![p] = r]
    OBVIOUS
  <1> QED
    BY <1>2, <1>3

(***************************************************************************)
(* The same, with Goto.                                                    *)
(***************************************************************************)
LEMMA GoesTo ==
  ASSUME call \in [PRINTERS -> CallRecords], NEW p \in PRINTERS, NEW at, at # "idle", Goto(p, at)
  PROVE  \E r : call' = [call EXCEPT ![p] = r] /\ r.at = at /\ r.char = call[p].char
  BY Moves DEF Goto

\* What is known while p prints undisturbed.
Undisturbed(p, t) == PageInv /\ ~ mixed /\ p \in PRINTERS /\ t \in Seq(PrintChars) /\ Busy(p, t)

(***************************************************************************)
(* What is known while p prints undisturbed.                               *)
(***************************************************************************)
LEMMA BusyFacts ==
  ASSUME NEW p, NEW t, Undisturbed(p, t)
  PROVE  /\ p \in PRINTERS /\ t \in Seq(PrintChars) /\ Busy(p, t) /\ call \in [PRINTERS -> CallRecords]
         /\ call[p].char \in PrintChars
         /\ Stage(call[p].at, call[p].loaded, call[p].char, video, scroll, curr_x, curr_y, t)
         /\ IsVideo(video) /\ DOMAIN video = Columns \X Lines /\ IsWindow(scroll)
         /\ curr_x \in Nat /\ curr_y \in Nat
  BY CursorFacts DEF Undisturbed, PageInv, FrameInv, Busy, IsVideo

(***************************************************************************)
(* The window is scrolled.                                                 *)
(***************************************************************************)
LEMMA ShownScrolls ==
  ASSUME NEW p, NEW t, Undisturbed(p, t), PutcharScrolls(p) \/ PutcharScrolled(p)
  PROVE  TextInv'
  <1>1. /\ p \in PRINTERS /\ t \in Seq(PrintChars) /\ Busy(p, t) /\ call \in [PRINTERS -> CallRecords]
        /\ call[p].char \in PrintChars
        /\ Stage(call[p].at, call[p].loaded, call[p].char, video, scroll, curr_x, curr_y, t)
        /\ IsVideo(video) /\ DOMAIN video = Columns \X Lines /\ IsWindow(scroll)
    BY BusyFacts
  <1>2. CASE PutcharScrolls(p)
    <2>1. call[p].at = "scroll" /\ scroll' = scroll /\ text' = text /\ Goto(p, "scrolled")
          /\ IF curr_y - scroll.max_y \in 0..(scroll.max_y - scroll.min_y)
             THEN video' = Scrolled(curr_y - scroll.max_y) /\ curr_x' = curr_x
             ELSE video' = Cleared /\ curr_x' = scroll.min_x
      BY <1>2 DEF PutcharScrolls
    <2>2. Rests(video, scroll, curr_x, curr_y, t) /\ curr_y > scroll.max_y
      BY <1>1, <2>1 DEF Stage
    <2>3. /\ curr_y = scroll.max_y + 1
          /\ IF scroll.min_y < scroll.max_y
             THEN IsScrolled(Rolled(video, scroll), scroll, curr_x, t, call[p].char)
             ELSE IsScrolled(Wiped(video, scroll), scroll, scroll.min_x, t, call[p].char)
      BY <1>1, <2>2, ScrollGoes
    <2>4. scroll.min_y \in Nat /\ scroll.max_y \in Nat /\ scroll.min_y <= scroll.max_y
      BY <1>1, WindowIs
    <2>5. curr_y - scroll.max_y = 1
      BY <2>3, <2>4
    <2>6. \A cell : InWindow(cell) <=> Inside(scroll, cell)
      BY DEF InWindow, Inside
    <2>7. Scrolled(1) = Rolled(video, scroll)
      BY <1>1, <2>6 DEF Scrolled, Rolled
    <2>8. Cleared = Wiped(video, scroll)
      BY <1>1, <2>6 DEF Cleared, Wiped
    <2>9. 1 \in 0..(scroll.max_y - scroll.min_y) <=> scroll.min_y < scroll.max_y
      BY <2>4
    <2>10. IsScrolled(video', scroll', curr_x', t, call[p].char)
      <3>1. CASE scroll.min_y < scroll.max_y
        BY <2>1, <2>3, <2>5, <2>7, <2>9, <3>1
      <3>2. CASE ~ (scroll.min_y < scroll.max_y)
        BY <2>1, <2>3, <2>5, <2>8, <2>9, <3>2
      <3> QED
        BY <3>1, <3>2
    <2>11. PICK r : call' = [call EXCEPT ![p] = r] /\ r.at = "scrolled" /\ r.char = call[p].char
      BY <1>1, <2>1, GoesTo
    <2>12. Stage(r.at, r.loaded, r.char, video', scroll', curr_x', curr_y', t)
      BY <2>10, <2>11 DEF Stage
    <2> QED
      BY <1>1, <2>1, <2>11, <2>12, BusyGoesOn
  <1>3. CASE PutcharScrolled(p)
    <2>1. call[p].at = "scrolled" /\ scroll' = scroll /\ text' = text /\ Goto(p, "put")
          /\ video' = video /\ curr_x' = curr_x /\ curr_y' = scroll.max_y
      BY <1>3 DEF PutcharScrolled
    <2>2. IsScrolled(video, scroll, curr_x, t, call[p].char)
      BY <1>1, <2>1 DEF Stage
    <2>3. \/ IsPutting(video, scroll, curr_x, scroll.max_y, t, call[p].char)
          \/ IsErasing(video, scroll, curr_x, scroll.max_y, t, call[p].char)
      BY <1>1, <2>2, ScrolledGoes
    <2>4. PICK r : call' = [call EXCEPT ![p] = r] /\ r.at = "put" /\ r.char = call[p].char
      BY <1>1, <2>1, GoesTo
    <2>5. Stage(r.at, r.loaded, r.char, video', scroll', curr_x', curr_y', t)
      BY <2>1, <2>3, <2>4 DEF Stage
    <2> QED
      BY <1>1, <2>1, <2>4, <2>5, BusyGoesOn
  <1> QED
    BY <1>2, <1>3

(***************************************************************************)
(* Something is put, or nothing is left to put.                            *)
(***************************************************************************)
LEMMA ShownPuts ==
  ASSUME NEW p, NEW t, Undisturbed(p, t), PutcharPuts(p) \/ PutcharReturns(p)
  PROVE  TextInv'
  <1>1. /\ p \in PRINTERS /\ t \in Seq(PrintChars) /\ Busy(p, t) /\ call \in [PRINTERS -> CallRecords]
        /\ call[p].char \in PrintChars
        /\ Stage(call[p].at, call[p].loaded, call[p].char, video, scroll, curr_x, curr_y, t)
        /\ IsVideo(video) /\ DOMAIN video = Columns \X Lines /\ IsWindow(scroll)
    BY BusyFacts
  <1>2. call[p].at = "put" /\ scroll' = scroll /\ text' = text
    BY DEF PutcharPuts, PutcharReturns
  <1>3. \/ IsPutting(video, scroll, curr_x, curr_y, t, call[p].char)
        \/ IsErasing(video, scroll, curr_x, curr_y, t, call[p].char)
    BY <1>1, <1>2 DEF Stage
  <1>4. NEWLINE \notin LETTERS /\ RETURN \notin LETTERS /\ NEWLINE # RETURN
    BY ConsoleAssumption DEF NEWLINE, RETURN
  <1>5. CASE PutcharPuts(p)
    <2>1. /\ call[p].char \in LETTERS \/ (call[p].char = NEWLINE /\ curr_x <= scroll.max_x)
          /\ PutAt(curr_x, curr_y, IF call[p].char = NEWLINE THEN BLANK ELSE call[p].char)
          /\ curr_x' = curr_x /\ curr_y' = curr_y
      BY <1>5 DEF PutcharPuts
    <2>2. PICK r : call' = [call EXCEPT ![p] = r] /\ r.at = "load x" /\ r.char = call[p].char
      <3>1. call' = [call EXCEPT ![p] = [@ EXCEPT !.at = "load x"]]
        BY <1>5 DEF PutcharPuts, Goto
      <3> QED
        BY <1>1, <3>1, Moves
    <2>3. \/ IsPut(video', scroll, curr_x, curr_y, t, call[p].char)
          \/ IsErased(video', scroll, curr_x, curr_y, t, call[p].char)
      <3>1. CASE call[p].char \in LETTERS
        <4>1. IsPutting(video, scroll, curr_x, curr_y, t, call[p].char) /\ call[p].char # NEWLINE
          BY <1>3, <1>4, <3>1 DEF IsErasing
        <4>2. /\ curr_x \in Columns /\ curr_y \in Lines
              /\ IsPut(Written(video, curr_x, curr_y, call[p].char), scroll, curr_x, curr_y, t, call[p].char)
          BY <1>1, <3>1, <4>1, LetterGoes
        <4>3. video' = Written(video, curr_x, curr_y, call[p].char)
          BY <1>1, <2>1, <4>1, <4>2 DEF PutAt, Written
        <4> QED
          BY <4>2, <4>3
      <3>2. CASE call[p].char = NEWLINE /\ curr_x <= scroll.max_x
        <4>1. IsErasing(video, scroll, curr_x, curr_y, t, call[p].char)
          BY <1>3, <3>2 DEF IsPutting
        <4>2. /\ curr_x \in Columns /\ curr_y \in Lines
              /\ IsErased(Written(video, curr_x, curr_y, BLANK), scroll, curr_x, curr_y, t, call[p].char)
          BY <1>1, <3>2, <4>1, EraseGoes
        <4>3. video' = Written(video, curr_x, curr_y, BLANK)
          BY <1>1, <2>1, <3>2, <4>2 DEF PutAt, Written
        <4> QED
          BY <4>2, <4>3
      <3> QED
        BY <2>1, <3>1, <3>2
    <2>4. Stage(r.at, r.loaded, r.char, video', scroll', curr_x', curr_y', t)
      BY <1>2, <2>1, <2>2, <2>3 DEF Stage
    <2> QED
      BY <1>1, <1>2, <2>2, <2>4, BusyGoesOn
  <1>6. CASE PutcharReturns(p)
    <2>1. /\ call[p].char = RETURN \/ (call[p].char = NEWLINE /\ curr_x > scroll.max_x)
          /\ curr_x' = scroll.min_x /\ curr_y' = curr_y /\ video' = video
          /\ Goto(p, IF call[p].char = RETURN THEN "idle" ELSE "load y")
      BY <1>6 DEF PutcharReturns
    <2>2. CASE call[p].char = RETURN
      <3>1. IsPutting(video, scroll, curr_x, curr_y, t, call[p].char)
        BY <1>3, <1>4, <2>2 DEF IsErasing
      <3>2. Rests(video, scroll, scroll.min_x, curr_y, Append(t, call[p].char))
        BY <1>1, <2>2, <3>1, ReturnGoes
      <3>3. call' = [call EXCEPT ![p] = NotPrinting]
        BY <2>1, <2>2 DEF Goto
      <3> QED
        BY <1>1, <1>2, <2>1, <3>2, <3>3, BusyEnds
    <2>3. CASE call[p].char = NEWLINE /\ curr_x > scroll.max_x
      <3>1. IsErasing(video, scroll, curr_x, curr_y, t, call[p].char)
        BY <1>3, <2>3 DEF IsPutting
      <3>2. IsReturned(video, scroll, scroll.min_x, curr_y, t, call[p].char)
        BY <1>1, <2>3, <3>1, EraseDone
      <3>3. call' = [call EXCEPT ![p] = [@ EXCEPT !.at = "load y"]]
        BY <1>4, <2>1, <2>3 DEF Goto
      <3>4. PICK r : call' = [call EXCEPT ![p] = r] /\ r.at = "load y" /\ r.char = call[p].char
        BY <1>1, <3>3, Moves
      <3>5. Stage(r.at, r.loaded, r.char, video', scroll', curr_x', curr_y', t)
        BY <1>2, <2>1, <3>2, <3>4 DEF Stage
      <3> QED
        BY <1>1, <1>2, <3>4, <3>5, BusyGoesOn
    <2> QED
      BY <2>1, <2>2, <2>3
  <1> QED
    BY <1>5, <1>6

(***************************************************************************)
(* The cursor moves.                                                       *)
(***************************************************************************)
LEMMA ShownMoves ==
  ASSUME NEW p, NEW t, Undisturbed(p, t),
         PutcharLoadsX(p) \/ PutcharStoresX(p) \/ PutcharWraps(p) \/ PutcharLoadsY(p) \/ PutcharStoresY(p)
  PROVE  TextInv'
  <1>1. /\ p \in PRINTERS /\ t \in Seq(PrintChars) /\ Busy(p, t) /\ call \in [PRINTERS -> CallRecords]
        /\ call[p].char \in PrintChars /\ call[p] \in CallRecords
        /\ Stage(call[p].at, call[p].loaded, call[p].char, video, scroll, curr_x, curr_y, t)
        /\ IsWindow(scroll) /\ curr_x \in Nat /\ curr_y \in Nat
    BY BusyFacts
  <1>2. scroll' = scroll /\ text' = text /\ video' = video
    BY DEF PutcharLoadsX, PutcharStoresX, PutcharWraps, PutcharLoadsY, PutcharStoresY
  <1>3. CASE PutcharLoadsX(p)
    <2> DEFINE r == [call[p] EXCEPT !.at = "store x", !.loaded = curr_x]
    <2>1. r.at = "store x" /\ r.loaded = curr_x /\ r.char = call[p].char
      BY <1>1 DEF CallRecords
    <2>2. call' = [call EXCEPT ![p] = r] /\ call[p].at = "load x" /\ curr_x' = curr_x /\ curr_y' = curr_y
      BY <1>1, <1>3 DEF PutcharLoadsX
    <2> HIDE DEF r
    <2>3. \/ IsPut(video, scroll, curr_x, curr_y, t, call[p].char)
          \/ IsErased(video, scroll, curr_x, curr_y, t, call[p].char)
      BY <1>1, <2>2 DEF Stage
    <2>4. Stage(r.at, r.loaded, r.char, video', scroll', curr_x', curr_y', t)
      BY <1>2, <2>1, <2>2, <2>3 DEF Stage
    <2> QED
      BY <1>1, <1>2, <2>1, <2>2, <2>4, BusyGoesOn
  <1>4. CASE PutcharStoresX(p)
    <2> DEFINE at == IF call[p].char = NEWLINE THEN "put" ELSE "wrap"
               r == [call[p] EXCEPT !.at = at, !.loaded = 0]
    <2>1. r.at = at /\ r.char = call[p].char
      BY <1>1 DEF CallRecords
    <2>2. /\ call' = [call EXCEPT ![p] = r] /\ call[p].at = "store x"
          /\ curr_x' = call[p].loaded + 1 /\ curr_y' = curr_y
      BY <1>1, <1>4 DEF PutcharStoresX
    <2> HIDE DEF r
    <2>3. /\ \/ IsPut(video, scroll, curr_x, curr_y, t, call[p].char)
             \/ IsErased(video, scroll, curr_x, curr_y, t, call[p].char)
          /\ call[p].loaded = curr_x
      BY <1>1, <2>2 DEF Stage
    <2>4. curr_x' = curr_x + 1
      BY <2>2, <2>3
    <2>5. NEWLINE \notin LETTERS
      BY ConsoleAssumption
    <2>6. \/ IsWrapping(video, scroll, curr_x', curr_y, t, call[p].char) /\ at = "wrap"
          \/ IsErasing(video, scroll, curr_x', curr_y, t, call[p].char) /\ at = "put"
      <3>1. CASE IsPut(video, scroll, curr_x, curr_y, t, call[p].char)
        <4>1. IsWrapping(video, scroll, curr_x', curr_y, t, call[p].char)
          BY <1>1, <2>4, <3>1, MoveGoes
        <4>2. call[p].char # NEWLINE
          BY <2>5, <3>1 DEF IsPut
        <4> QED
          BY <4>1, <4>2
      <3>2. CASE IsErased(video, scroll, curr_x, curr_y, t, call[p].char)
        <4>1. IsErasing(video, scroll, curr_x', curr_y, t, call[p].char)
          BY <1>1, <2>4, <3>2, MoveGoes
        <4>2. call[p].char = NEWLINE
          BY <3>2 DEF IsErased
        <4> QED
          BY <4>1, <4>2
      <3> QED
        BY <2>3, <3>1, <3>2
    <2>7. Stage(r.at, r.loaded, r.char, video', scroll', curr_x', curr_y', t) /\ r.at # "idle"
      BY <1>2, <2>1, <2>2, <2>6 DEF Stage
    <2> QED
      BY <1>1, <1>2, <2>1, <2>2, <2>7, BusyGoesOn
  <1>5. CASE PutcharWraps(p)
    <2>1. /\ call[p].at = "wrap" /\ curr_y' = curr_y
          /\ IF curr_x > scroll.max_x THEN curr_x' = scroll.min_x /\ Goto(p, "load y")
             ELSE curr_x' = curr_x /\ Goto(p, "idle")
      BY <1>5 DEF PutcharWraps, PastWindow
    <2>2. IsWrapping(video, scroll, curr_x, curr_y, t, call[p].char)
      BY <1>1, <2>1 DEF Stage
    <2>3. IF curr_x > scroll.max_x THEN IsReturned(video, scroll, scroll.min_x, curr_y, t, call[p].char)
          ELSE Rests(video, scroll, curr_x, curr_y, Append(t, call[p].char))
      BY <1>1, <2>2, WrapGoes
    <2>4. CASE curr_x > scroll.max_x
      <3>1. call' = [call EXCEPT ![p] = [@ EXCEPT !.at = "load y"]] /\ curr_x' = scroll.min_x
        BY <2>1, <2>4 DEF Goto
      <3>2. PICK r : call' = [call EXCEPT ![p] = r] /\ r.at = "load y" /\ r.char = call[p].char
        BY <1>1, <3>1, Moves
      <3>3. Stage(r.at, r.loaded, r.char, video', scroll', curr_x', curr_y', t)
        BY <1>2, <2>1, <2>3, <2>4, <3>1, <3>2 DEF Stage
      <3> QED
        BY <1>1, <1>2, <3>2, <3>3, BusyGoesOn
    <2>5. CASE ~ (curr_x > scroll.max_x)
      <3>1. call' = [call EXCEPT ![p] = NotPrinting] /\ curr_x' = curr_x
        BY <2>1, <2>5 DEF Goto
      <3>2. Rests(video', scroll', curr_x', curr_y', Append(t, call[p].char))
        BY <1>2, <2>1, <2>3, <2>5, <3>1
      <3> QED
        BY <1>1, <1>2, <3>1, <3>2, BusyEnds
    <2> QED
      BY <2>4, <2>5
  <1>6. CASE PutcharLoadsY(p)
    <2> DEFINE r == [call[p] EXCEPT !.at = "store y", !.loaded = curr_y]
    <2>1. r.at = "store y" /\ r.loaded = curr_y /\ r.char = call[p].char
      BY <1>1 DEF CallRecords
    <2>2. call' = [call EXCEPT ![p] = r] /\ call[p].at = "load y" /\ curr_x' = curr_x /\ curr_y' = curr_y
      BY <1>1, <1>6 DEF PutcharLoadsY
    <2> HIDE DEF r
    <2>3. IsReturned(video, scroll, curr_x, curr_y, t, call[p].char)
      BY <1>1, <2>2 DEF Stage
    <2>4. Stage(r.at, r.loaded, r.char, video', scroll', curr_x', curr_y', t)
      BY <1>2, <2>1, <2>2, <2>3 DEF Stage
    <2> QED
      BY <1>1, <1>2, <2>1, <2>2, <2>4, BusyGoesOn
  <1>7. CASE PutcharStoresY(p)
    <2>1. /\ call[p].at = "store y" /\ curr_y' = call[p].loaded + 1 /\ curr_x' = curr_x
          /\ call' = [call EXCEPT ![p] = NotPrinting]
      BY <1>7 DEF PutcharStoresY
    <2>2. IsReturned(video, scroll, curr_x, curr_y, t, call[p].char) /\ call[p].loaded = curr_y
      BY <1>1, <2>1 DEF Stage
    <2>3. curr_y' = curr_y + 1
      BY <2>1, <2>2
    <2>4. Rests(video, scroll, curr_x, curr_y', Append(t, call[p].char))
      BY <1>1, <2>2, <2>3, DownGoes
    <2>5. Rests(video', scroll', curr_x', curr_y', Append(t, call[p].char))
      BY <1>2, <2>1, <2>4
    <2> QED
      BY <1>1, <1>2, <2>1, <2>5, BusyEnds
  <1> QED
    BY <1>3, <1>4, <1>5, <1>6, <1>7

(***************************************************************************)
(* A call begins: it finds the page at rest, or a mixture.                 *)
(***************************************************************************)
LEMMA ShownBegins ==
  ASSUME PageInv, NEW p \in PRINTERS, NEW c \in PrintChars, PutcharBegin(p, c)
  PROVE  TextInv'
  <1>1. CASE mixed'
    BY <1>1 DEF TextInv
  <1>2. CASE ~ mixed'
    <2>1. ~ mixed /\ NobodyPrints
      BY <1>2 DEF PutcharBegin
    <2>2. text \in Seq(PrintChars) /\ Rests(video, scroll, curr_x, curr_y, text)
      <3>1. \A q \in PRINTERS, t \in Seq(PrintChars) : ~ Busy(q, t)
        BY <2>1 DEF Busy, NobodyPrints
      <3> QED
        BY <2>1, <3>1 DEF PageInv, TextInv, Resting
    <2>3. IsWindow(scroll) /\ call \in [PRINTERS -> CallRecords]
      BY CursorFacts DEF PageInv, FrameInv
    <2> DEFINE at == IF curr_y > scroll.max_y THEN "scroll" ELSE "put"
               r == [NotPrinting EXCEPT !.at = at, !.char = c]
    <2>4. r.at = at /\ r.char = c
      BY DEF NotPrinting
    <2>5. /\ call' = [call EXCEPT ![p] = r] /\ text' = Append(text, c)
          /\ video' = video /\ scroll' = scroll /\ curr_x' = curr_x /\ curr_y' = curr_y
      BY <1>2 DEF PutcharBegin
    <2>6. at # "idle" /\ Stage(at, r.loaded, c, video, scroll, curr_x, curr_y, text)
      <3>1. CASE curr_y > scroll.max_y
        BY <2>2, <3>1 DEF Stage
      <3>2. CASE ~ (curr_y > scroll.max_y)
        <4>1. \/ IsPutting(video, scroll, curr_x, curr_y, text, c)
              \/ IsErasing(video, scroll, curr_x, curr_y, text, c)
          BY <2>2, <2>3, <3>2, Stays
        <4> QED
          BY <3>2, <4>1 DEF Stage
      <3> QED
        BY <3>1, <3>2
    <2> HIDE DEF at, r
    <2>7. call'[p] = r /\ \A q \in PRINTERS \ {p} : call'[q] = call[q]
      BY <2>3, <2>5
    <2>8. PICK t : t = text
      OBVIOUS
    <2>9. Busy(p, t)'
      BY <2>1, <2>4, <2>5, <2>6, <2>7, <2>8 DEF Busy, NobodyPrints
    <2> QED
      BY <2>2, <2>8, <2>9 DEF TextInv
  <1> QED
    BY <1>1, <1>2

(***************************************************************************)
(* The steps of one call, and of any.                                      *)
(***************************************************************************)
LEMMA ShownGoesOn ==
  ASSUME PageInv, NEW p \in PRINTERS, PutcharStep(p)
  PROVE  TextInv'
  <1>1. mixed' = mixed /\ call[p].at # "idle"
    BY DEF PutcharStep, PutcharScrolls, PutcharScrolled, PutcharPuts, PutcharReturns, PutcharLoadsX,
           PutcharStoresX, PutcharWraps, PutcharLoadsY, PutcharStoresY
  <1>2. CASE mixed
    BY <1>1, <1>2 DEF TextInv
  <1>3. CASE ~ mixed
    <2>1. PICK q \in PRINTERS, t \in Seq(PrintChars) : Busy(q, t)
      BY <1>1, <1>3 DEF PageInv, TextInv, Resting, NobodyPrints
    <2>2. q = p
      BY <1>1, <2>1 DEF Busy
    <2>3. Undisturbed(p, t)
      BY <1>3, <2>1, <2>2 DEF Undisturbed
    <2> QED
      BY <2>3, ShownScrolls, ShownPuts, ShownMoves DEF PutcharStep
  <1> QED
    BY <1>2, <1>3

(***************************************************************************)
(* Every step of the console keeps the page what its text makes it.        *)
(***************************************************************************)
LEMMA PageStep ==
  ASSUME PageInv, [ConsoleNext(PRINTERS, PrintChars)]_consoleVars
  PROVE  PageInv'
  <1>1. ConsoleInv'
    BY ConsoleStep DEF PageInv, PrintChars
  <1>2. FrameInv'
    BY FrameStep DEF PageInv
  <1>3. TextInv'
    <2>1. CASE UNCHANGED consoleVars \/ ConsoleAtBound
      <3>1. UNCHANGED consoleVars
        BY <2>1 DEF ConsoleAtBound
      <3> QED
        BY <3>1 DEF consoleVars, PageInv, TextInv, Resting, NobodyPrints, Busy
    <2>2. CASE \E p \in PRINTERS, c \in PrintChars : PutcharBegin(p, c)
      BY <2>2, ShownBegins
    <2>3. CASE \E p \in PRINTERS : PutcharStep(p)
      BY <2>3, ShownGoesOn
    <2> QED
      BY <2>1, <2>2, <2>3 DEF ConsoleNext
  <1> QED
    BY <1>1, <1>2, <1>3 DEF PageInv

(***************************************************************************)
(* The cleared screen shows the text that has nothing in it.               *)
(***************************************************************************)
LEMMA PageBegins == ConsoleInit => PageInv
  <1> SUFFICES ASSUME ConsoleInit
               PROVE  PageInv
    OBVIOUS
  <1>1. ConsoleInv
    BY ConsoleBegins
  <1>2. PICK s \in SCROLLS : scroll = Window(s)
    BY DEF ConsoleInit
  <1>3. IsWindow(scroll)
    BY <1>2, WindowFacts DEF IsWindow
  <1>4. IsVideo(video) /\ \A cell \in Columns \X Lines : video[cell] = BLANK
    BY DEF ConsoleInit, IsVideo
  <1>5. curr_x = scroll.min_x /\ curr_y = scroll.min_y /\ text = <<>> /\ NobodyPrints
    BY DEF ConsoleInit, NobodyPrints, NotPrinting
  <1>6. <<>> \in Seq(PrintChars) /\ Len(<<>>) = 0 /\ DOMAIN <<>> = {}
    OBVIOUS
  <1>7. Place(WidthOf(scroll), <<>>) = <<0, 0>>
    BY <1>6, PenIs DEF Place
  <1>8. TopOf(WidthOf(scroll), HeightOf(scroll), <<>>) = 0
    <2>1. HeightOf(scroll) \in Nat \ {0}
      BY <1>3, WindowIs
    <2>2. 0 < HeightOf(scroll)
      BY <2>1
    <2> QED
      BY <2>2 DEF TopOf, TopLine
  <1>9. \A pen, line, column : Sheet(pen, <<>>, line, column) = BLANK
    <2>1. \A pen, line, column : Touching(pen, <<>>, line, column) = {}
      BY <1>6 DEF Touching
    <2> QED
      BY <2>1 DEF Sheet
  <1>10. Rests(video, scroll, curr_x, curr_y, <<>>)
    <2>1. Ends(scroll, <<>>, 0, 0) /\ Begins(scroll, <<>>, 0)
      BY <1>7, <1>8 DEF Ends, Begins
    <2>2. Shown(video, scroll, <<>>, 0)
      BY <1>4, <1>9 DEF Shown, OnSheet
    <2>3. At(scroll, curr_x, curr_y, 0, 0, 0)
      <3>1. scroll.min_x \in Nat /\ scroll.min_y \in Nat
        BY <1>3, WindowIs
      <3>2. scroll.min_x = scroll.min_x + 0 /\ scroll.min_y = scroll.min_y + (0 - 0)
        BY <3>1
      <3> QED
        BY <1>5, <3>2 DEF At
    <2> QED
      BY <2>1, <2>2, <2>3 DEF Rests
  <1> QED
    BY <1>1, <1>3, <1>4, <1>5, <1>6, <1>10 DEF PageInv, FrameInv, TextInv, Resting

(***************************************************************************)
(* A console nobody disturbs shows the last lines of the sheet its text    *)
(* fills, as many as the window has, and nothing outside the window.       *)
(***************************************************************************)
THEOREM TextIsShown == ConsoleSpec => []ShowsText
  <1>1. PageInv => ShowsText
    <2> SUFFICES ASSUME PageInv, NobodyPrints, ~ mixed, NEW cell \in DOMAIN video
                 PROVE  video[cell] =
                          IF InWindow(cell)
                          THEN Sheet(Pen(Width, text), text,
                                     TopLine(Pen(Width, text), text, Height) + cell[2] - scroll.min_y,
                                     cell[1] - scroll.min_x)
                          ELSE BLANK
      BY DEF ShowsText
    <2>1. \A q \in PRINTERS, t \in Seq(PrintChars) : ~ Busy(q, t)
      BY DEF Busy, NobodyPrints
    <2>2. PICK top : Begins(scroll, text, top) /\ Shown(video, scroll, text, top)
      BY <2>1 DEF PageInv, TextInv, Resting, Rests
    <2>3. cell \in Columns \X Lines
      BY DEF PageInv, FrameInv, IsVideo
    <2>4. Width = WidthOf(scroll) /\ Height = HeightOf(scroll) /\ (InWindow(cell) <=> Inside(scroll, cell))
      BY DEF Width, WidthOf, Height, HeightOf, InWindow, Inside
    <2>5. top = TopLine(Pen(Width, text), text, Height)
      BY <2>2, <2>4 DEF Begins, TopOf
    <2>6. video[cell] = IF Inside(scroll, cell) THEN OnSheet(scroll, text, top, cell) ELSE BLANK
      BY <2>2, <2>3 DEF Shown
    <2> QED
      BY <2>4, <2>5, <2>6 DEF OnSheet
  <1>2. PageInv /\ [ConsoleNext(PRINTERS, LETTERS \cup {NEWLINE, RETURN})]_consoleVars => PageInv'
    BY PageStep DEF PrintChars
  <1> QED
    BY <1>1, <1>2, PageBegins, PTL DEF ConsoleSpec
==============================================================================
