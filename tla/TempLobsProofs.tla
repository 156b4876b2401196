--------------------------- MODULE TempLobsProofs ---------------------------
(***************************************************************************)
(* Proofs about TempLobs, for any number of values, locators and batches.  *)
(* The inductive invariant has four parts: the connection knows the        *)
(* locators of the temporary LOBs, each once; the values that share a      *)
(* streamer have one locator; a value that has a locator, and to which     *)
(* nothing has happened, has the data of that LOB; and the loop of         *)
(* freeTemporaryLobs has sent locators before start, each once.            *)
(***************************************************************************)
EXTENDS TempLobs, TLAPS

Locators == {"temporary"} \X (Nat \ {0})
LocatorTypes == {Nil, Dummy} \cup ({"temporary", "table"} \X (Nat \ {0}))
Marks == {"reset", "broken", "shared", "freed"}

Types ==
  /\ stream \in [Lobs -> SUBSET Lobs]
  /\ locator \in [Lobs -> LocatorTypes]
  /\ data \in [Lobs -> Data \cup {0}]
  /\ temporaryLocs \in Seq(Locators)
  /\ State \in {"Opened", "Freeing", "Closed"}
  /\ live \in SUBSET Nat
  /\ content \in Seq(Data \cup {0})
  /\ start \in Nat
  /\ freed \in [sent : Seq(Locators), noted : Seq(Locators), live : SUBSET Nat]
  /\ past \in SUBSET (Marks \X Lobs)

(* The values with one streamer know each other, and have its locator.     *)
Grouped(s, l) ==
  \A b \in Lobs : /\ s[b] = {} => l[b] = Nil
                  /\ s[b] # {} => b \in s[b]
                  /\ \A c \in s[b] : s[c] = s[b] /\ l[c] = l[b]

GroupInv == Grouped(stream, locator)

(* No element of a sequence occurs twice.                                  *)
Distinct(s) == \A i, j \in DOMAIN s : s[i] = s[j] => i = j

SomeFreed == \E b \in Lobs : <<"freed", b>> \in past

(* The locators noted are those of the temporary LOBs that live, and, once *)
(* Free was called, of some that do not.                                   *)
NotedInv ==
  /\ Distinct(temporaryLocs)
  /\ State # "Closed" => /\ live \subseteq Ids(temporaryLocs)
                         /\ SomeFreed \/ Ids(temporaryLocs) \subseteq live

Marked(b) == \E w \in {"reset", "broken", "shared"} : <<w, b>> \in past

(* The value and the LOB its locator stands for agree.                     *)
Agrees(b) ==
  locator[b][2] # 0 =>
    /\ content[locator[b][2]] = data[b]
    /\ State # "Closed" /\ locator[b][1] = "temporary" => locator[b][2] \in live

ValueOf(b) ==
  /\ locator[b][2] <= Len(content)
  /\ locator[b] = Dummy => <<"broken", b>> \in past
  /\ Marked(b) \/ Agrees(b)

Sharing(b, c) ==
  c \notin stream[b] /\ locator[b][2] = locator[c][2] /\ locator[b][2] # 0
    => <<"shared", b>> \in past

LiveInv == \A id \in live : id \in 1 .. Len(content)

ValueInv ==
  /\ LiveInv
  /\ \A b \in Lobs : ValueOf(b)
  /\ \A b, c \in Lobs : Sharing(b, c)

(* What the loop has sent: nothing at start or after it, nothing twice and,*)
(* if there are at most two batches, everything before start.              *)
Loop(sent, locs, next) ==
  /\ Distinct(sent)
  /\ \A k \in DOMAIN sent : \E i \in DOMAIN locs : i <= next /\ sent[k] = locs[i]
  /\ Len(locs) <= 2 * Batch =>
       /\ next \in {0, Batch} \/ next >= Len(locs)
       /\ \A i \in DOMAIN locs : i <= next => \E k \in DOMAIN sent : sent[k] = locs[i]

FreedInv ==
  /\ State = "Opened" => freed.sent = <<>>
  /\ State = "Freeing" => freed.noted = temporaryLocs
  /\ State = "Closed" => start >= Len(freed.noted)
  /\ State # "Opened" => /\ Distinct(freed.noted)
                         /\ freed.live \subseteq Ids(freed.noted)
                         /\ SomeFreed \/ Ids(freed.noted) \subseteq freed.live
                         /\ Loop(freed.sent, freed.noted, start)

IInv == Types /\ GroupInv /\ NotedInv /\ ValueInv /\ FreedInv /\ BoundData
-----------------------------------------------------------------------------
(* Sequences                                                               *)

LEMMA AppendPlaces ==
    ASSUME NEW T, NEW s \in Seq(T), NEW e \in T
    PROVE  /\ Append(s, e) \in Seq(T)
           /\ DOMAIN s = 1 .. Len(s)
           /\ Len(Append(s, e)) = Len(s) + 1
           /\ DOMAIN Append(s, e) = 1 .. Len(s) + 1
           /\ \A i \in 1 .. Len(s) : Append(s, e)[i] = s[i]
           /\ Append(s, e)[Len(s) + 1] = e
  OBVIOUS

LEMMA LeastOf ==
    ASSUME NEW m \in Nat, NEW n \in Nat
    PROVE  \/ Least(m, n) = m /\ m <= n
           \/ Least(m, n) = n /\ n <= m
  BY DEF Least

(* One batch of freeTemporaryLobs takes the places after start.            *)
LEMMA BatchPlaces ==
    ASSUME NEW s \in Seq(Locators), NEW locs \in Seq(Locators),
           NEW next \in Nat, next < Len(locs)
    PROVE  LET end == Least(next + Batch, Len(locs))
               new == s \o batch(locs, next)
           IN  /\ new \in Seq(Locators)
               /\ end \in next + 1 .. Len(locs)
               /\ DOMAIN new = 1 .. Len(s) + (end - next)
               /\ \A k \in 1 .. Len(s) : new[k] = s[k]
               /\ \A k \in 1 .. end - next : new[Len(s) + k] = locs[next + k]
<1> DEFINE end == Least(next + Batch, Len(locs))
           b == SubSeq(locs, next + 1, end)
<1>1. end \in next + 1 .. Len(locs)
  BY BoundsAssumption DEF Least
<1> HIDE DEF end
<1>2. b \in Seq(Locators) /\ Len(b) = end - next
  BY <1>1
<1>3. \A k \in 1 .. end - next : b[k] = locs[next + k]
  BY <1>1
<1>4. batch(locs, next) = b
  BY DEF batch, end
<1> HIDE DEF b
<1>5. /\ s \o b \in Seq(Locators)
      /\ DOMAIN (s \o b) = 1 .. Len(s) + (end - next)
      /\ \A k \in 1 .. Len(s) : (s \o b)[k] = s[k]
      /\ \A k \in 1 .. end - next : (s \o b)[Len(s) + k] = b[k]
  BY <1>1, <1>2
<1> QED
  BY <1>1, <1>3, <1>4, <1>5 DEF end

(* A turn of the loop sends places between the old start and the new one,  *)
(* all of them if it is one of the first two turns and the last of them    *)
(* reaches the end.                                                        *)
LEMMA LoopTurn ==
    ASSUME NEW s \in Seq(Locators), NEW locs \in Seq(Locators),
           NEW next \in Nat, next < Len(locs),
           Distinct(locs), Loop(s, locs, next)
    PROVE  Loop(s \o batch(locs, next), locs,
                next + Least(next + Batch, Len(locs)))
<1> DEFINE end == Least(next + Batch, Len(locs))
           new == s \o batch(locs, next)
<1>1. /\ end \in next + 1 .. Len(locs)
      /\ DOMAIN new = 1 .. Len(s) + (end - next)
      /\ \A k \in 1 .. Len(s) : new[k] = s[k]
      /\ \A k \in 1 .. end - next : new[Len(s) + k] = locs[next + k]
  BY BatchPlaces, SMTT(30)
<1>2. Len(s) \in Nat /\ DOMAIN s = 1 .. Len(s) /\ Len(locs) \in Nat /\ DOMAIN locs = 1 .. Len(locs)
  OBVIOUS
<1>3. \/ end = next + Batch /\ end <= Len(locs)
      \/ end = Len(locs) /\ end <= next + Batch
  <2>1. next + Batch \in Nat
    BY BoundsAssumption
  <2> QED
    BY <2>1, <1>2, LeastOf
<1> HIDE DEF end, new
<1>4. \A k \in 1 .. Len(s) + (end - next) :
        \/ k \in 1 .. Len(s)
        \/ k - Len(s) \in 1 .. end - next /\ new[k] = locs[next + (k - Len(s))]
  <2> TAKE k \in 1 .. Len(s) + (end - next)
  <2>1. CASE k <= Len(s)
    BY <2>1, <1>1, <1>2
  <2>2. CASE ~(k <= Len(s))
    <3>1. k - Len(s) \in 1 .. end - next /\ Len(s) + (k - Len(s)) = k
      BY <2>2, <1>1, <1>2
    <3> QED
      BY <3>1, <1>1, Zenon
  <2> QED
    BY <2>1, <2>2
<1>5. ASSUME NEW k \in DOMAIN new
      PROVE  \E i \in DOMAIN locs : /\ new[k] = locs[i] /\ i <= end
                                    /\ k <= Len(s) => i <= next
                                    /\ k > Len(s) => i = next + (k - Len(s))
  <2>1. CASE k \in 1 .. Len(s)
    <3>1. PICK i \in DOMAIN locs : i <= next /\ s[k] = locs[i]
      BY <2>1, <1>2 DEF Loop
    <3> QED
      BY <3>1, <2>1, <1>1, <1>2
  <2>2. CASE k - Len(s) \in 1 .. end - next /\ new[k] = locs[next + (k - Len(s))]
    BY <2>2, <1>1, <1>2
  <2> QED
    BY <2>1, <2>2, <1>1, <1>4
<1>6. Distinct(new)
  <2> SUFFICES ASSUME NEW j \in DOMAIN new, NEW k \in DOMAIN new, new[j] = new[k]
               PROVE  j = k
    BY DEF Distinct
  <2>0. j \in Nat /\ k \in Nat /\ j >= 1 /\ k >= 1
    BY <1>1, <1>2
  <2>1. CASE j <= Len(s) /\ k <= Len(s)
    <3>1. j \in DOMAIN s /\ k \in DOMAIN s /\ s[j] = s[k]
      BY <2>0, <2>1, <1>1, <1>2
    <3> QED
      BY <3>1 DEF Loop, Distinct
  <2>2. CASE ~(j <= Len(s) /\ k <= Len(s))
    <3>1. PICK i \in DOMAIN locs : /\ new[j] = locs[i]
                                   /\ j <= Len(s) => i <= next
                                   /\ j > Len(s) => i = next + (j - Len(s))
      BY <1>5
    <3>2. PICK l \in DOMAIN locs : /\ new[k] = locs[l]
                                   /\ k <= Len(s) => l <= next
                                   /\ k > Len(s) => l = next + (k - Len(s))
      BY <1>5
    <3>3. i = l
      BY <3>1, <3>2, Zenon DEF Distinct
    <3> QED
      BY <3>1, <3>2, <3>3, <2>0, <2>2, <1>2
  <2> QED
    BY <2>1, <2>2
<1>7. \A k \in DOMAIN new : \E i \in DOMAIN locs : i <= next + end /\ new[k] = locs[i]
  <2> TAKE k \in DOMAIN new
  <2>1. PICK i \in DOMAIN locs : new[k] = locs[i] /\ i <= end
    BY <1>5
  <2> QED
    BY <2>1, <1>1, <1>2
<1>8. ASSUME Len(locs) <= 2 * Batch
      PROVE  /\ next + end \in {0, Batch} \/ next + end >= Len(locs)
             /\ \A i \in DOMAIN locs : i <= next + end => i <= end
  <2>1. next \in {0, Batch}
    BY <1>8, <1>2 DEF Loop
  <2>2. end \in Nat /\ Len(locs) \in Nat /\ Batch \in Nat
    BY <1>1, <1>2, BoundsAssumption
  <2>3. DOMAIN locs = 1 .. Len(locs)
    BY <1>2
  <2>4. CASE next = 0
    <3>1. next + end = end /\ (end = Batch \/ end = Len(locs))
      BY <2>2, <2>4, <1>3
    <3> QED
      BY <2>2, <3>1
  <2>5. CASE next = Batch /\ next # 0
    <3>1. end = Len(locs)
      BY <2>2, <2>5, <1>3, <1>8
    <3> QED
      BY <2>2, <2>3, <3>1
  <2> QED
    BY <2>1, <2>4, <2>5
<1>9. ASSUME Len(locs) <= 2 * Batch, NEW i \in DOMAIN locs, i <= end
      PROVE  \E k \in DOMAIN new : new[k] = locs[i]
  <2>1. CASE i <= next
    <3>1. PICK k \in DOMAIN s : s[k] = locs[i]
      BY <2>1, <1>9 DEF Loop
    <3> QED
      BY <3>1, <1>1, <1>2
  <2>2. CASE ~(i <= next)
    <3>1. i - next \in 1 .. end - next /\ next + (i - next) = i
      BY <2>2, <1>9, <1>1, <1>2
    <3>2. Len(s) + (i - next) \in DOMAIN new
      BY <3>1, <1>1, <1>2
    <3> QED
      BY <3>1, <3>2, <1>1, Zenon
  <2> QED
    BY <2>1, <2>2
<1>10. Loop(new, locs, next + end)
  BY <1>6, <1>7, <1>8, <1>9 DEF Loop
<1> QED
  BY <1>10 DEF new, end
-----------------------------------------------------------------------------
(* Types                                                                   *)

(* appendTemporaryLoc adds a locator that is not there, and only that.     *)
LEMMA Noting ==
    ASSUME temporaryLocs \in Seq(Locators), NEW id \in Nat \ {0},
           appendTemporaryLoc(Temporary(id))
    PROVE  /\ temporaryLocs' \in Seq(Locators)
           /\ Ids(temporaryLocs') = Ids(temporaryLocs) \cup {id}
           /\ Distinct(temporaryLocs) => Distinct(temporaryLocs')
<1> DEFINE loc == Temporary(id)
<1>1. loc \in Locators /\ loc[2] = id
  BY DEF Temporary, Locators
<1> HIDE DEF loc
<1>2. CASE loc \in Range(temporaryLocs)
  <2>1. temporaryLocs' = temporaryLocs
    BY <1>2 DEF appendTemporaryLoc, loc
  <2>2. PICK i \in DOMAIN temporaryLocs : temporaryLocs[i] = loc
    BY <1>2 DEF Range
  <2>3. id \in Ids(temporaryLocs)
    BY <2>2, <1>1 DEF Ids
  <2> QED
    BY <2>1, <2>3, Zenon
<1>3. CASE loc \notin Range(temporaryLocs)
  <2> DEFINE new == Append(temporaryLocs, loc)
  <2>1. temporaryLocs' = new
    BY <1>3 DEF appendTemporaryLoc, loc
  <2>2. /\ new \in Seq(Locators)
        /\ DOMAIN temporaryLocs = 1 .. Len(temporaryLocs)
        /\ DOMAIN new = 1 .. Len(temporaryLocs) + 1
        /\ \A i \in 1 .. Len(temporaryLocs) : new[i] = temporaryLocs[i]
        /\ new[Len(temporaryLocs) + 1] = loc
    BY <1>1, AppendPlaces
  <2>3. Len(temporaryLocs) \in Nat
    OBVIOUS
  <2> HIDE DEF new
  <2>4. \A i \in DOMAIN new : i \in DOMAIN temporaryLocs \/ i = Len(temporaryLocs) + 1
    BY <2>2, <2>3
  <2>5. DOMAIN temporaryLocs \subseteq DOMAIN new /\ Len(temporaryLocs) + 1 \in DOMAIN new
    BY <2>2, <2>3
  <2>6. Ids(new) = Ids(temporaryLocs) \cup {id}
    <3>1. ASSUME NEW x \in Ids(new) PROVE x \in Ids(temporaryLocs) \cup {id}
      BY <3>1, <2>2, <2>4, <1>1 DEF Ids
    <3>2. ASSUME NEW x \in Ids(temporaryLocs) PROVE x \in Ids(new)
      BY <3>2, <2>2, <2>5 DEF Ids
    <3>3. id \in Ids(new)
      BY <2>2, <2>5, <1>1 DEF Ids
    <3> QED
      BY <3>1, <3>2, <3>3, Zenon
  <2>7. \A i \in DOMAIN temporaryLocs : temporaryLocs[i] # loc
    BY <1>3 DEF Range
  <2>8. ASSUME Distinct(temporaryLocs) PROVE Distinct(new)
    BY <2>8, <2>2, <2>4, <2>7 DEF Distinct
  <2> QED
    BY <2>1, <2>2, <2>6, <2>8
<1> QED
  BY <1>2, <1>3

(* What Upload leaves: the LOB lives, is noted, and has its data.          *)
LEMMA Uploading ==
    ASSUME Types, NEW v \in Data \cup {0}, NEW written \in BOOLEAN, Upload(v, written)
    PROVE  /\ NextId \in Nat \ {0} /\ NextId = Len(content) + 1
           /\ live' = live \cup {NextId}
           /\ content' \in Seq(Data \cup {0}) /\ Len(content') = NextId
           /\ \A i \in 1 .. Len(content) : content'[i] = content[i]
           /\ content'[NextId] = IF written THEN v ELSE 0
           /\ temporaryLocs' \in Seq(Locators)
           /\ Ids(temporaryLocs') = Ids(temporaryLocs) \cup {NextId}
           /\ Distinct(temporaryLocs) => Distinct(temporaryLocs')
<1>1. NextId \in Nat \ {0} /\ NextId = Len(content) + 1
  BY DEF Types, NextId
<1> DEFINE w == IF written THEN v ELSE 0
<1>2. w \in Data \cup {0} /\ content \in Seq(Data \cup {0}) /\ content' = Append(content, w)
  BY DEF Upload, Types
<1> HIDE DEF w
<1>3. /\ content' \in Seq(Data \cup {0}) /\ Len(content') = Len(content) + 1
      /\ \A i \in 1 .. Len(content) : content'[i] = content[i]
      /\ content'[Len(content) + 1] = w
  BY <1>2, AppendPlaces
<1>4. temporaryLocs \in Seq(Locators) /\ appendTemporaryLoc(Temporary(NextId))
  BY DEF Upload, note, Types
<1>5. /\ temporaryLocs' \in Seq(Locators)
      /\ Ids(temporaryLocs') = Ids(temporaryLocs) \cup {NextId}
      /\ Distinct(temporaryLocs) => Distinct(temporaryLocs')
  BY <1>1, <1>4, Noting
<1> QED
  BY <1>1, <1>3, <1>5 DEF Upload, w

LEMMA LocatorKinds ==
    ASSUME NEW id \in Nat \ {0}, NEW kind \in {"temporary", "table"}
    PROVE  /\ <<kind, id>> \in LocatorTypes
           /\ Temporary(id) \in LocatorTypes
           /\ Dummy \in LocatorTypes /\ Nil \in LocatorTypes
  BY DEF LocatorTypes, Temporary

LEMMA LocateTypes ==
    ASSUME Types, NEW bs \in SUBSET Lobs, NEW loc \in LocatorTypes, Locate(bs, loc)
    PROVE  /\ locator' \in [Lobs -> LocatorTypes]
           /\ \A b \in bs : locator'[b] = loc
           /\ \A b \in Lobs : b \notin bs => locator'[b] = locator[b]
  BY DEF Types, Locate

(* What Store does: the data is uploaded, the LOB is not created, or no    *)
(* upload is tried.                                                        *)
Uploaded(b, v, written) ==
  /\ stream'[b] # {} /\ Upload(v, written)
  /\ Locate(stream'[b], Temporary(NextId))
  /\ past' = past \cup
       (IF written THEN {<<"reset", c>> : c \in {d \in stream'[b] : data'[d] # v}}
        ELSE {<<"broken", c>> : c \in stream'[b]})

NotCreated(b) ==
  /\ stream'[b] # {} /\ NoUpload /\ Locate(stream'[b], Dummy)
  /\ past' = past \cup {<<"broken", c>> : c \in stream'[b]}

NotTried(b) ==
  /\ NoUpload /\ locator' = locator
  /\ past' = IF locator[b] = Nil THEN past ELSE past \cup {<<"reset", b>>}

LEMMA Storing ==
    ASSUME NEW b \in Lobs, NEW v \in Data \cup {0}, Store(b, v)
    PROVE  /\ data' = [data EXCEPT ![b] = v]
           /\ bound' = Unbound /\ UNCHANGED <<State, start, freed>>
           /\ \/ \E written \in BOOLEAN : Uploaded(b, v, written)
              \/ NotCreated(b)
              \/ NotTried(b)
  BY Zenon DEF Store, Uploaded, NotCreated, NotTried

LEMMA StoreTypes ==
    ASSUME Types, NEW b \in Lobs, NEW v \in Data \cup {0},
           stream' \in [Lobs -> SUBSET Lobs], Store(b, v)
    PROVE  Types'
<1>1. /\ data' = [data EXCEPT ![b] = v]
      /\ UNCHANGED <<State, start, freed>>
  BY Storing
<1>2. data' \in [Lobs -> Data \cup {0}]
  BY <1>1 DEF Types
<1>3. \A w \in Marks, bs \in SUBSET Lobs :
        past \cup {<<w, c>> : c \in bs} \in SUBSET (Marks \X Lobs)
  BY DEF Types
<1>4. past \in SUBSET (Marks \X Lobs) /\ locator \in [Lobs -> LocatorTypes] /\ live \in SUBSET Nat
      /\ temporaryLocs \in Seq(Locators) /\ content \in Seq(Data \cup {0})
  BY DEF Types
<1>5. stream'[b] \in SUBSET Lobs /\ {"reset", "broken"} \subseteq Marks
  BY DEF Marks
<1>6. ASSUME NEW written \in BOOLEAN, Uploaded(b, v, written)
      PROVE  /\ locator' \in [Lobs -> LocatorTypes] /\ past' \in SUBSET (Marks \X Lobs)
             /\ live' \in SUBSET Nat /\ temporaryLocs' \in Seq(Locators)
             /\ content' \in Seq(Data \cup {0})
  <2>1. /\ NextId \in Nat \ {0} /\ live' = live \cup {NextId}
        /\ content' \in Seq(Data \cup {0}) /\ temporaryLocs' \in Seq(Locators)
    BY <1>6, Uploading DEF Uploaded
  <2>2. locator' \in [Lobs -> LocatorTypes]
    BY <2>1, <1>5, <1>6, LocatorKinds, LocateTypes, Zenon DEF Uploaded
  <2>3. past' \in SUBSET (Marks \X Lobs)
    <3>1. {d \in stream'[b] : data'[d] # v} \in SUBSET Lobs
      BY <1>5
    <3>2. CASE written
      BY <3>1, <3>2, <1>3, <1>5, <1>6 DEF Uploaded
    <3>3. CASE ~written
      BY <3>3, <1>3, <1>5, <1>6 DEF Uploaded
    <3> QED
      BY <3>2, <3>3
  <2>4. live' \in SUBSET Nat
    BY <2>1, <1>4
  <2> QED
    BY <2>1, <2>2, <2>3, <2>4
<1>7. ASSUME NotCreated(b)
      PROVE  /\ locator' \in [Lobs -> LocatorTypes] /\ past' \in SUBSET (Marks \X Lobs)
             /\ live' \in SUBSET Nat /\ temporaryLocs' \in Seq(Locators)
             /\ content' \in Seq(Data \cup {0})
  <2>1. Dummy \in LocatorTypes
    BY DEF LocatorTypes
  <2>2. locator' \in [Lobs -> LocatorTypes] /\ past' \in SUBSET (Marks \X Lobs)
    BY <2>1, <1>3, <1>5, <1>7, LocateTypes DEF NotCreated
  <2> QED
    BY <2>2, <1>4, <1>7 DEF NotCreated, NoUpload
<1>8. ASSUME NotTried(b)
      PROVE  /\ locator' \in [Lobs -> LocatorTypes] /\ past' \in SUBSET (Marks \X Lobs)
             /\ live' \in SUBSET Nat /\ temporaryLocs' \in Seq(Locators)
             /\ content' \in Seq(Data \cup {0})
  BY <1>4, <1>5, <1>8 DEF NotTried, NoUpload
<1>9. /\ locator' \in [Lobs -> LocatorTypes] /\ past' \in SUBSET (Marks \X Lobs)
      /\ live' \in SUBSET Nat /\ temporaryLocs' \in Seq(Locators)
      /\ content' \in Seq(Data \cup {0})
  BY <1>6, <1>7, <1>8, Storing
<1> QED
  BY <1>1, <1>2, <1>9 DEF Types

(* What SetLocator leaves: a new LOB, or one of those that live.           *)
LEMMA Receiving ==
    ASSUME Types, LiveInv,
           NEW b \in Lobs, NEW kind \in {"temporary", "table"}, NEW id \in 1 .. MaxIds,
           NEW v \in Data, SetLocator(b, kind, id, v)
    PROVE  /\ id \in Nat \ {0}
           /\ \/ id = NextId /\ Len(content') = id
              \/ id \in live /\ kind = "temporary" /\ Len(content') = Len(content)
           /\ content' \in Seq(Data \cup {0})
           /\ \A i \in 1 .. Len(content) : content'[i] = content[i]
           /\ content'[id] = v
           /\ temporaryLocs' \in Seq(Locators)
           /\ Distinct(temporaryLocs) => Distinct(temporaryLocs')
           /\ \/ /\ kind = "temporary" /\ live' = live \cup {id}
                 /\ Ids(temporaryLocs') = Ids(temporaryLocs) \cup {id}
              \/ kind = "table" /\ live' = live /\ temporaryLocs' = temporaryLocs
<1>1. id \in Nat \ {0} /\ NextId = Len(content) + 1
  BY BoundsAssumption DEF NextId
<1>2. content \in Seq(Data \cup {0}) /\ temporaryLocs \in Seq(Locators) /\ v \in Data \cup {0}
  BY DEF Types
<1>3. /\ \/ id = NextId /\ Len(content') = id
         \/ id \in live /\ kind = "temporary" /\ Len(content') = Len(content)
      /\ content' \in Seq(Data \cup {0})
      /\ \A i \in 1 .. Len(content) : content'[i] = content[i]
      /\ content'[id] = v
  <2>1. CASE id = NextId /\ content' = Append(content, v)
    <3>1. /\ Append(content, v) \in Seq(Data \cup {0})
          /\ Len(Append(content, v)) = Len(content) + 1
          /\ \A i \in 1 .. Len(content) : Append(content, v)[i] = content[i]
          /\ Append(content, v)[Len(content) + 1] = v
      BY <1>2, AppendPlaces
    <3> QED
      BY <2>1, <3>1, <1>1
  <2>2. CASE id \in live /\ v = content[id] /\ kind = "temporary" /\ content' = content
    BY <2>2, <1>2 DEF LiveInv
  <2> QED
    BY <2>1, <2>2, Zenon DEF SetLocator
<1>4. CASE kind = "temporary"
  <2>1. live' = live \cup {id} /\ appendTemporaryLoc(Temporary(id))
    BY <1>4 DEF SetLocator
  <2> QED
    BY <2>1, <1>1, <1>2, <1>3, <1>4, Noting
<1>5. CASE kind = "table"
  <2>1. live' = live /\ temporaryLocs' = temporaryLocs
    BY <1>5 DEF SetLocator
  <2> QED
    BY <2>1, <1>1, <1>2, <1>3, <1>5
<1> QED
  BY <1>4, <1>5

LEMMA SetLocatorTypes ==
    ASSUME Types, LiveInv,
           NEW b \in Lobs, NEW kind \in {"temporary", "table"}, NEW id \in 1 .. MaxIds,
           NEW v \in Data, SetLocator(b, kind, id, v)
    PROVE  Types'
<1>1. /\ NewStreamer(b)
      /\ locator' = [locator EXCEPT ![b] = <<kind, id>>]
      /\ data' = [data EXCEPT ![b] = v]
      /\ UNCHANGED <<State, start, freed>>
  BY DEF SetLocator
<1>2. /\ id \in Nat \ {0}
      /\ content' \in Seq(Data \cup {0}) /\ temporaryLocs' \in Seq(Locators)
      /\ live' = live \/ live' = live \cup {id}
  BY Receiving
<1>3. past' \in SUBSET (Marks \X Lobs)
  <2> DEFINE cs == {b} \cup {d \in Lobs : locator[d][2] = id}
             new == IF id = NextId THEN {} ELSE {<<"shared", c>> : c \in cs}
  <2>1. new \in SUBSET (Marks \X Lobs)
    BY DEF Marks
  <2>2. past' = Forget({b}) \cup new
    BY DEF SetLocator
  <2>3. Forget({b}) \in SUBSET (Marks \X Lobs)
    BY DEF Forget, Types
  <2> HIDE DEF new
  <2> QED
    BY <2>1, <2>2, <2>3
<1>4. <<kind, id>> \in LocatorTypes
  BY <1>2, LocatorKinds, Zenon
<1>5. locator' \in [Lobs -> LocatorTypes] /\ data' \in [Lobs -> Data \cup {0}]
      /\ stream' \in [Lobs -> SUBSET Lobs]
  BY <1>1, <1>4 DEF Types, NewStreamer
<1>6. live' \in SUBSET Nat
  BY <1>2, Zenon DEF Types
<1> QED
  BY <1>1, <1>2, <1>3, <1>5, <1>6 DEF Types

LEMMA BindTypes ==
    ASSUME Types, NEW b \in Lobs, Bind(b)
    PROVE  Types'
<1>1. UNCHANGED <<stream, locator, data, State, start, freed, past>>
  BY DEF Bind, lobVars
<1>2. live' \in SUBSET Nat /\ temporaryLocs' \in Seq(Locators) /\ content' \in Seq(Data \cup {0})
  <2>1. ASSUME NEW written \in BOOLEAN, Upload(data[b], written)
        PROVE  live' \in SUBSET Nat /\ temporaryLocs' \in Seq(Locators)
               /\ content' \in Seq(Data \cup {0})
    <3>1. data[b] \in Data \cup {0}
      BY DEF Types
    <3>2. /\ NextId \in Nat \ {0} /\ live' = live \cup {NextId}
          /\ content' \in Seq(Data \cup {0}) /\ temporaryLocs' \in Seq(Locators)
      BY <2>1, <3>1, Uploading
    <3> QED
      BY <3>2 DEF Types
  <2>2. ASSUME NoUpload
        PROVE  live' \in SUBSET Nat /\ temporaryLocs' \in Seq(Locators)
               /\ content' \in Seq(Data \cup {0})
    BY <2>2 DEF NoUpload, Types
  <2> QED
    BY <2>1, <2>2, Zenon DEF Bind
<1> QED
  BY <1>1, <1>2 DEF Types

(* The copy of a value, and a value that is NULL.                          *)
LEMMA CopyTypes ==
    ASSUME Types, NEW b \in Lobs, NEW c \in Lobs, CopyBlob(b, c)
    PROVE  Types'
<1>1. /\ locator' = [locator EXCEPT ![b] = locator[c]]
      /\ data' = [data EXCEPT ![b] = data[c]]
      /\ past' = Forget({b}) \cup {<<p[1], b>> : p \in {q \in past : q[2] = c}}
      /\ UNCHANGED <<temporaryLocs, State, live, content, start, freed>>
  BY DEF CopyBlob
<1>2. stream' \in [Lobs -> SUBSET Lobs]
  BY DEF CopyBlob, Types
<1>3. locator' \in [Lobs -> LocatorTypes] /\ data' \in [Lobs -> Data \cup {0}]
  BY <1>1 DEF Types
<1>4. past' \in SUBSET (Marks \X Lobs)
  BY <1>1 DEF Types, Forget
<1> QED
  BY <1>1, <1>2, <1>3, <1>4, Zenon DEF Types

LEMMA NilTypes ==
    ASSUME Types, NEW b \in Lobs, SetLocatorNil(b)
    PROVE  Types'
<1>1. /\ locator' = [locator EXCEPT ![b] = Nil] /\ data' = [data EXCEPT ![b] = 0]
      /\ past' = Forget({b}) /\ NewStreamer(b)
      /\ UNCHANGED <<temporaryLocs, State, live, content, start, freed>>
  BY DEF SetLocatorNil
<1>2. locator' \in [Lobs -> LocatorTypes] /\ data' \in [Lobs -> Data \cup {0}]
      /\ stream' \in [Lobs -> SUBSET Lobs]
  BY <1>1 DEF Types, NewStreamer, LocatorTypes
<1>3. past' \in SUBSET (Marks \X Lobs)
  BY <1>1 DEF Types, Forget
<1> QED
  BY <1>1, <1>2, <1>3, Zenon DEF Types

LEMMA FreeTypes ==
    ASSUME Types, NEW b \in Lobs, Free(b)
    PROVE  Types'
<1>1. UNCHANGED <<stream, data, temporaryLocs, State, content, start, freed>>
  BY DEF Free
<1>2. locator' \in [Lobs -> LocatorTypes] /\ live' \in SUBSET Nat /\ past' \in SUBSET (Marks \X Lobs)
  <2>1. CASE /\ live' = live \ {locator[b][2]}
             /\ Locate(stream[b], Nil)
             /\ past' = Forget(stream[b]) \cup {<<"freed", b>>}
    <3>1. stream[b] \in SUBSET Lobs /\ Nil \in LocatorTypes
      BY DEF Types, LocatorTypes
    <3>2. locator' \in [Lobs -> LocatorTypes]
      BY <2>1, <3>1, LocateTypes
    <3>3. live' \in SUBSET Nat
      BY <2>1, Zenon DEF Types
    <3>4. past' \in SUBSET (Marks \X Lobs)
      BY <2>1 DEF Types, Forget, Marks
    <3> QED
      BY <3>2, <3>3, <3>4
  <2>2. CASE UNCHANGED <<live, locator, past>>
    BY <2>2 DEF Types
  <2> QED
    BY <2>1, <2>2, Zenon DEF Free
<1> QED
  BY <1>1, <1>2 DEF Types

LEMMA CloseTypes ==
    ASSUME Types, Close \/ FreeBatch \/ Closed
    PROVE  Types'
<1>1. CASE Close
  BY <1>1 DEF Types, Close, lobVars
<1>2. CASE FreeBatch
  <2> DEFINE new == freed.sent \o batch(temporaryLocs, start)
  <2>1. freed.sent \in Seq(Locators) /\ temporaryLocs \in Seq(Locators) /\ start \in Nat
        /\ start < Len(temporaryLocs)
    BY <1>2 DEF Types, FreeBatch
  <2>2. new \in Seq(Locators) /\ Least(start + Batch, Len(temporaryLocs)) \in Nat
    BY <2>1, BatchPlaces
  <2>3. freed' = [freed EXCEPT !.sent = new] /\ start' \in Nat
    BY <1>2, <2>1, <2>2 DEF FreeBatch
  <2> HIDE DEF new
  <2>4. freed' \in [sent : Seq(Locators), noted : Seq(Locators), live : SUBSET Nat]
    BY <2>2, <2>3, Zenon DEF Types
  <2> QED
    BY <1>2, <2>3, <2>4, Zenon DEF Types, FreeBatch, lobVars
<1>3. CASE Closed
  <2>1. <<>> \in Seq(Locators) /\ temporaryLocs \in Seq(Locators)
    BY DEF Types
  <2>2. temporaryLocs' = <<>> \/ temporaryLocs' = temporaryLocs
    BY <1>3 DEF Closed
  <2> QED
    BY <1>3, <2>1, <2>2, Zenon DEF Types, Closed, lobVars
<1> QED
  BY <1>1, <1>2, <1>3
-----------------------------------------------------------------------------
(* Streamers                                                               *)

(* A streamer is given a locator.                                          *)
LEMMA Located ==
    ASSUME NEW s \in [Lobs -> SUBSET Lobs], NEW l, Grouped(s, l), NEW b \in Lobs, s[b] # {},
           NEW loc
    PROVE  Grouped(s, [c \in Lobs |-> IF c \in s[b] THEN loc ELSE l[c]])
<1> DEFINE new == [c \in Lobs |-> IF c \in s[b] THEN loc ELSE l[c]]
<1> SUFFICES ASSUME NEW d \in Lobs
             PROVE  /\ s[d] = {} => new[d] = Nil
                    /\ s[d] # {} => d \in s[d]
                    /\ \A c \in s[d] : s[c] = s[d] /\ new[c] = new[d]
  BY DEF Grouped
<1>1. s[d] = {} => new[d] = Nil
  BY DEF Grouped
<1>2. s[d] # {} => d \in s[d]
  BY DEF Grouped
<1>3. ASSUME NEW c \in s[d] PROVE s[c] = s[d] /\ new[c] = new[d]
  <2>1. c \in Lobs /\ s[c] = s[d] /\ l[c] = l[d] /\ d \in s[d]
    BY <1>3 DEF Grouped
  <2>2. c \in s[b] <=> d \in s[b]
    BY <2>1, <1>3 DEF Grouped
  <2> QED
    BY <2>1, <2>2
<1> QED
  BY <1>1, <1>2, <1>3

(* A value leaves its streamer for one of its own.                         *)
LEMMA Alone ==
    ASSUME Types, GroupInv, NEW b \in Lobs, NewStreamer(b), NEW loc,
           locator' = [locator EXCEPT ![b] = loc]
    PROVE  GroupInv'
<1>1. /\ stream'[b] = {b} /\ \A d \in Lobs : d # b => stream'[d] = stream[d] \ {b}
      /\ locator'[b] = loc /\ \A d \in Lobs : d # b => locator'[d] = locator[d]
  BY DEF Types, NewStreamer
<1>2. \A d \in Lobs : stream[d] \subseteq Lobs
  BY DEF Types
<1> SUFFICES ASSUME NEW d \in Lobs
             PROVE  /\ stream'[d] = {} => locator'[d] = Nil
                    /\ stream'[d] # {} => d \in stream'[d]
                    /\ \A c \in stream'[d] : stream'[c] = stream'[d] /\ locator'[c] = locator'[d]
  BY DEF GroupInv, Grouped
<1>3. CASE d = b
  BY <1>1, <1>3
<1>4. CASE d # b
  <2>1. /\ stream[d] = {} => locator[d] = Nil
        /\ stream[d] # {} => d \in stream[d]
        /\ \A c \in stream[d] : stream[c] = stream[d] /\ locator[c] = locator[d]
    BY DEF GroupInv, Grouped
  <2> QED
    BY <2>1, <1>1, <1>2, <1>4, ZenonT(60)
<1> QED
  BY <1>3, <1>4

(* A value takes the streamer of another one.                              *)
LEMMA CopyGroups ==
    ASSUME Types, GroupInv, NEW b \in Lobs, NEW c \in Lobs, CopyBlob(b, c)
    PROVE  GroupInv'
<1> DEFINE group == IF stream[c] = {} THEN {} ELSE stream[c] \cup {b}
<1>1. /\ b # c
      /\ \A d \in Lobs : stream'[d] = IF d \in group \cup {b} THEN group ELSE stream[d] \ {b}
      /\ locator'[b] = locator[c] /\ \A d \in Lobs : d # b => locator'[d] = locator[d]
  BY DEF Types, CopyBlob
<1>2. \A d \in Lobs : stream[d] \subseteq Lobs
  BY DEF Types
<1>3. \A d \in Lobs : /\ stream[d] = {} => locator[d] = Nil
                      /\ stream[d] # {} => d \in stream[d]
                      /\ \A e \in stream[d] : stream[e] = stream[d] /\ locator[e] = locator[d]
  BY DEF GroupInv, Grouped
<1>4. group \subseteq Lobs /\ (group = {} <=> stream[c] = {}) /\ (group # {} => b \in group)
  BY <1>2
<1>5. \A e \in group : locator'[e] = locator[c]
  BY <1>1, <1>3, <1>4
<1>6. \A e \in group : e # b => e \in stream[c]
  OBVIOUS
<1> HIDE DEF group
<1> SUFFICES ASSUME NEW d \in Lobs
             PROVE  /\ stream'[d] = {} => locator'[d] = Nil
                    /\ stream'[d] # {} => d \in stream'[d]
                    /\ \A e \in stream'[d] : stream'[e] = stream'[d] /\ locator'[e] = locator'[d]
  BY DEF GroupInv, Grouped
<1>7. CASE d \in group \cup {b}
  <2>1. stream'[d] = group /\ \A e \in group : e \in Lobs /\ stream'[e] = group
    BY <1>1, <1>4, <1>7, Zenon
  <2>2. CASE group = {}
    <3>1. d = b /\ locator[c] = Nil
      BY <2>2, <1>3, <1>4, <1>7
    <3> QED
      BY <3>1, <2>1, <2>2, <1>1
  <2>3. CASE group # {}
    <3>1. d \in group
      BY <2>3, <1>4, <1>7
    <3> QED
      BY <3>1, <2>1, <2>3, <1>5
  <2> QED
    BY <2>2, <2>3
<1>8. CASE d \notin group \cup {b}
  <2>1. stream'[d] = stream[d] \ {b} /\ locator'[d] = locator[d]
    BY <1>1, <1>8, Zenon
  <2>2. ASSUME NEW e \in stream[d] \ {b} PROVE e \notin group /\ e \in Lobs
    <3>1. e \in Lobs /\ stream[e] = stream[d] /\ d \in stream[d]
      BY <2>2, <1>2, <1>3
    <3>2. ASSUME e \in group PROVE FALSE
      <4>1. e \in stream[c]
        BY <2>2, <3>2, <1>6
      <4>2. d \in stream[c]
        BY <4>1, <3>1, <1>3
      <4> QED
        BY <4>2, <1>8 DEF group
    <3> QED
      BY <3>1, <3>2
  <2>3. \A e \in stream'[d] : stream'[e] = stream'[d] /\ locator'[e] = locator'[d]
    BY <2>1, <2>2, <1>1, <1>3, SMTT(30)
  <2> QED
    BY <2>1, <2>3, <1>3, <1>8
<1> QED
  BY <1>7, <1>8

(* CreateBlob and SetValue set no other streamer than that of b.           *)
LEMMA Streamers ==
    ASSUME Types, GroupInv, NEW b \in Lobs, NEW v \in Data \cup {0},
           CreateBlob(b, v) \/ SetValue(b, v)
    PROVE  /\ State = "Opened" /\ Store(b, v)
           /\ stream' \in [Lobs -> SUBSET Lobs]
           /\ \A d \in Lobs : stream[d] \subseteq stream'[d]
           /\ Grouped(stream', locator)
<1>1. CASE CreateBlob(b, v)
  <2>1. /\ State = "Opened" /\ Store(b, v) /\ stream[b] = {}
        /\ stream' = [stream EXCEPT ![b] = {b}]
    BY <1>1 DEF CreateBlob
  <2>2. /\ stream' \in [Lobs -> SUBSET Lobs]
        /\ stream'[b] = {b} /\ \A d \in Lobs : d # b => stream'[d] = stream[d]
    BY <2>1 DEF Types
  <2>3. \A d \in Lobs : /\ stream[d] = {} => locator[d] = Nil
                        /\ stream[d] # {} => d \in stream[d]
                        /\ \A e \in stream[d] : stream[e] = stream[d] /\ locator[e] = locator[d]
    BY DEF GroupInv, Grouped
  <2>4. \A d \in Lobs : stream[d] \subseteq Lobs /\ b \notin stream[d]
    BY <2>1, <2>3 DEF Types
  <2>5. Grouped(stream', locator)
    BY <2>2, <2>3, <2>4 DEF Grouped
  <2> QED
    BY <2>1, <2>2, <2>5
<1>2. CASE SetValue(b, v)
  <2>1. State = "Opened" /\ Store(b, v) /\ stream' = stream
    BY <1>2 DEF SetValue
  <2> QED
    BY <2>1 DEF Types, GroupInv
<1> QED
  BY <1>1, <1>2

LEMMA StoreGroups ==
    ASSUME NEW b \in Lobs, NEW v \in Data \cup {0}, Store(b, v),
           stream' \in [Lobs -> SUBSET Lobs], Grouped(stream', locator)
    PROVE  GroupInv'
<1>1. \/ locator' = locator
      \/ stream'[b] # {} /\ \E loc \in {Temporary(NextId), Dummy} : Locate(stream'[b], loc)
  BY Storing DEF Uploaded, NotCreated, NotTried
<1>2. CASE locator' = locator
  BY <1>2 DEF GroupInv
<1>3. ASSUME stream'[b] # {}, NEW loc, Locate(stream'[b], loc) PROVE GroupInv'
  <2>1. locator' = [c \in Lobs |-> IF c \in stream'[b] THEN loc ELSE locator[c]]
    BY <1>3 DEF Locate
  <2>2. Grouped(stream', [c \in Lobs |-> IF c \in stream'[b] THEN loc ELSE locator[c]])
    BY <1>3, Located
  <2> QED
    BY <2>1, <2>2 DEF GroupInv
<1> QED
  BY <1>1, <1>2, <1>3

LEMMA FreeGroups ==
    ASSUME Types, GroupInv, NEW b \in Lobs, Free(b)
    PROVE  GroupInv'
<1>1. CASE locator' = locator /\ stream' = stream
  BY <1>1 DEF GroupInv
<1>2. CASE Locate(stream[b], Nil) /\ stream' = stream
  <2>1. CASE stream[b] = {}
    <3>1. \A d \in Lobs : locator'[d] = locator[d]
      BY <1>2, <2>1 DEF Locate
    <3>2. \A d \in Lobs : stream[d] \subseteq Lobs
      BY DEF Types
    <3> QED
      BY <3>1, <3>2, <1>2 DEF GroupInv, Grouped
  <2>2. CASE stream[b] # {}
    <3>1. locator' = [c \in Lobs |-> IF c \in stream[b] THEN Nil ELSE locator[c]]
      BY <1>2 DEF Locate
    <3>2. stream \in [Lobs -> SUBSET Lobs] /\ Grouped(stream, locator)
      BY DEF Types, GroupInv
    <3>3. Grouped(stream, [c \in Lobs |-> IF c \in stream[b] THEN Nil ELSE locator[c]])
      BY <2>2, <3>2, Located
    <3> QED
      BY <3>1, <3>3, <1>2 DEF GroupInv
  <2> QED
    BY <2>1, <2>2
<1> QED
  BY <1>1, <1>2, Zenon DEF Free
-----------------------------------------------------------------------------
(* Values                                                                  *)

LEMMA LocatorIds ==
    ASSUME Types, NEW b \in Lobs
    PROVE  /\ locator[b][2] \in Nat
           /\ locator[b][2] = 0 => locator[b] \in {Nil, Dummy}
           /\ locator[b] \in {Nil, Dummy} => locator[b][2] = 0
<1>1. locator[b] \in LocatorTypes
  BY DEF Types
<1>2. CASE locator[b] \in {Nil, Dummy}
  BY <1>2 DEF Nil, Dummy
<1>3. CASE locator[b] \in {"temporary", "table"} \X (Nat \ {0})
  BY <1>3 DEF Nil, Dummy
<1> QED
  BY <1>1, <1>2, <1>3 DEF LocatorTypes

(* A value that a step leaves alone still agrees with its LOB, if that     *)
(* still lives or the value is marked.                                     *)
LEMMA ValueKept ==
    ASSUME Types, NEW b \in Lobs, ValueOf(b),
           locator'[b] = locator[b], data'[b] = data[b],
           Len(content') \in Nat, Len(content') >= Len(content),
           \A i \in 1 .. Len(content) : content'[i] = content[i],
           \A w \in {"reset", "broken", "shared"} : <<w, b>> \in past => <<w, b>> \in past',
           State' # "Closed" => /\ State # "Closed"
                                /\ locator[b][2] \in live => locator[b][2] \in live' \/ Marked(b)'
    PROVE  ValueOf(b)'
<1>1. locator[b][2] \in Nat
  BY LocatorIds
<1>2. Len(content) \in Nat
  BY DEF Types
<1>3. Marked(b) => Marked(b)'
  BY DEF Marked
<1>4. locator'[b][2] <= Len(content')
  BY <1>1, <1>2 DEF ValueOf
<1>5. ASSUME Agrees(b) PROVE Marked(b)' \/ Agrees(b)'
  <2>1. CASE locator[b][2] = 0
    BY <2>1 DEF Agrees
  <2>2. CASE locator[b][2] # 0
    <3>1. locator[b][2] \in 1 .. Len(content)
      BY <2>2, <1>1, <1>2 DEF ValueOf
    <3>2. content'[locator'[b][2]] = data'[b]
      BY <3>1, <2>2, <1>5 DEF Agrees
    <3> QED
      BY <3>2, <2>2, <1>5 DEF Agrees
  <2> QED
    BY <2>1, <2>2
<1> QED
  BY <1>3, <1>4, <1>5 DEF ValueOf

(* Steps that give no value another locator or other data.                 *)
LEMMA ValuesKept ==
    ASSUME Types, ValueInv, UNCHANGED <<stream, locator, data, past>>,
           content' \in Seq(Data \cup {0}), Len(content') >= Len(content),
           \A i \in 1 .. Len(content) : content'[i] = content[i],
           LiveInv',
           State' # "Closed" => State # "Closed" /\ live \subseteq live'
    PROVE  ValueInv'
<1>1. Len(content') \in Nat
  OBVIOUS
<1>2. ASSUME NEW b \in Lobs PROVE ValueOf(b)'
  <2>1. ValueOf(b)
    BY DEF ValueInv
  <2> QED
    BY <1>1, <2>1, ValueKept, Zenon
<1>3. ASSUME NEW b \in Lobs, NEW c \in Lobs PROVE Sharing(b, c)'
  BY DEF ValueInv, Sharing
<1> QED
  BY <1>2, <1>3 DEF ValueInv

LEMMA UploadLive ==
    ASSUME Types, LiveInv, NEW v \in Data \cup {0}, NEW written \in BOOLEAN, Upload(v, written)
    PROVE  LiveInv'
<1>1. /\ NextId \in Nat \ {0} /\ NextId = Len(content) + 1
      /\ live' = live \cup {NextId} /\ Len(content') = NextId
  BY Uploading
<1>2. Len(content) \in Nat
  BY DEF Types
<1> QED
  BY <1>1, <1>2 DEF LiveInv

LEMMA StoreValues ==
    ASSUME Types, ValueInv, NEW b \in Lobs, NEW v \in Data \cup {0}, Store(b, v),
           stream' \in [Lobs -> SUBSET Lobs], Grouped(stream', locator),
           \A d \in Lobs : stream[d] \subseteq stream'[d]
    PROVE  ValueInv'
<1>0. /\ Len(content) \in Nat /\ locator \in [Lobs -> LocatorTypes]
      /\ data \in [Lobs -> Data \cup {0}] /\ content \in Seq(Data \cup {0})
      /\ past \in SUBSET (Marks \X Lobs)
  BY DEF Types
<1>1. data' = [data EXCEPT ![b] = v] /\ State' = State
  BY Storing
<1>2. data'[b] = v /\ \A c \in Lobs : c # b => data'[c] = data[c]
  BY <1>0, <1>1
<1>3. \A c \in Lobs : locator[c][2] \in Nat /\ locator[c][2] <= Len(content)
  BY LocatorIds, Zenon DEF ValueInv, ValueOf
<1>4. /\ stream'[b] \in SUBSET Lobs
      /\ stream'[b] # {} => b \in stream'[b]
      /\ \A c \in stream'[b] : stream'[c] = stream'[b]
  BY DEF Grouped
<1>5. ASSUME NEW c \in Lobs, NEW d \in Lobs,
             locator'[c] = locator[c], locator'[d] = locator[d], past \subseteq past'
      PROVE  Sharing(c, d)'
  <2>1. Sharing(c, d)
    BY DEF ValueInv
  <2> QED
    BY <2>1, <1>5 DEF Sharing
<1>6. ASSUME NEW written \in BOOLEAN, Uploaded(b, v, written)
      PROVE  ValueInv'
  <2>1. /\ NextId \in Nat \ {0} /\ NextId = Len(content) + 1
        /\ live' = live \cup {NextId}
        /\ content' \in Seq(Data \cup {0}) /\ Len(content') = NextId
        /\ \A i \in 1 .. Len(content) : content'[i] = content[i]
        /\ content'[NextId] = IF written THEN v ELSE 0
    BY <1>6, Uploading DEF Uploaded
  <2>2. LiveInv'
    BY <1>6, UploadLive DEF ValueInv, Uploaded
  <2>3. /\ \A c \in stream'[b] : locator'[c] = Temporary(NextId)
        /\ \A c \in Lobs : c \notin stream'[b] => locator'[c] = locator[c]
    <3>1. Locate(stream'[b], Temporary(NextId))
      BY <1>6 DEF Uploaded
    <3>2. \A c \in Lobs : locator'[c] = IF c \in stream'[b] THEN Temporary(NextId) ELSE locator[c]
      BY <3>1 DEF Locate
    <3> QED
      BY <3>2, <1>4
  <2>4. \A c \in stream'[b] : /\ locator'[c][1] = "temporary" /\ locator'[c][2] = NextId
                              /\ locator'[c] # Dummy
    BY <2>3 DEF Temporary, Dummy
  <2>5. past \subseteq past' /\ b \in stream'[b]
    BY <1>4, <1>6 DEF Uploaded
  <2>6. ASSUME NEW c \in stream'[b] PROVE ValueOf(c)'
    <3>1. CASE written /\ data'[c] = v
      <4>1. Agrees(c)'
        BY <3>1, <2>1, <2>4 DEF Agrees
      <4> QED
        BY <4>1, <2>1, <2>4 DEF ValueOf
    <3>2. CASE ~(written /\ data'[c] = v)
      <4>1. <<"reset", c>> \in past' \/ <<"broken", c>> \in past'
        BY <3>2, <1>6 DEF Uploaded
      <4>2. Marked(c)'
        BY <4>1 DEF Marked
      <4> QED
        BY <4>2, <2>1, <2>4 DEF ValueOf
    <3> QED
      BY <3>1, <3>2
  <2>7. ASSUME NEW c \in Lobs, c \notin stream'[b] PROVE ValueOf(c)'
    <3>1. ValueOf(c) /\ locator'[c] = locator[c] /\ data'[c] = data[c]
      BY <2>7, <2>3, <2>5, <1>2 DEF ValueInv
    <3>2. Len(content') \in Nat /\ Len(content') >= Len(content)
      BY <2>1, <1>0
    <3>3. locator[c][2] \in live => locator[c][2] \in live'
      BY <2>1
    <3> QED
      BY <3>1, <3>2, <3>3, <2>1, <2>5, <1>1, ValueKept, Zenon
  <2>8. ASSUME NEW c \in Lobs, NEW d \in Lobs PROVE Sharing(c, d)'
    <3>1. CASE c \in stream'[b] /\ d \in stream'[b]
      BY <3>1, <1>4 DEF Sharing
    <3>2. CASE c \notin stream'[b] /\ d \notin stream'[b]
      BY <3>2, <2>3, <2>5, <1>5
    <3>3. CASE c \in stream'[b] /\ d \notin stream'[b]
      BY <3>3, <2>1, <2>3, <2>4, <1>0, <1>3 DEF Sharing
    <3>4. CASE c \notin stream'[b] /\ d \in stream'[b]
      BY <3>4, <2>1, <2>3, <2>4, <1>0, <1>3 DEF Sharing
    <3> QED
      BY <3>1, <3>2, <3>3, <3>4
  <2> QED
    BY <2>2, <2>6, <2>7, <2>8 DEF ValueInv
<1>7. ASSUME NoUpload, past \subseteq past', NEW bs \in SUBSET Lobs,
             \A c \in Lobs : c # b /\ c \notin bs => locator'[c] = locator[c],
             \A c \in bs : locator'[c] = Dummy /\ <<"broken", c>> \in past',
             b \in bs \/ (locator'[b] = locator[b] /\ (locator[b] = Nil \/ <<"reset", b>> \in past'))
      PROVE  ValueInv'
  <2>1. UNCHANGED <<live, content>>
    BY <1>7 DEF NoUpload
  <2>2. ASSUME NEW c \in bs PROVE ValueOf(c)'
    <3>1. locator'[c] = Dummy /\ locator'[c][2] = 0 /\ <<"broken", c>> \in past'
      BY <1>7 DEF Dummy
    <3>2. Marked(c)'
      BY <3>1 DEF Marked
    <3> QED
      BY <3>1, <3>2, <2>1, <1>0 DEF ValueOf
  <2>3. ASSUME b \notin bs PROVE ValueOf(b)'
    <3>1. ValueOf(b) /\ locator'[b] = locator[b]
      BY <2>3, <1>7 DEF ValueInv
    <3>2. CASE locator[b] = Nil
      <4>1. locator'[b][2] = 0 /\ locator'[b] # Dummy
        BY <3>1, <3>2 DEF Nil, Dummy
      <4> QED
        BY <4>1, <2>1, <1>0 DEF ValueOf, Agrees
    <3>3. CASE <<"reset", b>> \in past'
      <4>1. Marked(b)'
        BY <3>3 DEF Marked
      <4> QED
        BY <4>1, <3>1, <2>1, <1>7 DEF ValueOf
    <3> QED
      BY <3>2, <3>3, <2>3, <1>7
  <2>4. ASSUME NEW c \in Lobs, c # b, c \notin bs PROVE ValueOf(c)'
    <3>1. ValueOf(c) /\ locator'[c] = locator[c] /\ data'[c] = data[c]
      BY <2>4, <1>2, <1>7 DEF ValueInv
    <3>2. /\ Len(content') \in Nat /\ Len(content') >= Len(content)
          /\ \A i \in 1 .. Len(content) : content'[i] = content[i]
          /\ locator[c][2] \in live => locator[c][2] \in live'
      BY <2>1, <1>0
    <3> QED
      BY <3>1, <3>2, <1>1, <1>7, ValueKept, Zenon
  <2>5. ASSUME NEW c \in Lobs, NEW d \in Lobs PROVE Sharing(c, d)'
    <3>1. CASE c \in bs \/ d \in bs
      <4>1. Dummy[2] = 0
        BY DEF Dummy
      <4>2. locator'[c] = Dummy \/ locator'[d] = Dummy
        BY <3>1, <1>7, Zenon
      <4> QED
        BY <4>1, <4>2 DEF Sharing
    <3>2. CASE c \notin bs /\ d \notin bs
      BY <3>2, <1>5, <1>7
    <3> QED
      BY <3>1, <3>2
  <2>6. LiveInv'
    BY <2>1 DEF LiveInv, ValueInv
  <2> QED
    BY <2>2, <2>3, <2>4, <2>5, <2>6 DEF ValueInv
<1>8. ASSUME NotCreated(b) PROVE ValueInv'
  <2>1. /\ \A c \in stream'[b] : locator'[c] = Dummy
        /\ \A c \in Lobs : c \notin stream'[b] => locator'[c] = locator[c]
    <3>1. Locate(stream'[b], Dummy)
      BY <1>8 DEF NotCreated
    <3>2. \A c \in Lobs : locator'[c] = IF c \in stream'[b] THEN Dummy ELSE locator[c]
      BY <3>1 DEF Locate
    <3> QED
      BY <3>2, <1>4
  <2>2. \A c \in stream'[b] : <<"broken", c>> \in past'
    BY <1>8 DEF NotCreated
  <2>3. NoUpload /\ past \subseteq past' /\ b \in stream'[b]
    BY <1>4, <1>8 DEF NotCreated
  <2> QED
    BY <2>1, <2>2, <2>3, <1>4, <1>7
<1>9. ASSUME NotTried(b) PROVE ValueInv'
  <2>1. /\ NoUpload /\ locator' = locator /\ past \subseteq past'
        /\ locator[b] = Nil \/ <<"reset", b>> \in past'
    BY <1>9 DEF NotTried
  <2>2. {} \in SUBSET Lobs
    OBVIOUS
  <2> QED
    BY <2>1, <2>2, <1>7, Zenon
<1> QED
  BY <1>6, <1>8, <1>9, Storing

LEMMA SetLocatorValues ==
    ASSUME Types, ValueInv, NEW b \in Lobs, NEW kind \in {"temporary", "table"},
           NEW id \in 1 .. MaxIds, NEW v \in Data, SetLocator(b, kind, id, v)
    PROVE  ValueInv'
<1>0. /\ Len(content) \in Nat /\ locator \in [Lobs -> LocatorTypes]
      /\ data \in [Lobs -> Data \cup {0}] /\ LiveInv /\ NextId = Len(content) + 1
  BY DEF Types, ValueInv, NextId
<1>1. /\ locator' = [locator EXCEPT ![b] = <<kind, id>>]
      /\ data' = [data EXCEPT ![b] = v] /\ State' = State
  BY DEF SetLocator
<1>2. /\ id \in Nat \ {0}
      /\ \/ id = NextId /\ Len(content') = id
         \/ id \in live /\ kind = "temporary" /\ Len(content') = Len(content)
      /\ content' \in Seq(Data \cup {0})
      /\ \A i \in 1 .. Len(content) : content'[i] = content[i]
      /\ content'[id] = v
      /\ \/ kind = "temporary" /\ live' = live \cup {id}
         \/ kind = "table" /\ live' = live
  BY <1>0, Receiving
<1>3. /\ locator'[b] = <<kind, id>> /\ \A c \in Lobs : c # b => locator'[c] = locator[c]
      /\ data'[b] = v /\ \A c \in Lobs : c # b => data'[c] = data[c]
  BY <1>0, <1>1
<1>4. locator'[b][1] = kind /\ locator'[b][2] = id /\ locator'[b] # Dummy
  BY <1>3 DEF Dummy
<1>5. /\ Len(content') \in Nat /\ Len(content') >= Len(content) /\ id <= Len(content')
      /\ id # NextId => id \in 1 .. Len(content)
  BY <1>0, <1>2 DEF LiveInv
<1>6. \A c \in Lobs : locator[c][2] \in Nat /\ locator[c][2] <= Len(content)
  BY LocatorIds, Zenon DEF ValueInv, ValueOf
<1>7. \A c \in Lobs, w \in Marks : c # b /\ <<w, c>> \in past => <<w, c>> \in past'
  BY DEF SetLocator, Forget
<1>8. \A c \in Lobs : id # NextId /\ (c = b \/ locator[c][2] = id) => <<"shared", c>> \in past'
  BY DEF SetLocator
<1>9. LiveInv'
  BY <1>0, <1>2, <1>5 DEF LiveInv
<1>10. ValueOf(b)'
  BY <1>2, <1>3, <1>4, <1>5 DEF ValueOf, Agrees
<1>11. ASSUME NEW c \in Lobs, c # b PROVE ValueOf(c)'
  <2>1. ValueOf(c) /\ locator'[c] = locator[c] /\ data'[c] = data[c]
    BY <1>11, <1>3 DEF ValueInv
  <2>2. \A w \in {"reset", "broken", "shared"} : <<w, c>> \in past => <<w, c>> \in past'
    BY <1>7, <1>11, Zenon DEF Marks
  <2>3. locator[c][2] \in live => locator[c][2] \in live'
    BY <1>2
  <2> QED
    BY <2>1, <2>2, <2>3, <1>1, <1>2, <1>5, ValueKept, SMTT(30)
<1>12. stream'[b] = {b} /\ \A c \in Lobs : c # b => stream'[c] = stream[c] \ {b}
  BY DEF SetLocator, NewStreamer
<1>13. ASSUME NEW c \in Lobs, NEW d \in Lobs PROVE Sharing(c, d)'
  <2>1. CASE c # b /\ d # b
    <3>1. Sharing(c, d) /\ (d \notin stream'[c] => d \notin stream[c])
      BY <2>1, <1>12 DEF ValueInv
    <3> QED
      BY <3>1, <2>1, <1>3, <1>7, Zenon DEF Sharing, Marks
  <2>2. CASE c = b /\ d # b
    BY <2>2, <1>0, <1>3, <1>4, <1>6, <1>8 DEF Sharing
  <2>3. CASE c # b /\ d = b
    BY <2>3, <1>0, <1>3, <1>4, <1>6, <1>8 DEF Sharing
  <2>4. CASE c = b /\ d = b
    BY <2>4, <1>12 DEF Sharing
  <2> QED
    BY <2>1, <2>2, <2>3, <2>4
<1> QED
  BY <1>9, <1>10, <1>11, <1>13 DEF ValueInv

LEMMA BindValues ==
    ASSUME Types, ValueInv, NEW b \in Lobs, Bind(b)
    PROVE  ValueInv'
<1>1. UNCHANGED <<stream, locator, data, State, past>>
  BY DEF Bind, lobVars
<1>2. content \in Seq(Data \cup {0}) /\ Len(content) \in Nat /\ LiveInv
  BY DEF Types, ValueInv
<1>3. ASSUME NEW written \in BOOLEAN, Upload(data[b], written) PROVE ValueInv'
  <2>1. data[b] \in Data \cup {0}
    BY DEF Types
  <2>2. /\ NextId = Len(content) + 1 /\ live' = live \cup {NextId}
        /\ content' \in Seq(Data \cup {0}) /\ Len(content') = NextId
        /\ \A i \in 1 .. Len(content) : content'[i] = content[i]
    BY <1>3, <2>1, Uploading, Zenon
  <2>3. LiveInv'
    BY <1>2, <1>3, <2>1, UploadLive
  <2>4. Len(content') >= Len(content) /\ live \subseteq live'
    BY <2>2, <1>2
  <2> QED
    BY <1>1, <2>2, <2>3, <2>4, ValuesKept
<1>4. ASSUME NoUpload PROVE ValueInv'
  <2>1. UNCHANGED <<live, content>> /\ LiveInv'
    BY <1>2, <1>4 DEF NoUpload, LiveInv
  <2>2. content' \in Seq(Data \cup {0}) /\ Len(content') >= Len(content)
    BY <2>1, <1>2
  <2> QED
    BY <1>1, <2>1, <2>2, ValuesKept
<1> QED
  BY <1>3, <1>4, Zenon DEF Bind

LEMMA CloseValues ==
    ASSUME Types, ValueInv, Close \/ FreeBatch \/ Closed
    PROVE  ValueInv'
<1>1. UNCHANGED <<stream, locator, data, past, content>>
  BY DEF Close, FreeBatch, Closed, lobVars
<1>2. \/ State # "Closed" /\ live' = live
      \/ State' = "Closed" /\ live' = {}
  BY DEF Close, FreeBatch, Closed
<1>3. content' \in Seq(Data \cup {0}) /\ Len(content') >= Len(content)
  BY <1>1 DEF Types
<1>4. LiveInv'
  BY <1>1, <1>2 DEF LiveInv, ValueInv
<1> QED
  BY <1>1, <1>2, <1>3, <1>4, ValuesKept

LEMMA FreeValues ==
    ASSUME Types, GroupInv, ValueInv, NEW b \in Lobs, Free(b)
    PROVE  ValueInv'
<1>1. UNCHANGED <<stream, data, State, content>> /\ content \in Seq(Data \cup {0}) /\ LiveInv
      /\ Len(content) \in Nat /\ locator \in [Lobs -> LocatorTypes] /\ locator[b] # Nil
  BY DEF Free, Types, ValueInv
<1>2. CASE /\ locator[b][1] = "temporary" /\ locator[b][2] \in live
           /\ live' = live \ {locator[b][2]}
           /\ Locate(stream[b], Nil)
           /\ past' = Forget(stream[b]) \cup {<<"freed", b>>}
  <2>0. stream[b] \in SUBSET Lobs /\ Nil \in LocatorTypes /\ Nil[2] = 0 /\ Nil # Dummy
    BY DEF Types, LocatorTypes, Nil, Dummy
  <2>1. /\ \A c \in stream[b] : locator'[c] = Nil
        /\ \A c \in Lobs : c \notin stream[b] => locator'[c] = locator[c]
    BY <2>0, <1>2, LocateTypes
  <2>2. \A c \in Lobs, w \in Marks : c \notin stream[b] /\ <<w, c>> \in past => <<w, c>> \in past'
    BY <1>2 DEF Forget
  <2>3. LiveInv'
    BY <1>1, <1>2 DEF LiveInv
  <2>4. ASSUME NEW c \in stream[b] PROVE ValueOf(c)'
    BY <2>0, <2>1, <1>1 DEF ValueOf, Agrees
  <2>5. ASSUME NEW c \in Lobs, c \notin stream[b] PROVE ValueOf(c)'
    <3>1. ValueOf(c) /\ locator'[c] = locator[c] /\ data'[c] = data[c] /\ Sharing(c, b)
      BY <2>5, <2>1, <1>1 DEF ValueInv
    <3>2. \A w \in {"reset", "broken", "shared"} : <<w, c>> \in past => <<w, c>> \in past'
      BY <2>2, <2>5, Zenon DEF Marks
    <3>3. locator[c][2] \in live => locator[c][2] \in live' \/ Marked(c)'
      <4>1. CASE locator[c][2] = locator[b][2]
        <5>1. locator[c][2] # 0
          BY <4>1, <1>1, <1>2 DEF LiveInv
        <5>2. b \notin stream[c]
          BY <2>5 DEF GroupInv, Grouped
        <5>3. <<"shared", c>> \in past'
          BY <5>1, <5>2, <4>1, <3>1, <3>2 DEF Sharing
        <5> QED
          BY <5>3 DEF Marked
      <4>2. CASE locator[c][2] # locator[b][2]
        BY <4>2, <1>2
      <4> QED
        BY <4>1, <4>2
    <3>4. Len(content') \in Nat /\ Len(content') >= Len(content)
      BY <1>1
    <3> QED
      BY <3>1, <3>2, <3>3, <3>4, <1>1, ValueKept
  <2>6. ASSUME NEW c \in Lobs, NEW d \in Lobs PROVE Sharing(c, d)'
    <3>1. CASE c \notin stream[b] /\ d \notin stream[b]
      <4>1. Sharing(c, d)
        BY DEF ValueInv
      <4> QED
        BY <4>1, <3>1, <2>1, <2>2, <1>1, Zenon DEF Sharing, Marks
    <3>2. CASE c \in stream[b] \/ d \in stream[b]
      BY <3>2, <2>0, <2>1 DEF Sharing
    <3> QED
      BY <3>1, <3>2
  <2> QED
    BY <2>3, <2>4, <2>5, <2>6 DEF ValueInv
<1>3. CASE UNCHANGED <<live, locator, past>>
  <2>1. LiveInv'
    BY <1>1, <1>3 DEF LiveInv
  <2> QED
    BY <1>1, <1>3, <2>1, ValuesKept
<1> QED
  BY <1>2, <1>3, Zenon DEF Free

(* A value with the streamer, the data and the past of another one.        *)
LEMMA CopyValues ==
    ASSUME Types, GroupInv, ValueInv, NEW b \in Lobs, NEW c \in Lobs, CopyBlob(b, c)
    PROVE  ValueInv'
<1> DEFINE group == IF stream[c] = {} THEN {} ELSE stream[c] \cup {b}
<1>0. /\ UNCHANGED <<State, live, content>> /\ b # c
      /\ content \in Seq(Data \cup {0}) /\ Len(content) \in Nat
  BY DEF CopyBlob, Types
<1>1. /\ \A d \in Lobs : stream'[d] = IF d \in group \cup {b} THEN group ELSE stream[d] \ {b}
      /\ locator'[b] = locator[c] /\ \A d \in Lobs : d # b => locator'[d] = locator[d]
      /\ data'[b] = data[c] /\ \A d \in Lobs : d # b => data'[d] = data[d]
  BY DEF Types, CopyBlob
<1>2. \A d \in Lobs, w \in Marks : d # b /\ <<w, d>> \in past => <<w, d>> \in past'
  BY DEF CopyBlob, Forget
<1>3. \A w \in Marks : <<w, c>> \in past => <<w, b>> \in past'
  BY DEF CopyBlob
<1>4. \A d \in Lobs : /\ stream[d] = {} => locator[d] = Nil
                      /\ stream[d] # {} => d \in stream[d]
                      /\ \A e \in stream[d] : stream[e] = stream[d]
  BY DEF GroupInv, Grouped
<1>5. ValueOf(b)'
  <2>1. ValueOf(c)
    BY DEF ValueInv
  <2>2. Marked(c) => Marked(b)'
    BY <1>3 DEF Marked, Marks
  <2>3. Agrees(c) => Agrees(b)'
    BY <1>0, <1>1 DEF Agrees
  <2>4. locator'[b] = Dummy => <<"broken", b>> \in past'
    BY <2>1, <1>1, <1>3, SMTT(30) DEF ValueOf, Marks
  <2> QED
    BY <2>1, <2>2, <2>3, <2>4, <1>0, <1>1 DEF ValueOf
<1>6. ASSUME NEW d \in Lobs, d # b PROVE ValueOf(d)'
  <2>1. ValueOf(d) /\ locator'[d] = locator[d] /\ data'[d] = data[d]
    BY <1>1, <1>6 DEF ValueInv
  <2>2. /\ Len(content') \in Nat /\ Len(content') >= Len(content)
        /\ \A i \in 1 .. Len(content) : content'[i] = content[i]
    BY <1>0
  <2>3. \A w \in {"reset", "broken", "shared"} : <<w, d>> \in past => <<w, d>> \in past'
    BY <1>2, <1>6, Zenon DEF Marks
  <2> QED
    BY <2>1, <2>2, <2>3, <1>0, ValueKept, SMTT(30)
<1>7. ASSUME NEW d \in Lobs, NEW e \in Lobs PROVE Sharing(d, e)'
  <2> SUFFICES ASSUME e \notin stream'[d], locator'[d][2] = locator'[e][2], locator'[d][2] # 0
               PROVE  <<"shared", d>> \in past'
    BY DEF Sharing
  <2>1. CASE d # b /\ e # b
    <3>1. e \notin stream[d]
      <4>1. CASE d \in group
        <5>1. d \in stream[c] /\ stream'[d] = group /\ stream[c] \subseteq group
          BY <4>1, <2>1, <1>1, Zenon
        <5>2. stream[d] = stream[c]
          BY <5>1, <1>4
        <5> QED
          BY <5>1, <5>2
      <4>2. CASE d \notin group
        <5>1. stream'[d] = stream[d] \ {b}
          BY <4>2, <2>1, <1>1, Zenon
        <5> QED
          BY <5>1, <2>1
      <4> QED
        BY <4>1, <4>2
    <3>2. Sharing(d, e) /\ locator'[d] = locator[d] /\ locator'[e] = locator[e]
      BY <2>1, <1>1 DEF ValueInv
    <3>3. <<"shared", d>> \in past
      BY <3>1, <3>2 DEF Sharing
    <3> QED
      BY <3>3, <2>1, <1>2, Zenon DEF Marks
  <2>2. ASSUME d = b \/ e = b PROVE locator[c][2] # 0 /\ stream[c] # {} /\ group = stream[c] \cup {b}
    <3>1. locator[c][2] # 0
      BY <2>2, <1>1
    <3> QED
      BY <3>1, <1>4 DEF Nil
  <2>3. CASE d = b /\ e # b
    <3>1. e \notin stream[c] /\ Sharing(c, e) /\ locator[c][2] = locator[e][2]
      BY <2>2, <2>3, <1>1, Zenon DEF ValueInv
    <3>2. <<"shared", c>> \in past
      BY <3>1, <2>2, <2>3 DEF Sharing
    <3> QED
      BY <3>2, <2>3, <1>3 DEF Marks
  <2>4. CASE d # b /\ e = b
    <3>1. d \notin stream[c]
      BY <2>2, <2>4, <1>1, Zenon
    <3>2. c \notin stream[d] /\ Sharing(d, c) /\ locator[d][2] = locator[c][2]
      BY <3>1, <2>4, <1>1, <1>4 DEF ValueInv
    <3>3. <<"shared", d>> \in past
      BY <3>2, <2>2, <2>4 DEF Sharing
    <3> QED
      BY <3>3, <2>4, <1>2, Zenon DEF Marks
  <2>5. CASE d = b /\ e = b
    BY <2>2, <2>5, <1>1, Zenon
  <2> QED
    BY <2>1, <2>3, <2>4, <2>5
<1>8. LiveInv'
  BY <1>0 DEF LiveInv, ValueInv
<1> QED
  BY <1>5, <1>6, <1>7, <1>8 DEF ValueInv

LEMMA NilValues ==
    ASSUME Types, ValueInv, NEW b \in Lobs, SetLocatorNil(b)
    PROVE  ValueInv'
<1>0. /\ UNCHANGED <<State, live, content>> /\ Nil[2] = 0 /\ Nil # Dummy
      /\ content \in Seq(Data \cup {0}) /\ Len(content) \in Nat
  BY DEF SetLocatorNil, Types, Nil, Dummy
<1>1. /\ \A d \in Lobs : d # b => stream'[d] = stream[d] \ {b}
      /\ locator'[b] = Nil /\ \A d \in Lobs : d # b => locator'[d] = locator[d]
      /\ \A d \in Lobs : d # b => data'[d] = data[d]
  BY DEF Types, SetLocatorNil, NewStreamer
<1>2. \A d \in Lobs, w \in Marks : d # b /\ <<w, d>> \in past => <<w, d>> \in past'
  BY DEF SetLocatorNil, Forget
<1>3. ValueOf(b)'
  BY <1>0, <1>1 DEF ValueOf, Agrees
<1>4. ASSUME NEW d \in Lobs, d # b PROVE ValueOf(d)'
  <2>1. ValueOf(d) /\ locator'[d] = locator[d] /\ data'[d] = data[d]
    BY <1>1, <1>4 DEF ValueInv
  <2>2. /\ Len(content') \in Nat /\ Len(content') >= Len(content)
        /\ \A i \in 1 .. Len(content) : content'[i] = content[i]
    BY <1>0
  <2>3. \A w \in {"reset", "broken", "shared"} : <<w, d>> \in past => <<w, d>> \in past'
    BY <1>2, <1>4, Zenon DEF Marks
  <2> QED
    BY <2>1, <2>2, <2>3, <1>0, ValueKept
<1>5. ASSUME NEW d \in Lobs, NEW e \in Lobs PROVE Sharing(d, e)'
  <2>1. CASE d # b /\ e # b
    <3>1. Sharing(d, e) /\ (e \notin stream'[d] => e \notin stream[d])
      BY <2>1, <1>1 DEF ValueInv
    <3> QED
      BY <3>1, <2>1, <1>1, <1>2, Zenon DEF Sharing, Marks
  <2>2. CASE d = b \/ e = b
    BY <2>2, <1>0, <1>1 DEF Sharing
  <2> QED
    BY <2>1, <2>2
<1>6. LiveInv'
  BY <1>0 DEF LiveInv, ValueInv
<1> QED
  BY <1>3, <1>4, <1>5, <1>6 DEF ValueInv

(* A value that nothing has happened to and that needs no upload is bound  *)
(* by a locator of its data.                                               *)
LEMMA BindBound ==
    ASSUME Types, ValueInv, NEW b \in Lobs, Bind(b)
    PROVE  BoundData'
<1>1. CASE bound' = Unbound
  BY <1>1 DEF BoundData, Unbound
<1>2. CASE bound' = [meant |-> data[b], sent |-> data[b], excused |-> FALSE]
  BY <1>2 DEF BoundData
<1>3. CASE /\ ~EncodeUploads(b)
           /\ bound' = [meant |-> data[b], sent |-> At(locator[b]), excused |-> Marked(b)]
  <2>1. CASE Marked(b)
    BY <2>1, <1>3 DEF BoundData
  <2>2. CASE ~Marked(b)
    <3>1. Agrees(b) /\ locator[b] # Dummy /\ State # "Closed"
      BY <2>2 DEF ValueInv, ValueOf, Marked, Bind
    <3>2. CASE locator[b][2] = 0
      <4>1. locator[b] = Nil
        BY <3>1, <3>2, LocatorIds
      <4>2. data[b] = 0
        BY <4>1, <1>3 DEF EncodeUploads
      <4>3. At(locator[b]) = 0
        BY <3>2 DEF At
      <4> QED
        BY <4>2, <4>3, <1>3 DEF BoundData
    <3>3. CASE locator[b][2] # 0
      <4>1. At(locator[b]) = data[b]
        BY <3>1, <3>3 DEF Agrees, At
      <4> QED
        BY <4>1, <1>3 DEF BoundData
    <3> QED
      BY <3>2, <3>3
  <2> QED
    BY <2>1, <2>2
<1> QED
  <2>1. \/ bound' = Unbound
        \/ bound' = [meant |-> data[b], sent |-> data[b], excused |-> FALSE]
        \/ /\ ~EncodeUploads(b)
           /\ bound' = [meant |-> data[b], sent |-> At(locator[b]), excused |-> Marked(b)]
    BY DEF Bind, Marked
  <2> QED
    BY <2>1, <1>1, <1>2, <1>3
-----------------------------------------------------------------------------
(* The connection                                                          *)

(* A step that creates a temporary LOB, or is given one, notes it.         *)
LEMMA NotedMore ==
    ASSUME NotedInv, State = "Opened", NEW id,
           SomeFreed => SomeFreed',
           Distinct(temporaryLocs) => Distinct(temporaryLocs'),
           live' = live \cup {id}, Ids(temporaryLocs') = Ids(temporaryLocs) \cup {id}
    PROVE  NotedInv'
<1>1. Distinct(temporaryLocs') /\ live' \subseteq Ids(temporaryLocs')
  BY DEF NotedInv
<1>2. SomeFreed' \/ Ids(temporaryLocs') \subseteq live'
  BY DEF NotedInv
<1> QED
  BY <1>1, <1>2 DEF NotedInv

LEMMA NotedKept ==
    ASSUME NotedInv, SomeFreed => SomeFreed', UNCHANGED <<live, temporaryLocs>>,
           State' # "Closed" => State # "Closed"
    PROVE  NotedInv'
<1>1. Ids(temporaryLocs') = Ids(temporaryLocs) /\ Distinct(temporaryLocs')
  BY DEF NotedInv
<1> QED
  BY <1>1 DEF NotedInv

LEMMA NotedStep ==
    ASSUME IInv, Next
    PROVE  NotedInv'
<1>0. Types /\ GroupInv /\ NotedInv /\ LiveInv
  BY SMTT(30) DEF IInv, ValueInv
<1>1. ASSUME NEW b \in Lobs, NEW v \in Data \cup {0}, CreateBlob(b, v) \/ SetValue(b, v)
      PROVE  NotedInv'
  <2>1. State = "Opened" /\ Store(b, v)
    BY <1>1, SMTT(30) DEF CreateBlob, SetValue
  <2>2. past \subseteq past' /\ State' = State
    BY <2>1, Storing DEF Uploaded, NotCreated, NotTried
  <2>3. SomeFreed => SomeFreed'
    BY <2>2 DEF SomeFreed
  <2>4. ASSUME NEW written \in BOOLEAN, Upload(v, written) PROVE NotedInv'
    <3>1. /\ live' = live \cup {NextId}
          /\ Ids(temporaryLocs') = Ids(temporaryLocs) \cup {NextId}
          /\ Distinct(temporaryLocs) => Distinct(temporaryLocs')
      BY <1>0, <2>4, Uploading
    <3> QED
      BY <1>0, <2>1, <2>3, <3>1, NotedMore
  <2>5. ASSUME NoUpload PROVE NotedInv'
    BY <1>0, <2>2, <2>3, <2>5, NotedKept DEF NoUpload
  <2> QED
    BY <2>1, <2>4, <2>5, Storing DEF Uploaded, NotCreated, NotTried
<1>2. ASSUME NEW b \in Lobs, NEW v \in Data, NEW kind \in {"temporary", "table"},
             NEW id \in 1 .. MaxIds, SetLocator(b, kind, id, v)
      PROVE  NotedInv'
  <2>1. State = "Opened" /\ State' = State
    BY <1>2 DEF SetLocator
  <2>2. SomeFreed => SomeFreed'
    BY <1>2 DEF SetLocator, Forget, SomeFreed
  <2>3. /\ Distinct(temporaryLocs) => Distinct(temporaryLocs')
        /\ \/ /\ live' = live \cup {id}
              /\ Ids(temporaryLocs') = Ids(temporaryLocs) \cup {id}
           \/ live' = live /\ temporaryLocs' = temporaryLocs
    BY <1>0, <1>2, Receiving
  <2> QED
    BY <1>0, <2>1, <2>2, <2>3, NotedMore, NotedKept
<1>3. ASSUME NEW b \in Lobs, Bind(b) PROVE NotedInv'
  <2>1. State = "Opened" /\ State' = State /\ past' = past
    BY <1>3 DEF Bind
  <2>2. SomeFreed => SomeFreed'
    BY <2>1 DEF SomeFreed
  <2>3. ASSUME NEW written \in BOOLEAN, Upload(data[b], written) PROVE NotedInv'
    <3>1. data[b] \in Data \cup {0}
      BY <1>0 DEF Types
    <3>2. /\ live' = live \cup {NextId}
          /\ Ids(temporaryLocs') = Ids(temporaryLocs) \cup {NextId}
          /\ Distinct(temporaryLocs) => Distinct(temporaryLocs')
      BY <1>0, <2>3, <3>1, Uploading, SMTT(30)
    <3> QED
      BY <1>0, <2>1, <2>2, <3>2, NotedMore
  <2>4. ASSUME NoUpload PROVE NotedInv'
    BY <1>0, <2>1, <2>2, <2>4, NotedKept DEF NoUpload
  <2> QED
    BY <1>3, <2>3, <2>4, Zenon DEF Bind
<1>4. ASSUME NEW b \in Lobs, Free(b) PROVE NotedInv'
  <2>1. State = "Opened" /\ State' = State /\ temporaryLocs' = temporaryLocs
    BY <1>4 DEF Free
  <2>2. CASE live' \subseteq live /\ <<"freed", b>> \in past'
    <3>1. SomeFreed'
      BY <2>2 DEF SomeFreed
    <3>2. live' \subseteq Ids(temporaryLocs') /\ Distinct(temporaryLocs')
      BY <1>0, <2>1, <2>2 DEF NotedInv
    <3> QED
      BY <3>1, <3>2 DEF NotedInv
  <2>3. CASE UNCHANGED <<live, past>>
    <3>1. SomeFreed => SomeFreed'
      BY <2>3 DEF SomeFreed
    <3> QED
      BY <1>0, <2>1, <2>3, <3>1, NotedKept
  <2> QED
    BY <1>4, <2>2, <2>3 DEF Free
<1>5. ASSUME NEW b \in Lobs, SetLocatorNil(b) \/ \E c \in Lobs : CopyBlob(b, c)
      PROVE  NotedInv'
  <2>1. UNCHANGED <<live, temporaryLocs, State>>
    BY <1>5 DEF SetLocatorNil, CopyBlob
  <2>2. SomeFreed => SomeFreed'
    BY <1>5 DEF SetLocatorNil, CopyBlob, Forget, SomeFreed
  <2> QED
    BY <1>0, <2>1, <2>2, NotedKept
<1>6. CASE Close \/ FreeBatch
  <2>1. UNCHANGED <<live, temporaryLocs, past>> /\ State # "Closed"
    BY <1>6 DEF Close, FreeBatch
  <2>2. SomeFreed => SomeFreed'
    BY <2>1 DEF SomeFreed
  <2> QED
    BY <1>0, <2>1, <2>2, NotedKept
<1>7. CASE Closed
  <2>1. State' = "Closed" /\ (temporaryLocs' = <<>> \/ temporaryLocs' = temporaryLocs)
    BY <1>7 DEF Closed
  <2>2. Distinct(<<>>)
    BY DEF Distinct
  <2>3. Distinct(temporaryLocs')
    BY <1>0, <2>1, <2>2 DEF NotedInv
  <2> QED
    BY <2>1, <2>3 DEF NotedInv
<1> QED
  BY <1>1, <1>2, <1>3, <1>4, <1>5, <1>6, <1>7 DEF Next

LEMMA FreedStep ==
    ASSUME IInv, Next
    PROVE  FreedInv'
<1>0. Types /\ NotedInv /\ FreedInv
  BY DEF IInv
<1>1. CASE State' = "Opened" /\ freed' = freed /\ State = "Opened"
  BY <1>0, <1>1 DEF FreedInv
<1>2. CASE Close
  <2>1. /\ State' = "Freeing" /\ start' = 0 /\ UNCHANGED <<temporaryLocs, live, past>>
        /\ freed' = [sent |-> <<>>, noted |-> temporaryLocs, live |-> live]
        /\ State = "Opened"
    BY <1>2 DEF Close
  <2>2. freed'.sent = <<>> /\ freed'.noted = temporaryLocs /\ freed'.live = live
    BY <2>1
  <2>3. temporaryLocs \in Seq(Locators)
    BY <1>0 DEF Types
  <2>4. Loop(<<>>, temporaryLocs, 0)
    BY <2>3 DEF Loop, Distinct
  <2>5. (SomeFreed => SomeFreed') /\ Distinct(temporaryLocs) /\ live \subseteq Ids(temporaryLocs)
        /\ (SomeFreed \/ Ids(temporaryLocs) \subseteq live)
    BY <1>0, <2>1 DEF NotedInv, SomeFreed
  <2> QED
    BY <2>1, <2>2, <2>4, <2>5 DEF FreedInv
<1>3. CASE FreeBatch
  <2> DEFINE new == freed.sent \o batch(temporaryLocs, start)
  <2>1. /\ State = "Freeing" /\ start < Len(temporaryLocs)
        /\ freed' = [freed EXCEPT !.sent = new]
        /\ start' = start + Least(start + Batch, Len(temporaryLocs))
        /\ UNCHANGED <<temporaryLocs, State, past>>
    BY <1>3 DEF FreeBatch
  <2>2. /\ Distinct(temporaryLocs) /\ freed.noted = temporaryLocs
        /\ freed.live \subseteq Ids(temporaryLocs)
        /\ SomeFreed \/ Ids(temporaryLocs) \subseteq freed.live
        /\ Loop(freed.sent, temporaryLocs, start)
    BY <1>0, <2>1 DEF FreedInv
  <2>3. freed.sent \in Seq(Locators) /\ temporaryLocs \in Seq(Locators) /\ start \in Nat
    BY <1>0 DEF Types
  <2>4. Loop(new, temporaryLocs, start')
    BY <2>1, <2>2, <2>3, LoopTurn
  <2> HIDE DEF new
  <2>5. freed'.sent = new /\ freed'.noted = temporaryLocs /\ freed'.live = freed.live
    BY <1>0, <2>1, <2>2 DEF Types
  <2>6. SomeFreed => SomeFreed'
    BY <2>1 DEF SomeFreed
  <2> QED
    BY <2>1, <2>2, <2>4, <2>5, <2>6 DEF FreedInv
<1>4. CASE Closed
  <2>1. /\ State = "Freeing" /\ State' = "Closed" /\ start >= Len(temporaryLocs)
        /\ UNCHANGED <<start, freed, past>>
    BY <1>4 DEF Closed
  <2>2. SomeFreed => SomeFreed'
    BY <2>1 DEF SomeFreed
  <2> QED
    BY <1>0, <2>1, <2>2 DEF FreedInv
<1> QED
  <2>1. ASSUME NEW b \in Lobs,
               Bind(b) \/ Free(b) \/ SetLocatorNil(b) \/ \E c \in Lobs : CopyBlob(b, c)
        PROVE  State' = "Opened" /\ freed' = freed /\ State = "Opened"
    BY <2>1, SMTT(30) DEF Bind, Free, SetLocatorNil, CopyBlob
  <2>2. ASSUME NEW b \in Lobs, NEW v \in Data \cup {0}, CreateBlob(b, v) \/ SetValue(b, v)
        PROVE  State' = "Opened" /\ freed' = freed /\ State = "Opened"
    BY <2>2 DEF CreateBlob, SetValue, Store
  <2>3. ASSUME NEW b \in Lobs, NEW v \in Data, NEW kind \in {"temporary", "table"},
               NEW id \in 1 .. MaxIds, SetLocator(b, kind, id, v)
        PROVE  State' = "Opened" /\ freed' = freed /\ State = "Opened"
    BY <2>3 DEF SetLocator
  <2> QED
    BY <1>1, <1>2, <1>3, <1>4, <2>1, <2>2, <2>3, SMTT(30) DEF Next

(* What was bound is forgotten by every step but Bind.                     *)
LEMMA ValuesStep ==
    ASSUME IInv, Next
    PROVE  Types' /\ GroupInv' /\ ValueInv' /\ BoundData'
<1>0. Types /\ GroupInv /\ ValueInv /\ LiveInv
  BY DEF IInv, ValueInv
<1>1. ASSUME bound' = Unbound PROVE BoundData'
  BY <1>1 DEF BoundData, Unbound
<1>2. ASSUME UNCHANGED <<stream, locator>> PROVE GroupInv'
  BY <1>0, <1>2 DEF GroupInv
<1>3. ASSUME NEW b \in Lobs, Bind(b) PROVE Types' /\ GroupInv' /\ ValueInv' /\ BoundData'
  <2>1. UNCHANGED <<stream, locator>>
    BY <1>3 DEF Bind, lobVars
  <2> QED
    BY <2>1, <1>0, <1>2, <1>3, BindTypes, BindValues, BindBound, SMTT(30)
<1>4. ASSUME NEW b \in Lobs, Free(b) PROVE Types' /\ GroupInv' /\ ValueInv' /\ BoundData'
  <2>1. bound' = Unbound
    BY <1>4, SMTT(30) DEF Free
  <2> QED
    BY <2>1, <1>0, <1>1, <1>4, FreeTypes, FreeGroups, FreeValues
<1>5. ASSUME NEW b \in Lobs, NEW v \in Data \cup {0}, CreateBlob(b, v) \/ SetValue(b, v)
      PROVE  Types' /\ GroupInv' /\ ValueInv' /\ BoundData'
  <2>1. /\ Store(b, v) /\ stream' \in [Lobs -> SUBSET Lobs] /\ Grouped(stream', locator)
        /\ \A d \in Lobs : stream[d] \subseteq stream'[d]
    BY <1>0, <1>5, Streamers
  <2>2. bound' = Unbound
    BY <2>1, Storing
  <2> QED
    BY <2>1, <2>2, <1>0, <1>1, StoreTypes, StoreGroups, StoreValues, SMTT(30)
<1>6. ASSUME NEW b \in Lobs, NEW v \in Data, NEW kind \in {"temporary", "table"},
             NEW id \in 1 .. MaxIds, SetLocator(b, kind, id, v)
      PROVE  Types' /\ GroupInv' /\ ValueInv' /\ BoundData'
  <2>1. bound' = Unbound /\ NewStreamer(b) /\ locator' = [locator EXCEPT ![b] = <<kind, id>>]
    BY <1>6 DEF SetLocator
  <2> QED
    BY <2>1, <1>0, <1>1, <1>6, SetLocatorTypes, Alone, SetLocatorValues, Zenon
<1>7. ASSUME NEW b \in Lobs, SetLocatorNil(b)
      PROVE  Types' /\ GroupInv' /\ ValueInv' /\ BoundData'
  <2>1. bound' = Unbound /\ NewStreamer(b) /\ locator' = [locator EXCEPT ![b] = Nil]
    BY <1>7 DEF SetLocatorNil
  <2> QED
    BY <2>1, <1>0, <1>1, <1>7, NilTypes, Alone, NilValues, Zenon
<1>8. ASSUME NEW b \in Lobs, NEW c \in Lobs, CopyBlob(b, c)
      PROVE  Types' /\ GroupInv' /\ ValueInv' /\ BoundData'
  <2>1. bound' = Unbound
    BY <1>8 DEF CopyBlob
  <2> QED
    BY <2>1, <1>0, <1>1, <1>8, CopyTypes, CopyGroups, CopyValues
<1>9. CASE Close \/ FreeBatch \/ Closed
  <2>1. bound' = Unbound /\ UNCHANGED <<stream, locator>>
    BY <1>9 DEF Close, FreeBatch, Closed, lobVars
  <2> QED
    BY <2>1, <1>0, <1>1, <1>2, <1>9, CloseTypes, CloseValues
<1> QED
  BY <1>3, <1>4, <1>5, <1>6, <1>7, <1>8, <1>9 DEF Next

-----------------------------------------------------------------------------
(* The theorems                                                            *)

LEMMA InitIInv == Init => IInv
<1> SUFFICES ASSUME Init PROVE IInv
  OBVIOUS
<1>1. <<>> \in Seq(Locators) /\ <<>> \in Seq(Data \cup {0}) /\ Len(<<>>) = 0
  OBVIOUS
<1>2. Types
  BY <1>1, SMTT(30) DEF Init, Types, LocatorTypes
<1>3. NotedInv
  BY DEF Init, NotedInv, Distinct, Ids
<1>4. \A b \in Lobs : locator[b] = Nil /\ Nil[2] = 0 /\ Nil # Dummy
  BY DEF Init, Nil, Dummy
<1>5. ValueInv
  <2>1. LiveInv
    BY DEF Init, LiveInv
  <2>2. content = <<>> /\ \A b \in Lobs : locator[b][2] = 0 /\ locator[b] # Dummy
    BY <1>4 DEF Init
  <2>3. \A b \in Lobs : ValueOf(b)
    BY <1>1, <2>2 DEF ValueOf, Agrees
  <2>4. \A b, c \in Lobs : Sharing(b, c)
    BY <2>2 DEF Sharing
  <2> QED
    BY <2>1, <2>3, <2>4 DEF ValueInv
<1>6. FreedInv /\ BoundData
  BY DEF Init, FreedInv, BoundData, Unbound
<1>7. GroupInv
  BY DEF Init, GroupInv, Grouped
<1> QED
  BY <1>2, <1>3, <1>5, <1>6, <1>7 DEF IInv

LEMMA IInvStep == IInv /\ [Next]_vars => IInv'
<1> SUFFICES ASSUME IInv, [Next]_vars PROVE IInv'
  OBVIOUS
<1>1. CASE Next
  BY <1>1, NotedStep, FreedStep, ValuesStep, SMTT(30) DEF IInv
<1>2. CASE UNCHANGED vars
  BY <1>2, Zenon DEF vars, lobVars, IInv, Types, GroupInv, NotedInv, ValueInv, LiveInv,
     ValueOf, Marked, Agrees, Sharing, FreedInv, BoundData, SomeFreed
<1> QED
  BY <1>1, <1>2

LEMMA Invariance == Spec => []IInv
  BY InitIInv, IInvStep, PTL DEF Spec

(* While a connection is open it has noted every temporary LOB that lives, *)
(* those included whose data could not be written and those of the server. *)
THEOREM NothingForgotten == Spec => []Noted
<1>1. IInv => Noted
  BY DEF IInv, NotedInv, Noted
<1> QED
  BY <1>1, Invariance, PTL

(* A statement is given a LOB with the data of the value that was bound,   *)
(* unless that value was set again, failed to upload or shares its LOB.    *)
THEOREM DataIsBound == Spec => []BoundData
<1>1. IInv => BoundData
  BY DEF IInv
<1> QED
  BY <1>1, Invariance, PTL

(* Closing a connection frees every temporary LOB, up to two batches,      *)
(* whatever the length of a batch.                                         *)
THEOREM AllFreed == Spec => []FreesAll
<1>1. ASSUME IInv PROVE FreesAll
  <2> SUFFICES ASSUME State = "Closed", Len(freed.noted) <= 2 * Batch
               PROVE  freed.live \subseteq Ids(freed.sent)
    BY DEF FreesAll
  <2>1. /\ freed.noted \in Seq(Locators) /\ start \in Nat /\ start >= Len(freed.noted)
        /\ freed.live \subseteq Ids(freed.noted)
        /\ Loop(freed.sent, freed.noted, start)
    BY <1>1 DEF IInv, Types, FreedInv
  <2>2. \A i \in DOMAIN freed.noted : i <= start
    BY <2>1
  <2>3. \A i \in DOMAIN freed.noted : \E k \in DOMAIN freed.sent : freed.sent[k] = freed.noted[i]
    BY <2>1, <2>2 DEF Loop
  <2>4. Ids(freed.noted) \subseteq Ids(freed.sent)
    BY <2>3 DEF Ids
  <2> QED
    BY <2>1, <2>4
<1> QED
  BY <1>1, Invariance, PTL

(* Closing a connection sends no locator twice, whatever the number of     *)
(* batches, and only locators that live, unless Free was called.           *)
THEOREM FreedOnce == Spec => []FreesOnce
<1>1. ASSUME IInv PROVE FreesOnce
  <2>1. CASE State = "Opened"
    <3>1. freed.sent = <<>>
      BY <1>1, <2>1 DEF IInv, FreedInv
    <3> QED
      BY <3>1 DEF FreesOnce, Ids
  <2>2. CASE State # "Opened"
    <3>1. /\ Loop(freed.sent, freed.noted, start)
          /\ SomeFreed \/ Ids(freed.noted) \subseteq freed.live
      BY <1>1, <2>2 DEF IInv, FreedInv
    <3>2. Ids(freed.sent) \subseteq Ids(freed.noted)
      BY <3>1 DEF Loop, Ids
    <3>3. Distinct(freed.sent)
      BY <3>1 DEF Loop
    <3> QED
      BY <3>1, <3>2, <3>3 DEF FreesOnce, Distinct, SomeFreed
  <2> QED
    BY <2>1, <2>2
<1> QED
  BY <1>1, Invariance, PTL
=============================================================================
