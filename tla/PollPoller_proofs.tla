-------------------------- MODULE PollPoller_proofs --------------------------
(***************************************************************************)
(* Proofs about modules PollPoller and Dispatch, for any channels and      *)
(* descriptors, and whatever poll(2) reports.                              *)
(***************************************************************************)
EXTENDS Dispatch, SequenceTheorems, DataLemmas, TLAPS

Pollfd == [fd : Int, events : SUBSET Events]

(* What keeps the assertion of the destructor about the poller true: while *)
(* no assertion has failed, a channel in channels_ has add_to_loop_.       *)
Noted == failed = "none" => \A c \in channels : added[c]

NeverInternal == failed \notin InternalFailures

(* The inductive invariant.                                                *)
IInv ==
  /\ TypeOK
  /\ PollerAgrees
  /\ NoEventMissed
  /\ NeverInternal
  /\ Noted
-----------------------------------------------------------------------------
(* A descriptor, muted or not, tells which it is: that of a channel is not *)
(* negative, and a muted one is.                                           *)
LEMMA OneDescriptor ==
  ASSUME NEW c \in Channels, NEW d \in Channels,
         NEW x \in {Fd[c], Muted(c)}, x \in {Fd[d], Muted(d)}
  PROVE  Fd[c] = Fd[d] /\ Muted(c) = Muted(d)
<1>1. Fd[c] \in Nat /\ Fd[d] \in Nat
  BY PollerAssumption
<1>. QED
  BY <1>1 DEF Muted

(* In channels_ it tells whose it is. *)
LEMMA OneOwner ==
  ASSUME TypeOK, NEW c \in channels, NEW d \in channels,
         NEW x \in {Fd[c], Muted(c)}, x \in {Fd[d], Muted(d)}
  PROVE  c = d
<1>1. c \in Channels /\ d \in Channels /\ Holders(c) = {c}
  BY DEF TypeOK
<1>2. Fd[c] = Fd[d]
  BY <1>1, OneDescriptor
<1>3. d \in Holders(c)
  BY <1>2 DEF Holders
<1>. QED
  BY <1>1, <1>3

LEMMA OwnerFound ==
  ASSUME TypeOK, NEW known \in SUBSET channels, NEW c \in known, NEW x \in {Fd[c], Muted(c)}
  PROVE  OwnersIn(known, x) = {c} /\ OwnerIn(known, x) = c
<1>1. OwnersIn(known, x) = {c}
  BY OneOwner DEF OwnersIn
<1>. QED
  BY <1>1 DEF OwnerIn

(* The pollfds of two channels are two.                                    *)
LEMMA OwnPlace ==
  ASSUME TypeOK, PollerAgrees, NEW c \in channels, NEW d \in channels,
         Place(c) = Place(d)
  PROVE  c = d
<1>1. pollfds[Place(c)].fd \in {Fd[c], Muted(c)} /\ pollfds[Place(c)].fd \in {Fd[d], Muted(d)}
  BY DEF PollerAgrees
<1>. QED
  BY <1>1, OneOwner

LEMMA PopBackFacts ==
  ASSUME NEW s \in Seq(Pollfd), s # <<>>
  PROVE  /\ PopBack(s) \in Seq(Pollfd)
         /\ Len(PopBack(s)) = Len(s) - 1
         /\ \A i \in 1 .. Len(s) - 1 : PopBack(s)[i] = s[i]
<1>. DEFINE n == Len(s) - 1
<1>1. Len(s) \in Nat \ {0}
  BY EmptySeq
<1>2. n \in 0 .. Len(s) /\ n - 1 + 1 = n
  BY <1>1
<1>3. /\ SubSeq(s, 1, n) \in Seq(Pollfd)
      /\ Len(SubSeq(s, 1, n)) = IF 1 <= n THEN n - 1 + 1 ELSE 0
      /\ \A i \in 1 .. n - 1 + 1 : SubSeq(s, 1, n)[i] = s[1 + i - 1]
  BY <1>1, <1>2, SubSeqProperties
<1>4. \A i \in 1 .. n : 1 + i - 1 = i
  BY <1>2
<1>. QED
  BY <1>1, <1>2, <1>3, <1>4 DEF PopBack
-----------------------------------------------------------------------------
(* The channel that channels_ has for the descriptor of c: none, c itself, *)
(* or another, whose place c must have if line 75 lets it pass.            *)
LEMMA HoldersFacts ==
  ASSUME TypeOK, PollerAgrees, NEW c \in Channels
  PROVE  /\ c \in channels => Holders(c) = {c}
         /\ \A h \in Holders(c) : h \in channels /\ Holders(c) = {h}
         /\ UpdateFailure(c) = "none" /\ index[c] >= 0 =>
              \E h \in channels : /\ Holders(c) = {h}
                                  /\ Place(h) = Place(c) /\ Place(c) \in 1 .. Len(pollfds)
<1>1. c \in channels => Holders(c) = {c}
  BY DEF TypeOK
<1>2. ASSUME NEW h \in Holders(c)
      PROVE  h \in channels /\ Holders(c) = {h}
  <2>1. h \in channels /\ Fd[h] = Fd[c] /\ Holders(h) = {h}
    BY DEF Holders, TypeOK
  <2>. QED
    BY <2>1 DEF Holders
<1>3. ASSUME UpdateFailure(c) = "none", index[c] >= 0
      PROVE  \E h \in channels : /\ Holders(c) = {h}
                                 /\ Place(h) = Place(c) /\ Place(c) \in 1 .. Len(pollfds)
  <2>1. index[c] \in Int
    BY DEF TypeOK
  <2>2. /\ Holders(c) # {} /\ Place(c) \in 1 .. Len(pollfds)
        /\ pollfds[Place(c)].fd \in {Fd[c], Muted(c)}
    BY <1>3, <2>1 DEF UpdateFailure, HasPlace
  <2>3. PICK h \in Holders(c) : TRUE
    BY <2>2
  <2>4. h \in channels /\ Holders(c) = {h} /\ Fd[h] = Fd[c] /\ Muted(h) = Muted(c)
    BY <1>2, <2>3 DEF Holders, Muted
  <2>5. PICK o \in channels : Place(o) = Place(c)
    BY <2>2 DEF PollerAgrees
  <2>6. pollfds[Place(c)].fd \in {Fd[o], Muted(o)}
    BY <2>5 DEF PollerAgrees
  <2>7. o = h
    BY <2>2, <2>4, <2>6, OneOwner
  <2>. QED
    BY <2>2, <2>4, <2>5, <2>7
<1>. QED
  BY <1>1, <1>2, <1>3

(* Adding a pollfd and changing one leave the others alone, and the tables *)
(* agree afterwards.                                                       *)
LEMMA UpdateFacts ==
  ASSUME TypeOK, PollerAgrees, NEW c \in Channels, NEW e \in SUBSET Events,
         UpdateFailure(c) = "none", channels' = (channels \ Holders(c)) \cup {c},
         AddEntry(c, e) \/ ChangeEntry(c, e)
  PROVE  /\ pollfds' \in Seq(Pollfd)
         /\ index' \in [Channels -> Nat \cup {-1}]
         /\ PollerAgrees'
         /\ pollfds'[Place(c)'].events = e
         /\ e # {} => pollfds'[Place(c)'] = [fd |-> Fd[c], events |-> e]
         /\ \A d \in channels \ ({c} \cup Holders(c)) :
              index'[d] = index[d] /\ pollfds'[Place(d)] = pollfds[Place(d)]
<1>. Fd[c] \in Nat /\ Muted(c) \in Int
  BY PollerAssumption DEF Muted
<1>. pollfds \in Seq(Pollfd) /\ index \in [Channels -> Nat \cup {-1}] /\ channels \subseteq Channels
  BY DEF TypeOK, Pollfd
<1>1. CASE AddEntry(c, e)
  <2>. DEFINE entry == [fd |-> Fd[c], events |-> e]
  <2>1. index[c] < 0 /\ Holders(c) = {} /\ c \notin channels
    BY <1>1 DEF AddEntry, UpdateFailure, Holders
  <2>2. entry \in Pollfd
    BY DEF Pollfd
  <2>3. /\ pollfds' = Append(pollfds, entry)
        /\ index' = [index EXCEPT ![c] = Len(pollfds)]
        /\ channels' = channels \cup {c}
    BY <1>1, <2>1 DEF AddEntry
  <2>. HIDE DEF entry
  <2>4. /\ pollfds' \in Seq(Pollfd) /\ Len(pollfds') = Len(pollfds) + 1
        /\ pollfds'[Len(pollfds) + 1] = entry
        /\ \A i \in 1 .. Len(pollfds) : pollfds'[i] = pollfds[i]
    BY <2>2, <2>3
  <2>5. index' \in [Channels -> Nat \cup {-1}] /\ index'[c] = Len(pollfds)
        /\ \A d \in Channels \ {c} : index'[d] = index[d]
    BY <2>3
  <2>6. Place(c)' = Len(pollfds) + 1
    BY <2>5 DEF Place
  <2>7. \A d \in channels : /\ d # c /\ Place(d)' = Place(d) /\ Place(d) \in 1 .. Len(pollfds)
                            /\ pollfds'[Place(d)] = pollfds[Place(d)]
                            /\ pollfds[Place(d)].fd \in {Fd[d], Muted(d)}
    BY <2>1, <2>4, <2>5 DEF PollerAgrees, HasPlace, Place
  <2>8. entry.fd = Fd[c]
    BY DEF entry
  <2>9. \A d \in channels' : HasPlace(d)' /\ pollfds'[Place(d)'].fd \in {Fd[d], Muted(d)}
    BY <2>3, <2>4, <2>6, <2>7, <2>8 DEF HasPlace
  <2>10. \A i \in 1 .. Len(pollfds') : \E d \in channels' : Place(d)' = i
    <3>. TAKE i \in 1 .. Len(pollfds')
    <3>1. CASE i = Len(pollfds) + 1
      BY <3>1, <2>3, <2>6
    <3>2. CASE i \in 1 .. Len(pollfds)
      <4>1. PICK d \in channels : Place(d) = i
        BY <3>2 DEF PollerAgrees
      <4>. QED
        BY <4>1, <2>3, <2>7
    <3>. QED
      BY <3>1, <3>2, <2>4
  <2>11. PollerAgrees'
    BY <2>9, <2>10 DEF PollerAgrees, Muted
  <2>12. \A d \in channels \ {c} : index'[d] = index[d]
    BY <2>5
  <2>. QED
    BY <2>1, <2>3, <2>4, <2>5, <2>6, <2>7, <2>11, <2>12 DEF entry
<1>2. CASE ChangeEntry(c, e)
  <2>. DEFINE entry == [fd |-> IF e = {} THEN Muted(c) ELSE Fd[c], events |-> e]
  <2>1. PICK h \in channels : /\ Holders(c) = {h}
                              /\ Place(h) = Place(c) /\ Place(c) \in 1 .. Len(pollfds)
    BY <1>2, HoldersFacts DEF ChangeEntry
  <2>2. entry \in Pollfd /\ entry.fd \in {Fd[c], Muted(c)}
    BY DEF Pollfd
  <2>3. /\ pollfds' = [pollfds EXCEPT ![Place(c)] = entry] /\ index' = index
        /\ channels' = (channels \ {h}) \cup {c}
    BY <1>2, <2>1 DEF ChangeEntry
  <2>. HIDE DEF entry
  <2>4. /\ pollfds' \in Seq(Pollfd) /\ Len(pollfds') = Len(pollfds)
        /\ pollfds'[Place(c)] = entry
        /\ \A i \in 1 .. Len(pollfds) : i # Place(c) => pollfds'[i] = pollfds[i]
    BY <2>1, <2>2, <2>3
  <2>5. /\ \A d : Place(d)' = Place(d)
        /\ \A d \in channels : Place(d) \in 1 .. Len(pollfds)
    BY <2>3 DEF PollerAgrees, HasPlace, Place
  <2>6. \A d \in channels \ {h} : Place(d) # Place(c)
    BY <2>1, OwnPlace
  <2>7. \A d \in channels \ {h} : pollfds'[Place(d)] = pollfds[Place(d)]
    BY <2>4, <2>5, <2>6
  <2>8. \A d \in channels' : HasPlace(d)' /\ pollfds'[Place(d)'].fd \in {Fd[d], Muted(d)}
    BY <2>1, <2>2, <2>3, <2>4, <2>5, <2>7 DEF HasPlace, PollerAgrees
  <2>9. \A i \in 1 .. Len(pollfds') : \E d \in channels' : Place(d)' = i
    <3>. TAKE i \in 1 .. Len(pollfds')
    <3>1. PICK d \in channels : Place(d) = i
      BY <2>4 DEF PollerAgrees
    <3>2. CASE d = h
      BY <3>1, <3>2, <2>1, <2>3, <2>5
    <3>3. CASE d # h
      BY <3>1, <3>3, <2>3, <2>5
    <3>. QED
      BY <3>2, <3>3
  <2>10. PollerAgrees'
    BY <2>8, <2>9 DEF PollerAgrees, Muted
  <2>11. entry.events = e /\ (e # {} => entry = [fd |-> Fd[c], events |-> e])
    BY DEF entry
  <2>. QED
    BY <2>1, <2>3, <2>4, <2>5, <2>7, <2>10, <2>11
<1>. QED
  BY <1>1, <1>2
-----------------------------------------------------------------------------
(* Taking a pollfd out, last or moved over by the last one, leaves those   *)
(* of all other channels as they are, and the tables agree afterwards.     *)
LEMMA TakeOutFacts ==
  ASSUME TypeOK, PollerAgrees, NEW c \in channels,
         channels' = channels \ {c}, TakeOut(c)
  PROVE  /\ pollfds' \in Seq(Pollfd)
         /\ index' \in [Channels -> Nat \cup {-1}]
         /\ PollerAgrees'
         /\ \A d \in channels \ {c} : pollfds'[Place(d)'] = pollfds[Place(d)]
<1>. DEFINE n == Len(pollfds)
            last == pollfds[n]
            moved == [pollfds EXCEPT ![Place(c)] = last]
<1>. pollfds \in Seq(Pollfd) /\ index \in [Channels -> Nat \cup {-1}] /\ channels \subseteq Channels
  BY DEF TypeOK, Pollfd
<1>1. \A d \in channels : /\ Place(d) \in 1 .. n
                          /\ pollfds[Place(d)].fd \in {Fd[d], Muted(d)}
  BY DEF PollerAgrees, HasPlace
<1>2. n \in Nat /\ n >= 1 /\ pollfds # <<>>
  BY <1>1
<1>3. last \in Pollfd
  BY <1>2
<1>4. /\ moved \in Seq(Pollfd) /\ Len(moved) = n /\ moved # <<>>
      /\ moved[Place(c)] = last
      /\ \A i \in 1 .. n : i # Place(c) => moved[i] = pollfds[i]
  BY <1>1, <1>2, <1>3
<1>5. pollfds' = PopBack(moved)
  BY DEF TakeOut
<1>. HIDE DEF moved
<1>6. /\ pollfds' \in Seq(Pollfd) /\ Len(pollfds') = n - 1
      /\ \A i \in 1 .. n - 1 : pollfds'[i] = moved[i]
  BY <1>4, <1>5, PopBackFacts
<1>7. CASE Place(c) = n
  <2>1. index' = index
    BY <1>7 DEF TakeOut
  <2>2. \A d \in channels \ {c} : /\ Place(d)' = Place(d) /\ Place(d) \in 1 .. n - 1
                                /\ pollfds'[Place(d)] = pollfds[Place(d)]
    <3>1. \A d \in channels \ {c} : Place(d) # n
      BY <1>7, OwnPlace
    <3>2. \A d \in channels \ {c} : Place(d)' = Place(d) /\ Place(d) \in 1 .. n - 1
      BY <1>1, <1>2, <2>1, <3>1 DEF Place
    <3>. QED
      BY <1>4, <1>6, <1>7, <3>1, <3>2
  <2>3. \A d \in channels' : HasPlace(d)' /\ pollfds'[Place(d)'].fd \in {Fd[d], Muted(d)}
    BY <1>1, <1>6, <2>2 DEF HasPlace
  <2>4. \A i \in 1 .. Len(pollfds') : \E d \in channels' : Place(d)' = i
    <3>. TAKE i \in 1 .. Len(pollfds')
    <3>1. i \in 1 .. n /\ i # n
      BY <1>2, <1>6
    <3>2. PICK d \in channels : Place(d) = i
      BY <3>1 DEF PollerAgrees
    <3>. QED
      BY <3>1, <3>2, <1>7, <2>2
  <2>. QED
    BY <1>6, <2>1, <2>2, <2>3, <2>4 DEF PollerAgrees, Muted
<1>8. CASE Place(c) # n
  <2>1. PICK o \in channels : Place(o) = n
    BY <1>2 DEF PollerAgrees
  <2>2. o # c /\ OwnerIn(channels \ {c}, last.fd) = o
    <3>1. o \in channels \ {c} /\ channels \ {c} \in SUBSET channels
      BY <1>8, <2>1
    <3>2. last.fd \in {Fd[o], Muted(o)}
      BY <2>1 DEF PollerAgrees
    <3>3. \A known \in SUBSET channels : \A d \in known : \A x \in {Fd[d], Muted(d)} :
            OwnerIn(known, x) = d
      BY OwnerFound
    <3>4. \A x \in {Fd[o], Muted(o)} : OwnerIn(channels \ {c}, x) = o
      BY <3>1, <3>3
    <3>. QED
      BY <3>1, <3>2, <3>4
  <2>3. index' = [index EXCEPT ![o] = index[c]]
    BY <1>8, <2>2 DEF TakeOut
  <2>4. Place(o)' = Place(c) /\ \A d \in channels \ {o} : Place(d)' = Place(d)
    BY <2>3 DEF Place
  <2>5. Place(c) \in 1 .. n - 1
    BY <1>1, <1>2, <1>8
  <2>6. pollfds'[Place(o)'] = pollfds[Place(o)]
    BY <1>4, <1>6, <2>1, <2>4, <2>5
  <2>7. \A d \in channels \ {c, o} : /\ Place(d) \in 1 .. n - 1
                                   /\ pollfds'[Place(d)] = pollfds[Place(d)]
    <3>1. \A d \in channels \ {c, o} : Place(d) # n /\ Place(d) # Place(c)
      BY <2>1, OwnPlace
    <3>2. \A d \in channels \ {c, o} : Place(d) \in 1 .. n - 1
      BY <1>1, <1>2, <3>1
    <3>. QED
      BY <1>4, <1>6, <3>1, <3>2
  <2>8. \A d \in channels' : HasPlace(d)' /\ pollfds'[Place(d)'].fd \in {Fd[d], Muted(d)}
    BY <1>1, <1>6, <2>4, <2>5, <2>6, <2>7 DEF HasPlace
  <2>9. \A i \in 1 .. Len(pollfds') : \E d \in channels' : Place(d)' = i
    <3>. TAKE i \in 1 .. Len(pollfds')
    <3>1. CASE i = Place(c)
      BY <3>1, <2>2, <2>4
    <3>2. CASE i # Place(c)
      <4>1. i \in 1 .. n /\ i # n
        BY <1>2, <1>6
      <4>2. PICK d \in channels : Place(d) = i
        BY <4>1 DEF PollerAgrees
      <4>. QED
        BY <3>2, <4>1, <4>2, <2>1, <2>4
    <3>. QED
      BY <3>1, <3>2
  <2>10. index' \in [Channels -> Nat \cup {-1}]
    BY <2>3
  <2>. QED
    BY <1>6, <2>4, <2>6, <2>7, <2>8, <2>9, <2>10 DEF PollerAgrees, Muted
<1>. QED
  BY <1>7, <1>8
-----------------------------------------------------------------------------
(* A step that concerns channel c only.                                    *)
Undisturbed(c) ==
  \A d \in Channels \ {c} : Entry(d)' = Entry(d) \/ (Fd[d] = Fd[c] /\ c \in channels')

(* A channel that channels_ has can be updated: its index is right. *)
LEMMA KnownIsUpdated ==
  ASSUME TypeOK, PollerAgrees, NEW c \in channels
  PROVE  UpdateFailure(c) = "none"
<1>1. index[c] \in Nat \cup {-1} /\ Holders(c) = {c}
  BY DEF TypeOK
<1>2. /\ Place(c) \in 1 .. Len(pollfds) /\ HasPlace(c)
      /\ pollfds[Place(c)].fd \in {Fd[c], Muted(c)}
  BY DEF PollerAgrees, HasPlace
<1>3. index[c] >= 0
  BY <1>1, <1>2 DEF Place
<1>. QED
  BY <1>1, <1>2, <1>3 DEF UpdateFailure

(* The Enable and Disable functions, whatever events they leave.           *)
LEMMA UpdateStep ==
  ASSUME IInv, failed = "none", NEW c \in alive, NEW e \in SUBSET Events, Update(c, e)
  PROVE  IInv' /\ Undisturbed(c)
<1>. USE DEF IInv
<1>. c \in Channels
  BY DEF TypeOK
<1>1. /\ events' = [events EXCEPT ![c] = e] /\ added' = [added EXCEPT ![c] = TRUE]
      /\ alive' = alive /\ failed' = UpdateFailure(c)
      /\ \/ failed' # "none" /\ UNCHANGED poller
         \/ /\ failed' = "none" /\ channels' = (channels \ Holders(c)) \cup {c}
            /\ AddEntry(c, e) \/ ChangeEntry(c, e)
  BY DEF Update, UpdateChannel
<1>2. UpdateFailure(c) \in PlaceFailures \cup {"none", "updated after removal"}
  BY DEF UpdateFailure, PlaceFailures
<1>3. /\ events' \in [Channels -> SUBSET Events] /\ added' \in [Channels -> BOOLEAN]
      /\ alive' \in SUBSET Channels /\ NeverInternal'
      /\ failed' \in ClientFailures \cup PlaceFailures \cup InternalFailures \cup {"none"}
  BY <1>1, <1>2 DEF TypeOK, NeverInternal, ClientFailures, PlaceFailures, InternalFailures
<1>4. CASE failed' # "none"
  <2>1. c \notin channels
    BY <1>1, <1>4, KnownIsUpdated
  <2>2. index' = index /\ pollfds' = pollfds /\ channels' = channels
    BY <1>1, <1>4 DEF poller
  <2>3. TypeOK'
    BY <1>3, <1>4, <2>2 DEF TypeOK, Holders
  <2>4. PollerAgrees'
    BY <2>2 DEF PollerAgrees, HasPlace, Place, Muted
  <2>5. NoEventMissed'
    <3>1. \A d \in channels : events'[d] = events[d]
      BY <1>1, <2>1 DEF TypeOK
    <3>. QED
      BY <2>2, <3>1 DEF NoEventMissed, Place
  <2>6. Undisturbed(c)
    BY <2>2 DEF Undisturbed, Entry, Place
  <2>. QED
    BY <1>3, <1>4, <2>3, <2>4, <2>5, <2>6 DEF Noted
<1>5. CASE failed' = "none"
  <2>. DEFINE rest == channels \ ({c} \cup Holders(c))
  <2>1. /\ UpdateFailure(c) = "none" /\ (AddEntry(c, e) \/ ChangeEntry(c, e))
        /\ channels' = (channels \ Holders(c)) \cup {c}
    BY <1>1, <1>5
  <2>2. /\ pollfds' \in Seq(Pollfd)
        /\ index' \in [Channels -> Nat \cup {-1}]
        /\ PollerAgrees'
        /\ e # {} => pollfds'[Place(c)'] = [fd |-> Fd[c], events |-> e]
        /\ \A d \in rest : index'[d] = index[d] /\ pollfds'[Place(d)] = pollfds[Place(d)]
    BY <2>1, UpdateFacts
  <2>3. \A d \in rest : Place(d)' = Place(d) /\ pollfds'[Place(d)'] = pollfds[Place(d)]
    BY <2>2 DEF Place
  <2>4. channels' = rest \cup {c} /\ rest \subseteq channels /\ c \notin rest
    BY <2>1
  <2>5. \A d \in rest : Fd[d] # Fd[c] /\ Holders(d) = {d}
    BY DEF Holders, TypeOK
  <2>6. \A d \in channels' : Holders(d)' = {d}
    BY <2>4, <2>5 DEF Holders
  <2>7. TypeOK'
    <3>1. channels' \subseteq alive /\ channels' \subseteq Channels
      BY <2>4, failed = "none" DEF TypeOK
    <3>. QED
      BY <1>1, <1>3, <2>2, <2>6, <3>1 DEF TypeOK, Pollfd
  <2>8. NoEventMissed'
    <3>1. \A d \in rest : events'[d] = events[d]
      BY <1>1 DEF TypeOK
    <3>2. events'[c] = e
      BY <1>1 DEF TypeOK
    <3>. QED
      BY <2>2, <2>3, <2>4, <3>1, <3>2 DEF NoEventMissed
  <2>9. Noted'
    BY <1>1, <2>4, failed = "none" DEF Noted, TypeOK
  <2>10. Undisturbed(c)
    <3>. SUFFICES ASSUME NEW d \in Channels \ {c}
                  PROVE  Entry(d)' = Entry(d) \/ (Fd[d] = Fd[c] /\ c \in channels')
      BY DEF Undisturbed
    <3>1. CASE d \in rest
      BY <2>3, <2>4, <3>1 DEF Entry
    <3>2. CASE d \in Holders(c)
      BY <2>4, <3>2 DEF Holders
    <3>3. CASE d \notin channels
      BY <2>4, <3>3 DEF Entry
    <3>. QED
      BY <3>1, <3>2, <3>3
  <2>. QED
    BY <1>3, <2>2, <2>7, <2>8, <2>9, <2>10
<1>. QED
  BY <1>4, <1>5

LEMMA RemoveStep ==
  ASSUME IInv, failed = "none", NEW c \in alive, Remove(c)
  PROVE  IInv' /\ Undisturbed(c)
<1>. USE DEF IInv
<1>. c \in Channels
  BY DEF TypeOK
<1>1. /\ alive' = alive /\ events' = events /\ failed' = RemoveFailure(c)
      /\ \/ failed' # "none" /\ UNCHANGED <<added, poller>>
         \/ /\ failed' = "none" /\ added' = [added EXCEPT ![c] = FALSE]
            /\ channels' = channels \ {c} /\ TakeOut(c)
  BY DEF Remove
<1>2. RemoveFailure(c) \in ClientFailures \cup {"none"}
  <2>1. c \in channels => HasPlace(c)
    BY DEF PollerAgrees
  <2>2. ASSUME c \in channels, Place(c) # Len(pollfds)
        PROVE  OwnersIn(channels \ {c}, pollfds[Len(pollfds)].fd) # {}
    <3>1. Len(pollfds) \in 1 .. Len(pollfds)
      BY <2>1, <2>2 DEF HasPlace, TypeOK
    <3>2. PICK o \in channels : Place(o) = Len(pollfds)
      BY <3>1 DEF PollerAgrees
    <3>3. o # c /\ pollfds[Len(pollfds)].fd \in {Fd[o], Muted(o)}
      BY <2>2, <3>2 DEF PollerAgrees
    <3>. QED
      BY <3>3 DEF OwnersIn
  <2>. QED
    BY <2>1, <2>2 DEF RemoveFailure, ClientFailures
<1>3. NeverInternal'
  BY <1>1, <1>2 DEF NeverInternal, ClientFailures, InternalFailures
<1>4. CASE failed' # "none"
  <2>1. index' = index /\ pollfds' = pollfds /\ channels' = channels /\ added' = added
    BY <1>1, <1>4 DEF poller
  <2>2. TypeOK'
    BY <1>1, <1>2, <1>4, <2>1 DEF TypeOK, Holders
  <2>3. PollerAgrees' /\ NoEventMissed'
    BY <1>1, <2>1 DEF PollerAgrees, NoEventMissed, HasPlace, Place, Muted
  <2>4. Undisturbed(c)
    BY <2>1 DEF Undisturbed, Entry, Place
  <2>. QED
    BY <1>3, <1>4, <2>2, <2>3, <2>4 DEF Noted
<1>5. CASE failed' = "none"
  <2>1. c \in channels
    BY <1>1, <1>5 DEF RemoveFailure
  <2>2. channels' = channels \ {c} /\ TakeOut(c) /\ added' = [added EXCEPT ![c] = FALSE]
    BY <1>1, <1>5
  <2>3. /\ pollfds' \in Seq(Pollfd)
        /\ index' \in [Channels -> Nat \cup {-1}]
        /\ PollerAgrees'
        /\ \A d \in channels \ {c} : pollfds'[Place(d)'] = pollfds[Place(d)]
    BY <2>1, <2>2, TakeOutFacts
  <2>4. TypeOK'
    <3>1. \A d \in channels' : Holders(d)' = {d}
      BY <2>2 DEF TypeOK, Holders
    <3>. QED
      BY <1>1, <1>2, <2>2, <2>3, <3>1, failed = "none" DEF TypeOK, Pollfd
  <2>5. NoEventMissed'
    BY <1>1, <2>2, <2>3 DEF NoEventMissed
  <2>6. Noted'
    BY <2>2, failed = "none" DEF Noted, TypeOK
  <2>7. Undisturbed(c)
    BY <2>2, <2>3 DEF Undisturbed, Entry
  <2>. QED
    BY <1>3, <2>3, <2>4, <2>5, <2>6, <2>7
<1>. QED
  BY <1>4, <1>5
-----------------------------------------------------------------------------
LEMMA InitHolds == Init => IInv
<1>. SUFFICES ASSUME Init PROVE IInv
  OBVIOUS
<1>1. TypeOK
  BY DEF Init, TypeOK
<1>2. PollerAgrees /\ NoEventMissed /\ NeverInternal /\ Noted
  BY DEF Init, PollerAgrees, NoEventMissed, NeverInternal, InternalFailures, Noted
<1>. QED
  BY <1>1, <1>2 DEF IInv

(* The calls that leave the poller alone.                                  *)
LEMMA OtherStep ==
  ASSUME IInv, failed = "none", NEW c \in Channels,
         \/ Construct(c)
         \/ c \in alive /\ (DisableAll(c) \/ Destroy(c))
  PROVE  IInv' /\ Undisturbed(c)
<1>. USE DEF IInv
<1>1. CASE Construct(c)
  <2>1. c \notin channels
    BY <1>1, failed = "none" DEF Construct, TypeOK
  <2>2. /\ pollfds' = pollfds /\ channels' = channels /\ failed' = failed
        /\ \A d \in channels : Place(d)' = Place(d) /\ events'[d] = events[d]
    BY <1>1, <2>1 DEF Construct, Place, TypeOK
  <2>3. TypeOK'
    BY <1>1 DEF Construct, TypeOK, Holders
  <2>4. PollerAgrees' /\ NoEventMissed'
    BY <2>2 DEF PollerAgrees, NoEventMissed, HasPlace, Muted
  <2>5. NeverInternal' /\ Noted'
    BY <1>1, <2>1, failed = "none" DEF Construct, NeverInternal, Noted, TypeOK
  <2>6. Undisturbed(c)
    BY <2>2 DEF Undisturbed, Entry
  <2>. QED
    BY <2>3, <2>4, <2>5, <2>6
<1>2. CASE DisableAll(c)
  <2>1. /\ index' = index /\ pollfds' = pollfds /\ channels' = channels /\ failed' = failed
        /\ added' = added /\ alive' = alive /\ events' = [events EXCEPT ![c] = {}]
    BY <1>2 DEF DisableAll, poller
  <2>2. \A d \in Channels : events'[d] # {} => events'[d] = events[d]
    BY <2>1 DEF TypeOK
  <2>3. TypeOK'
    BY <2>1 DEF TypeOK, Holders
  <2>4. PollerAgrees'
    BY <2>1 DEF PollerAgrees, HasPlace, Place, Muted
  <2>5. NoEventMissed'
    BY <2>1, <2>2 DEF NoEventMissed, Place, TypeOK
  <2>6. NeverInternal' /\ Noted' /\ Undisturbed(c)
    BY <2>1 DEF NeverInternal, Noted, Undisturbed, Entry, Place
  <2>. QED
    BY <2>3, <2>4, <2>5, <2>6
<1>3. CASE c \in alive /\ Destroy(c)
  <2>1. /\ index' = index /\ pollfds' = pollfds /\ channels' = channels /\ events' = events
        /\ added' = added /\ alive' = alive \ {c} /\ failed' = DestroyFailure(c)
    BY <1>3 DEF Destroy, poller
  <2>2. c \in channels => added[c]
    BY failed = "none" DEF Noted
  <2>3. /\ DestroyFailure(c) \in {"destroyed in the loop", "none"}
        /\ DestroyFailure(c) = "none" => c \notin channels
    BY <2>2 DEF DestroyFailure, HasChannel
  <2>4. TypeOK'
    BY <2>1, <2>3, failed = "none" DEF TypeOK, ClientFailures, Holders
  <2>5. PollerAgrees' /\ NoEventMissed'
    BY <2>1 DEF PollerAgrees, NoEventMissed, HasPlace, Place, Muted
  <2>6. NeverInternal' /\ Noted' /\ Undisturbed(c)
    BY <2>1, <2>3, failed = "none"
    DEF NeverInternal, InternalFailures, Noted, Undisturbed, Entry, Place
  <2>. QED
    BY <2>4, <2>5, <2>6
<1>. QED
  BY <1>1, <1>2, <1>3

LEMMA NextStep ==
  ASSUME IInv, Next
  PROVE  IInv' /\ \E c \in Channels : Undisturbed(c)
<1>1. failed = "none"
  BY DEF Next
<1>2. alive \subseteq Channels /\ events \in [Channels -> SUBSET Events]
  BY DEF IInv, TypeOK
<1>3. ASSUME NEW c \in Channels, Construct(c)
      PROVE  IInv' /\ Undisturbed(c)
  BY <1>1, <1>3, OtherStep
<1>4. ASSUME NEW c \in alive, Call(c)
      PROVE  IInv' /\ Undisturbed(c)
  <2>1. events[c] \in SUBSET Events
    BY <1>2
  <2>2. CASE \E e \in SUBSET Events : Update(c, e)
    BY <2>2, <1>1, UpdateStep
  <2>3. EnableReading(c) \/ DisableReading(c) \/ EnableWriting(c) \/ DisableWriting(c)
        => \E e \in SUBSET Events : Update(c, e)
    <3>1. /\ events[c] \cup {"read"} \in SUBSET Events
          /\ events[c] \ {"read"} \in SUBSET Events
          /\ events[c] \cup {"write"} \in SUBSET Events
          /\ events[c] \ {"write"} \in SUBSET Events
      BY <2>1 DEF Events
    <3>. QED
      BY <3>1 DEF EnableReading, DisableReading, EnableWriting, DisableWriting
  <2>4. CASE Remove(c)
    BY <2>4, <1>1, RemoveStep
  <2>5. CASE DisableAll(c) \/ Destroy(c)
    BY <2>5, <1>1, <1>2, OtherStep
  <2>. QED
    BY <1>4, <2>2, <2>3, <2>4, <2>5 DEF Call
<1>. QED
  BY <1>2, <1>3, <1>4 DEF Next

LEMMA StutterStep ==
  ASSUME IInv, UNCHANGED vars
  PROVE  IInv'
BY DEF IInv, vars, TypeOK, PollerAgrees, NoEventMissed, NeverInternal, Noted,
       HasPlace, Place, Muted, Holders

LEMMA Invariant == Spec => []IInv
<1>1. IInv /\ [Next]_vars => IInv'
  BY NextStep, StutterStep
<1>. QED
  BY <1>1, InitHolds, PTL DEF Spec
-----------------------------------------------------------------------------
(* Every variable keeps its type, and only channels that exist are in the  *)
(* poller (~Channel asserts that it has left it).                          *)
THEOREM TypeCorrect == Spec => []TypeOK
BY Invariant, PTL DEF IInv

(* pollfds_, channels_ and the index of every channel agree, whatever is   *)
(* added, changed and taken out from the middle.                           *)
THEOREM TablesAgree == Spec => []PollerAgrees
BY Invariant, PTL DEF IInv

(* poll(2) is asked for the events every channel waits for.                *)
THEOREM EventsArePolled == Spec => []NoEventMissed
BY Invariant, PTL DEF IInv

(* No order of calls, for channels that share descriptors or not, makes an *)
(* assertion about the poller's own tables fail; and one about a channel's *)
(* place can fail only in a call for a channel whose descriptor channels_  *)
(* has for another.                                                        *)
THEOREM InternalAssertionsNeverFail == Spec => []InternalAssertionsHold
<1>1. ASSUME IInv
      PROVE  InternalAssertionsHold
  <2>. USE <1>1 DEF IInv
  <2>1. ASSUME NEW c \in alive, UpdateFailure(c) \in PlaceFailures, Holders(c) \ {c} = {}
        PROVE  FALSE
    <3>1. c \notin channels
      BY <2>1, KnownIsUpdated DEF PlaceFailures
    <3>2. Holders(c) = {}
      BY <2>1, <3>1 DEF Holders
    <3>. QED
      BY <2>1, <3>2 DEF UpdateFailure, PlaceFailures
  <2>. QED
    BY <2>1 DEF InternalAssertionsHold, NeverInternal
<1>. QED
  BY <1>1, Invariant, PTL

(* A call for one channel leaves what poll(2) is asked about every other   *)
(* channel as it was, unless it takes the descriptor of that channel over. *)
THEOREM OthersAreUndisturbed == Spec => OthersUndisturbed
<1>1. IInv /\ [Next]_vars =>
        [\E c \in Channels : \A d \in Channels \ {c} :
           Entry(d)' = Entry(d) \/ (Fd[d] = Fd[c] /\ c \in channels')]_vars
  BY NextStep DEF Undisturbed
<1>. QED
  BY <1>1, Invariant, PTL DEF Spec, OthersUndisturbed
-----------------------------------------------------------------------------
(* FillActiveChannels: each place of pollfds_ has an owner, a channel in   *)
(* channels_ whose place it is.                                            *)
Owner(i) == OwnerIn(channels, pollfds[i].fd)

LEMMA OwnersKnown ==
  ASSUME IInv, NEW i \in 1 .. Len(pollfds)
  PROVE  /\ Owner(i) \in channels /\ Place(Owner(i)) = i
         /\ OwnersIn(channels, pollfds[i].fd) # {}
<1>1. PICK c \in channels : Place(c) = i
  BY DEF IInv, PollerAgrees
<1>2. TypeOK /\ pollfds[i].fd \in {Fd[c], Muted(c)}
  BY <1>1 DEF IInv, PollerAgrees
<1>3. channels \in SUBSET channels
  OBVIOUS
<1>4. /\ OwnersIn(channels, pollfds[i].fd) = {c}
      /\ OwnerIn(channels, pollfds[i].fd) = c
  BY <1>1, <1>2, <1>3, OwnerFound
<1>. QED
  BY <1>1, <1>4 DEF Owner

(* The loop, whose list is found[k] after k places.                        *)
Found(r) == CHOOSE found : found =
  [k \in 0 .. Len(pollfds) |->
     IF k = 0 THEN <<>>
     ELSE IF r[k] = {} THEN found[k - 1]
     ELSE Append(found[k - 1], Owner(k))]

LEMMA FoundByLoop ==
  ASSUME IInv, NEW r
  PROVE  /\ Found(r)[0] = <<>>
         /\ \A k \in 1 .. Len(pollfds) :
              Found(r)[k] = IF r[k] = {} THEN Found(r)[k - 1]
                            ELSE Append(Found(r)[k - 1], Owner(k))
<1>. DEFINE n == Len(pollfds)
            step == [k \in 1 .. n |-> [s \in Seq(channels) |->
                       IF r[k] = {} THEN s ELSE Append(s, Owner(k))]]
<1>1. n \in Nat
  BY DEF IInv, TypeOK
<1>. HIDE DEF n
<1>2. step \in [1 .. n -> [Seq(channels) -> Seq(channels)]]
  BY OwnersKnown DEF n
<1>3. \A k \in 1 .. n : \A s \in Seq(channels) :
        step[k][s] = IF r[k] = {} THEN s ELSE Append(s, Owner(k))
  OBVIOUS
<1>. HIDE DEF step
<1>4. PICK f \in [0 .. n -> Seq(channels)] : f[0] = <<>> /\ \A k \in 1 .. n : f[k] = step[k][f[k - 1]]
  <2>1. <<>> \in Seq(channels) /\ step \in Steps(n, Seq(channels))
    BY <1>2 DEF Steps
  <2>2. Runs(n, Seq(channels), <<>>, step) # {}
    BY <1>1, <2>1, Recursion
  <2>. QED
    BY <2>2 DEF Runs
<1>5. \A k \in 1 .. n : f[k] = IF r[k] = {} THEN f[k - 1] ELSE Append(f[k - 1], Owner(k))
  <2>. TAKE k \in 1 .. n
  <2>1. f[k - 1] \in Seq(channels)
    BY <1>1
  <2>. QED
    BY <1>3, <1>4, <2>1
<1>. DEFINE found(h) == [k \in 0 .. n |-> IF k = 0 THEN <<>>
                                          ELSE IF r[k] = {} THEN h[k - 1]
                                          ELSE Append(h[k - 1], Owner(k))]
<1>6. f = found(f)
  <2>1. \A k \in 0 .. n : k = 0 \/ k \in 1 .. n
    BY <1>1
  <2>. QED
    BY <1>4, <1>5, <2>1
<1>7. Found(r) = found(Found(r))
  BY <1>6 DEF Found, n
<1>. HIDE DEF found
<1>8. Found(r) = [k \in 0 .. n |-> IF k = 0 THEN <<>>
                                 ELSE IF r[k] = {} THEN Found(r)[k - 1]
                                 ELSE Append(Found(r)[k - 1], Owner(k))]
  BY <1>7 DEF found
<1>9. 0 \in 0 .. n /\ \A k \in 1 .. n : k # 0 /\ k \in 0 .. n
  BY <1>1
<1>. QED
  BY <1>8, <1>9 DEF n

(* Each channel in the list after k places is in channels_, has one of     *)
(* these places, and is in the list once.                                  *)
LEMMA FoundAreKnown ==
  ASSUME IInv, NEW r, NEW k \in 0 .. Len(pollfds)
  PROVE  /\ Found(r)[k] \in Seq(channels)
         /\ \A i \in DOMAIN Found(r)[k] : Place(Found(r)[k][i]) \in 1 .. k
         /\ \A i, j \in DOMAIN Found(r)[k] : Found(r)[k][i] = Found(r)[k][j] => i = j
<1>. DEFINE f == Found(r)
            n == Len(pollfds)
            Good(l) == /\ f[l] \in Seq(channels)
                       /\ \A i \in 1 .. Len(f[l]) : Place(f[l][i]) \in 1 .. l
                       /\ \A i, j \in 1 .. Len(f[l]) : f[l][i] = f[l][j] => i = j
            Bad == {l \in 0 .. n : ~Good(l)}
<1>1. n \in Nat
  BY DEF IInv, TypeOK
<1>2. /\ f[0] = <<>>
      /\ \A l \in 1 .. n : f[l] = IF r[l] = {} THEN f[l - 1] ELSE Append(f[l - 1], Owner(l))
  BY FoundByLoop
<1>3. \A l \in 1 .. n : Owner(l) \in channels /\ Place(Owner(l)) = l
  BY OwnersKnown
<1>. HIDE DEF f, n
<1>4. Good(0)
  BY <1>2
<1>5. ASSUME NEW l \in 1 .. n, Good(l - 1)
      PROVE  Good(l)
  <2>1. CASE r[l] = {}
    <3>1. f[l] = f[l - 1] /\ \A i \in 1 .. l - 1 : i \in 1 .. l
      BY <1>1, <1>2, <2>1
    <3>. QED
      BY <1>5, <3>1
  <2>2. CASE r[l] # {}
    <3>. DEFINE s == f[l - 1]
                m == Len(s)
    <3>1. s \in Seq(channels) /\ m \in Nat /\ Owner(l) \in channels /\ Place(Owner(l)) = l
      BY <1>3, <1>5
    <3>2. /\ \A i \in 1 .. m : Place(s[i]) \in 1 .. l - 1
          /\ \A i, j \in 1 .. m : s[i] = s[j] => i = j
      BY <1>5
    <3>3. f[l] = Append(s, Owner(l))
      BY <1>2, <2>2
    <3>. HIDE DEF s
    <3>4. /\ f[l] \in Seq(channels) /\ Len(f[l]) = m + 1 /\ f[l][m + 1] = Owner(l)
          /\ \A i \in 1 .. m : f[l][i] = s[i]
      BY <3>1, <3>3
    <3>5. \A i \in 1 .. m + 1 : i \in 1 .. m \/ i = m + 1
      BY <3>1
    <3>6. \A i \in 1 .. m : f[l][i] # Owner(l)
      BY <1>1, <3>1, <3>2, <3>4
    <3>7. \A i \in 1 .. m + 1 : Place(f[l][i]) \in 1 .. l
      BY <1>1, <3>1, <3>2, <3>4, <3>5
    <3>8. \A i, j \in 1 .. m + 1 : f[l][i] = f[l][j] => i = j
      BY <3>2, <3>4, <3>5, <3>6
    <3>. QED
      BY <3>4, <3>7, <3>8
  <2>. QED
    BY <2>1, <2>2
<1>6. Bad = {}
  <2>1. SUFFICES ASSUME Bad # {} PROVE FALSE
    OBVIOUS
  <2>. HIDE DEF Good
  <2>2. Bad \in SUBSET Nat /\ \A l : l \in Bad <=> l \in 0 .. n /\ ~Good(l)
    BY <1>1
  <2>. HIDE DEF Bad
  <2>3. PICK l \in Bad : \A m \in Bad : l <= m
    BY <2>1, <2>2, Least
  <2>4. l \in 1 .. n /\ l - 1 \in 0 .. n /\ ~(l <= l - 1)
    BY <1>1, <1>4, <2>2, <2>3
  <2>. QED
    BY <1>5, <2>2, <2>3, <2>4
<1>7. Good(k)
  BY <1>6 DEF n
<1>8. DOMAIN f[k] = 1 .. Len(f[k])
  BY <1>7
<1>. QED
  BY <1>7, <1>8 DEF f
-----------------------------------------------------------------------------
(* The guard is held exactly while a tied channel is handled.              *)
GuardHeld == \A c \in Channels : "guard" \in refs[c] <=> c = handling /\ c \in tied

(* A member of an object is destroyed with it, and not before.             *)
MembersLive == \A c \in Members : c \in alive <=> Lives(c)

(* What is handled has left the list, and exists.                          *)
HandledLives ==
  handling # NoChannel => handling \notin Listed /\ (failed = "none" => handling \in alive)

(* The inductive invariant.                                                *)
DispatchInv ==
  /\ DispatchTypeOK
  /\ GuardHeld
  /\ MembersLive
  /\ HandledLives
  /\ failed = "none" => IInv

Failures == ClientFailures \cup PlaceFailures \cup {"destroyed while handled"}

LEMMA DispatchInitHolds == DispatchInit => DispatchInv
<1>. SUFFICES ASSUME DispatchInit PROVE DispatchInv
  OBVIOUS
<1>1. IInv /\ alive = {} /\ failed = "none"
  BY InitHolds DEF DispatchInit, Init
<1>2. /\ revents = [c \in Channels |-> {}] /\ tied = {} /\ refs = [c \in Channels |-> {}]
      /\ active = <<>> /\ handling = NoChannel /\ stage = 0
  BY DEF DispatchInit
<1>3. Listed = {}
  BY <1>2 DEF Listed
<1>4. DispatchTypeOK
  BY <1>1, <1>2, <1>3 DEF DispatchTypeOK, Callbacks
<1>5. GuardHeld /\ MembersLive /\ HandledLives
  BY <1>1, <1>2, DispatchAssumption DEF GuardHeld, MembersLive, HandledLives, Lives
<1>. QED
  BY <1>1, <1>4, <1>5 DEF DispatchInv

(* A call that the poller's invariant survives fails as a client may.      *)
LEMMA FailsAsClient ==
  ASSUME IInv
  PROVE  failed \in Failures \cup {"none"} /\ (failed = "none" => channels \subseteq alive)
BY DEF IInv, TypeOK, NeverInternal, Failures

(* Every reported descriptor has a channel, which exists and is listed     *)
(* once.                                                                   *)
LEMMA PollStep ==
  ASSUME DispatchInv, failed = "none", Poll
  PROVE  DispatchInv'
<1>1. PICK r \in Reports : failed' = FillFailure(r) /\ FillActiveChannels(r) /\ SetRevents(r)
  BY DEF Poll
<1>2. /\ alive' = alive /\ events' = events /\ added' = added /\ UNCHANGED poller
      /\ tied' = tied /\ refs' = refs /\ handling' = NoChannel /\ stage' = stage
      /\ handling = NoChannel
  BY DEF Poll
<1>3. IInv /\ channels \subseteq alive /\ channels \subseteq Channels /\ Len(pollfds) \in Nat
  BY failed = "none", FailsAsClient DEF DispatchInv, IInv, TypeOK
<1>4. failed' = "none"
  <2>1. \A i \in DOMAIN r : r[i] # {} => OwnersIn(channels, pollfds[i].fd) # {}
    BY <1>3, OwnersKnown DEF Reports
  <2>. QED
    BY <1>1, <2>1 DEF FillFailure
<1>5. IInv'
  <2>1. UNCHANGED vars
    BY <1>2, <1>4, failed = "none" DEF vars, poller
  <2>. QED
    BY <1>3, <2>1, StutterStep
<1>6. /\ active' \in Seq(channels)
      /\ \A i, j \in DOMAIN active' : active'[i] = active'[j] => i = j
  <2>1. active' = Found(r)[Len(pollfds)]
    BY <1>1 DEF FillActiveChannels, Found, Owner
  <2>2. Len(pollfds) \in 0 .. Len(pollfds)
    BY <1>3
  <2>. QED
    BY <1>3, <2>1, <2>2, FoundAreKnown
<1>7. revents' \in [Channels -> SUBSET Reported]
  <2>1. r \in [1 .. Len(pollfds) -> SUBSET Reported] /\ revents \in [Channels -> SUBSET Reported]
    BY DEF Reports, DispatchInv, DispatchTypeOK
  <2>2. ASSUME NEW own \in SUBSET DOMAIN r, own # {}
        PROVE  r[CHOOSE i \in own : TRUE] \in SUBSET Reported
    BY <2>1, <2>2
  <2>3. ASSUME NEW c \in Channels
        PROVE  LET own == {i \in DOMAIN r : r[i] # {} /\ HasChannel(c) /\ pollfds[i].fd = Fd[c]} IN
                 (IF own = {} THEN revents[c] ELSE r[CHOOSE i \in own : TRUE]) \in SUBSET Reported
    BY <2>1, <2>2
  <2>. QED
    BY <1>1, <2>3 DEF SetRevents
<1>8. active' \in Seq(Channels) /\ Listed' \subseteq alive
  BY <1>3, <1>6 DEF Listed
<1>9. DispatchTypeOK'
  BY <1>2, <1>4, <1>6, <1>7, <1>8 DEF DispatchInv, DispatchTypeOK
<1>10. GuardHeld' /\ MembersLive' /\ HandledLives'
  BY <1>2 DEF DispatchInv, GuardHeld, MembersLive, HandledLives, Lives
<1>. QED
  BY <1>5, <1>9, <1>10 DEF DispatchInv

LEMMA HandleEventStep ==
  ASSUME DispatchInv, failed = "none", HandleEvent
  PROVE  DispatchInv'
<1>. DEFINE c == Head(active)
<1>1. /\ active \in Seq(Channels) /\ active # <<>> /\ handling = NoChannel /\ Listed \subseteq alive
      /\ \A i, j \in DOMAIN active : active[i] = active[j] => i = j
      /\ refs \in [Channels -> SUBSET {"client", "guard"}]
  BY failed = "none" DEF HandleEvent, DispatchInv, DispatchTypeOK
<1>2. /\ active' = Tail(active) /\ stage' = 0 /\ tied' = tied /\ revents' = revents
      /\ UNCHANGED vars /\ Enter(c)
  BY DEF HandleEvent
<1>3. /\ c \in Channels /\ active' \in Seq(Channels) /\ Len(active) \in Nat \ {0}
      /\ Len(active') = Len(active) - 1 /\ c = active[1]
      /\ \A i \in 1 .. Len(active) - 1 : active'[i] = active[i + 1]
  BY <1>1, <1>2
<1>4. c \in Listed /\ c \notin Listed' /\ Listed' \subseteq Listed
  <2>1. c \in Listed
    BY <1>1, <1>3 DEF Listed
  <2>2. \A i \in DOMAIN active' : i + 1 \in DOMAIN active /\ i + 1 # 1 /\ active'[i] = active[i + 1]
    BY <1>1, <1>3
  <2>3. Listed' \subseteq Listed
    BY <2>2 DEF Listed
  <2>4. \A i \in DOMAIN active' : active'[i] # c
    BY <1>1, <1>3, <2>2
  <2>. QED
    BY <2>1, <2>3, <2>4 DEF Listed
<1>5. \A i, j \in DOMAIN active' : active'[i] = active'[j] => i = j
  <2>. TAKE i, j \in DOMAIN active'
  <2>1. i \in 1 .. Len(active) - 1 /\ j \in 1 .. Len(active) - 1
    BY <1>3
  <2>2. i + 1 \in DOMAIN active /\ j + 1 \in DOMAIN active
    BY <1>1, <1>3, <2>1
  <2>3. active[i + 1] = active[j + 1] => i + 1 = j + 1
    BY <1>1, <2>2
  <2>. QED
    BY <1>3, <2>1, <2>3
<1>6. failed' = failed /\ alive' = alive /\ IInv'
  BY <1>2, failed = "none", StutterStep DEF DispatchInv, vars
<1>7. \/ c \notin tied /\ handling' = c /\ refs' = refs
      \/ c \in tied /\ Lives(c) /\ handling' = c /\ refs' = [refs EXCEPT ![c] = @ \cup {"guard"}]
      \/ c \in tied /\ ~Lives(c) /\ handling' = handling /\ refs' = refs
  BY <1>2 DEF Enter, Guard
<1>8. refs' \in [Channels -> SUBSET {"client", "guard"}] /\ handling' \in {c, NoChannel}
  BY <1>1, <1>3, <1>7
<1>9. DispatchTypeOK'
  BY <1>1, <1>2, <1>3, <1>4, <1>5, <1>6, <1>8 DEF DispatchInv, DispatchTypeOK, Callbacks
<1>10. GuardHeld'
  <2>1. \A d \in Channels : "guard" \notin refs[d]
    BY <1>1, DispatchAssumption DEF DispatchInv, GuardHeld
  <2>. QED
    BY <1>1, <1>2, <1>3, <1>7, <2>1, DispatchAssumption DEF GuardHeld
<1>11. MembersLive'
  <2>1. \A d \in Channels : refs'[d] = {} <=> refs[d] = {}
    BY <1>1, <1>3, <1>7 DEF Lives
  <2>. QED
    BY <1>6, <2>1, DispatchAssumption DEF DispatchInv, MembersLive, Lives
<1>12. HandledLives'
  BY <1>1, <1>4, <1>6, <1>8 DEF HandledLives
<1>. QED
  BY <1>6, <1>9, <1>10, <1>11, <1>12 DEF DispatchInv

LEMMA NextCallbackStep ==
  ASSUME DispatchInv, failed = "none", NextCallback
  PROVE  DispatchInv'
<1>1. /\ stage' \in 1 .. 4
      /\ UNCHANGED <<vars, tied, refs, revents, active, handling>>
  BY DEF NextCallback, Demanded
<1>2. IInv' /\ failed' = failed /\ alive' = alive
  BY <1>1, failed = "none", StutterStep DEF DispatchInv, vars
<1>3. DispatchTypeOK'
  BY <1>1, <1>2 DEF DispatchInv, DispatchTypeOK, Listed, Callbacks
<1>4. GuardHeld' /\ MembersLive' /\ HandledLives'
  BY <1>1, <1>2 DEF DispatchInv, GuardHeld, MembersLive, HandledLives, Lives, Listed
<1>. QED
  BY <1>2, <1>3, <1>4 DEF DispatchInv

(* A channel that is destroyed, and maybe the last reference to its object *)
(* that is dropped.                                                        *)
LEMMA DestroyChannelStep ==
  ASSUME IInv, failed = "none", NEW c \in alive, NEW failure,
         failure \in {DestroyFailure(c), "destroyed while handled"},
         DestroyChannel(c, failure)
  PROVE  /\ alive' = alive \ {c} /\ failed' \in Failures \cup {"none"}
         /\ failed' = "none" => failure = DestroyFailure(c) /\ IInv'
<1>1. alive' = alive \ {c} /\ failed' = failure /\ UNCHANGED <<events, added, poller>>
  BY DEF DestroyChannel
<1>2. CASE failure = DestroyFailure(c)
  <2>1. Destroy(c)
    BY <1>1, <1>2 DEF Destroy
  <2>2. c \in Channels
    BY DEF IInv, TypeOK
  <2>3. IInv'
    BY <2>1, <2>2, failed = "none", OtherStep
  <2>. QED
    BY <1>1, <1>2, <2>3, FailsAsClient DEF IInv, TypeOK, NeverInternal, Failures
<1>3. CASE failure = "destroyed while handled"
  BY <1>1, <1>3 DEF Failures
<1>. QED
  BY <1>2, <1>3

LEMMA DropReferenceStep ==
  ASSUME DispatchInv, failed = "none", NEW c \in Channels, NEW holder \in refs[c], NEW failure,
         failure \in {DestroyFailure(c), "destroyed while handled"},
         DropReference(c, holder, failure)
  PROVE  /\ refs' = [refs EXCEPT ![c] = @ \ {holder}]
         /\ refs' \in [Channels -> SUBSET {"client", "guard"}]
         /\ MembersLive'
         /\ \/ alive' = alive
            \/ alive' = alive \ {c} /\ c \in Members /\ failed' = failure
         /\ failed' \in Failures \cup {"none"}
         /\ failed' = "none" => IInv'
<1>1. /\ refs \in [Channels -> SUBSET {"client", "guard"}] /\ MembersLive /\ IInv
      /\ refs' = [refs EXCEPT ![c] = @ \ {holder}]
  BY failed = "none" DEF DispatchInv, DispatchTypeOK, DropReference
<1>2. refs' \in [Channels -> SUBSET {"client", "guard"}]
  BY <1>1
<1>3. /\ refs'[c] = refs[c] \ {holder}
      /\ \A d \in Channels \ {c} : refs'[d] = refs[d]
  BY <1>1
<1>4. CASE refs[c] = {holder} /\ c \in Members
  <2>1. c \in alive /\ DestroyChannel(c, failure)
    BY <1>1, <1>4 DEF MembersLive, Lives, DropReference
  <2>2. /\ alive' = alive \ {c} /\ failed' \in Failures \cup {"none"}
        /\ failed' = "none" => failure = DestroyFailure(c) /\ IInv'
    BY <1>1, <2>1, failed = "none", DestroyChannelStep
  <2>3. failed' = failure
    BY <2>1 DEF DestroyChannel
  <2>4. MembersLive'
    BY <1>1, <1>3, <1>4, <2>2, DispatchAssumption DEF MembersLive, Lives
  <2>. QED
    BY <1>1, <1>2, <1>4, <2>2, <2>3, <2>4
<1>5. CASE ~(refs[c] = {holder} /\ c \in Members)
  <2>1. UNCHANGED vars
    BY <1>5 DEF DropReference
  <2>2. alive' = alive /\ failed' = "none" /\ IInv'
    BY <1>1, <2>1, failed = "none", StutterStep DEF vars
  <2>3. c \in Members => refs'[c] # {}
    BY <1>1, <1>3, <1>5
  <2>4. MembersLive'
    BY <1>1, <1>3, <2>2, <2>3, DispatchAssumption DEF MembersLive, Lives
  <2>. QED
    BY <1>1, <1>2, <2>2, <2>4
<1>. QED
  BY <1>4, <1>5

LEMMA ReturnStep ==
  ASSUME DispatchInv, failed = "none", Return
  PROVE  DispatchInv'
<1>1. /\ handling # NoChannel /\ handling' = NoChannel /\ stage' = 0
      /\ tied' = tied /\ revents' = revents /\ active' = active
      /\ IF "guard" \in refs[handling]
         THEN DropReference(handling, "guard", DestroyFailure(handling))
         ELSE UNCHANGED <<vars, refs>>
  BY DEF Return
<1>2. handling \in Channels /\ handling \notin Listed /\ Listed \subseteq alive /\ IInv
  BY <1>1, failed = "none" DEF DispatchInv, DispatchTypeOK, HandledLives
<1>3. /\ refs' \in [Channels -> SUBSET {"client", "guard"}] /\ MembersLive'
      /\ \A c \in Channels : "guard" \notin refs'[c]
      /\ alive \ {handling} \subseteq alive'
      /\ failed' \in Failures \cup {"none"}
      /\ failed' = "none" => IInv'
  <2>1. CASE "guard" \in refs[handling]
    <3>1. DropReference(handling, "guard", DestroyFailure(handling))
      BY <1>1, <2>1
    <3>2. /\ refs' = [refs EXCEPT ![handling] = @ \ {"guard"}]
          /\ refs' \in [Channels -> SUBSET {"client", "guard"}] /\ MembersLive'
          /\ alive \ {handling} \subseteq alive'
          /\ failed' \in Failures \cup {"none"}
          /\ failed' = "none" => IInv'
      BY <1>2, <2>1, <3>1, failed = "none", DropReferenceStep
    <3>3. refs \in [Channels -> SUBSET {"client", "guard"}]
      BY DEF DispatchInv, DispatchTypeOK
    <3>4. \A c \in Channels : "guard" \notin refs'[c]
      BY <1>2, <3>2, <3>3 DEF DispatchInv, GuardHeld
    <3>. QED
      BY <3>2, <3>4
  <2>2. CASE "guard" \notin refs[handling]
    <3>1. UNCHANGED vars /\ refs' = refs
      BY <1>1, <2>2
    <3>2. alive' = alive /\ failed' = "none" /\ IInv'
      BY <1>2, <3>1, failed = "none", StutterStep DEF vars
    <3>3. \A c \in Channels : "guard" \notin refs[c]
      BY <1>2, <2>2 DEF DispatchInv, GuardHeld
    <3>. QED
      BY <3>1, <3>2, <3>3 DEF DispatchInv, DispatchTypeOK, MembersLive, Lives
  <2>. QED
    BY <2>1, <2>2
<1>4. Listed' = Listed /\ Listed' \subseteq alive'
  BY <1>1, <1>2, <1>3 DEF Listed
<1>5. DispatchTypeOK'
  <2>1. 0 \in 0 .. Len(Callbacks)
    BY DEF Callbacks
  <2>. QED
    BY <1>1, <1>3, <1>4, <2>1 DEF DispatchInv, DispatchTypeOK, Failures
<1>6. GuardHeld' /\ HandledLives'
  BY <1>1, <1>3, DispatchAssumption DEF GuardHeld, HandledLives
<1>. QED
  BY <1>3, <1>5, <1>6 DEF DispatchInv

(* What the client does, at a time when it runs.                           *)
LEMMA ClientStep ==
  ASSUME DispatchInv, failed = "none", Client
  PROVE  DispatchInv'
<1>1. /\ IInv /\ MembersLive /\ GuardHeld /\ HandledLives
      /\ alive \subseteq Channels /\ Listed \subseteq alive
      /\ refs \in [Channels -> SUBSET {"client", "guard"}]
  BY failed = "none" DEF DispatchInv, DispatchTypeOK, IInv, TypeOK
<1>2. ASSUME NEW c \in Channels, CreateChannel(c)
      PROVE  DispatchInv'
  <2>1. /\ Construct(c) /\ c \notin alive /\ alive' = alive \cup {c} /\ failed' = "none"
        /\ revents' = [revents EXCEPT ![c] = {}] /\ tied' = tied \ {c}
        /\ refs' = [refs EXCEPT ![c] = {"client"}]
        /\ active' = active /\ handling' = handling /\ stage' = stage
    BY <1>2, failed = "none" DEF CreateChannel, Construct
  <2>2. IInv' /\ Listed' = Listed
    BY <1>1, <2>1, failed = "none", OtherStep DEF Listed
  <2>3. c # handling
    BY <2>1, <1>1, failed = "none", DispatchAssumption DEF HandledLives
  <2>4. DispatchTypeOK'
    BY <1>1, <2>1, <2>2 DEF DispatchInv, DispatchTypeOK
  <2>5. GuardHeld' /\ MembersLive' /\ HandledLives'
    BY <1>1, <2>1, <2>2, <2>3, failed = "none", DispatchAssumption
    DEF GuardHeld, MembersLive, HandledLives, Lives
  <2>. QED
    BY <2>2, <2>4, <2>5 DEF DispatchInv
<1>3. ASSUME NEW c \in alive, CallChannel(c)
      PROVE  DispatchInv'
  <2>1. /\ Call(c) /\ alive' = alive
        /\ tied' = tied /\ refs' = refs /\ revents' = revents /\ active' = active
        /\ handling' = handling /\ stage' = stage
    BY <1>3 DEF CallChannel, Call, EnableReading, DisableReading, EnableWriting, DisableWriting,
                Update, DisableAll, Remove, looping
  <2>2. IInv'
    BY <1>1, <2>1, failed = "none", NextStep DEF Next
  <2>3. failed' \in Failures \cup {"none"} /\ Listed' = Listed
    <3>1. failed' \in ClientFailures \cup PlaceFailures \cup InternalFailures \cup {"none"}
      BY <2>2 DEF IInv, TypeOK
    <3>2. failed' \notin InternalFailures
      BY <2>2 DEF IInv, NeverInternal
    <3>. QED
      BY <2>1, <3>1, <3>2 DEF Failures, Listed
  <2>4. DispatchTypeOK'
    BY <1>1, <2>1, <2>3 DEF DispatchInv, DispatchTypeOK, Failures
  <2>5. GuardHeld' /\ MembersLive' /\ HandledLives'
    BY <1>1, <2>1, <2>3, failed = "none" DEF GuardHeld, MembersLive, HandledLives, Lives
  <2>. QED
    BY <2>2, <2>4, <2>5 DEF DispatchInv
<1>4. ASSUME NEW c \in alive, Tie(c)
      PROVE  DispatchInv'
  <2>1. /\ handling # c /\ tied' = tied \cup {c} /\ refs' = refs /\ UNCHANGED <<vars, looping>>
    BY <1>4 DEF Tie
  <2>2. IInv' /\ failed' = failed /\ alive' = alive
    BY <1>1, <2>1, StutterStep DEF vars
  <2>3. DispatchTypeOK'
    BY <1>1, <2>1, <2>2 DEF DispatchInv, DispatchTypeOK, looping, Listed
  <2>4. GuardHeld' /\ MembersLive' /\ HandledLives'
    BY <1>1, <2>1, <2>2 DEF GuardHeld, MembersLive, HandledLives, Lives, Listed, looping
  <2>. QED
    BY <2>2, <2>3, <2>4 DEF DispatchInv
<1>5. ASSUME NEW c \in alive, Release(c)
      PROVE  DispatchInv'
  <2>1. /\ "client" \in refs[c]
        /\ c \in Members => c \notin Listed
        /\ DropReference(c, "client", DestroyFailureOf(c))
        /\ tied' = tied /\ revents' = revents /\ active' = active
        /\ handling' = handling /\ stage' = stage
    BY <1>5 DEF Release, Unlisted, looping
  <2>2. /\ refs' = [refs EXCEPT ![c] = @ \ {"client"}]
        /\ refs' \in [Channels -> SUBSET {"client", "guard"}] /\ MembersLive'
        /\ \/ alive' = alive
           \/ alive' = alive \ {c} /\ c \in Members /\ failed' = DestroyFailureOf(c)
        /\ failed' \in Failures \cup {"none"}
        /\ failed' = "none" => IInv'
    <3>1. c \in Channels /\ DestroyFailureOf(c) \in {DestroyFailure(c), "destroyed while handled"}
      BY <1>1 DEF DestroyFailureOf
    <3>. QED
      BY <2>1, <3>1, failed = "none", DropReferenceStep
  <2>3. Listed' = Listed /\ Listed' \subseteq alive'
    BY <1>1, <2>1, <2>2 DEF Listed
  <2>4. DispatchTypeOK'
    BY <2>1, <2>2, <2>3 DEF DispatchInv, DispatchTypeOK, Failures
  <2>5. GuardHeld'
    BY <1>1, <2>1, <2>2 DEF GuardHeld
  <2>6. HandledLives'
    BY <1>1, <2>1, <2>2, <2>3, failed = "none" DEF HandledLives, DestroyFailureOf
  <2>. QED
    BY <2>2, <2>4, <2>5, <2>6 DEF DispatchInv
<1>6. ASSUME NEW c \in alive, DestroyFree(c)
      PROVE  DispatchInv'
  <2>1. /\ c \notin Members /\ c \notin Listed
        /\ DestroyChannel(c, DestroyFailureOf(c))
        /\ tied' = tied /\ refs' = refs /\ revents' = revents /\ active' = active
        /\ handling' = handling /\ stage' = stage
    BY <1>6 DEF DestroyFree, Unlisted, looping
  <2>2. /\ alive' = alive \ {c} /\ failed' \in Failures \cup {"none"}
        /\ failed' = "none" => DestroyFailureOf(c) = DestroyFailure(c) /\ IInv'
        /\ failed' = DestroyFailureOf(c)
    <3>1. DestroyFailureOf(c) \in {DestroyFailure(c), "destroyed while handled"}
      BY DEF DestroyFailureOf
    <3>2. failed' = DestroyFailureOf(c)
      BY <2>1 DEF DestroyChannel
    <3>. QED
      BY <1>1, <2>1, <3>1, <3>2, failed = "none", DestroyChannelStep
  <2>3. Listed' = Listed /\ Listed' \subseteq alive'
    BY <1>1, <2>1, <2>2 DEF Listed
  <2>4. DispatchTypeOK'
    BY <2>1, <2>2, <2>3 DEF DispatchInv, DispatchTypeOK, Failures
  <2>5. GuardHeld' /\ MembersLive'
    BY <1>1, <2>1, <2>2, DispatchAssumption DEF GuardHeld, MembersLive, Lives
  <2>6. HandledLives'
    BY <1>1, <2>1, <2>2, <2>3, failed = "none" DEF HandledLives, DestroyFailureOf
  <2>. QED
    BY <2>2, <2>4, <2>5, <2>6 DEF DispatchInv
<1>. QED
  BY <1>2, <1>3, <1>4, <1>5, <1>6 DEF Client

LEMMA DispatchStutterStep ==
  ASSUME DispatchInv, UNCHANGED dispatchVars
  PROVE  DispatchInv'
<1>1. /\ UNCHANGED vars /\ tied' = tied /\ refs' = refs /\ revents' = revents
      /\ active' = active /\ handling' = handling /\ stage' = stage
  BY DEF dispatchVars, looping
<1>2. failed' = failed /\ alive' = alive /\ (failed' = "none" => IInv') /\ Listed' = Listed
  BY <1>1, StutterStep DEF DispatchInv, vars, Listed
<1>3. DispatchTypeOK'
  BY <1>1, <1>2 DEF DispatchInv, DispatchTypeOK
<1>4. GuardHeld' /\ MembersLive' /\ HandledLives'
  BY <1>1, <1>2 DEF DispatchInv, GuardHeld, MembersLive, HandledLives, Lives
<1>. QED
  BY <1>2, <1>3, <1>4 DEF DispatchInv

LEMMA DispatchInvariant == DispatchSpec => []DispatchInv
<1>1. ASSUME DispatchInv, [DispatchNext]_dispatchVars
      PROVE  DispatchInv'
  <2>1. CASE DispatchNext
    BY <1>1, <2>1, PollStep, HandleEventStep, NextCallbackStep, ReturnStep, ClientStep
    DEF DispatchNext, LoopStep
  <2>. QED
    BY <1>1, <2>1, DispatchStutterStep
<1>. QED
  BY <1>1, DispatchInitHolds, PTL DEF DispatchSpec
-----------------------------------------------------------------------------
(* Whatever a callback does, every descriptor that is reported has its     *)
(* channel, which exists and is listed once until it is handled, and only  *)
(* assertions about what a client may do fail.                             *)
THEOREM DispatchTypeCorrect == DispatchSpec => []DispatchTypeOK
BY DispatchInvariant, PTL DEF DispatchInv

(* A tied channel, and its object, outlive the callbacks that are called   *)
(* for it, whatever these callbacks drop.                                  *)
THEOREM TiedSurvive == DispatchSpec => []TiedSurvivesItsCallbacks
<1>1. DispatchInv => TiedSurvivesItsCallbacks
  <2>. SUFFICES ASSUME DispatchInv, handling \in tied
                PROVE  Lives(handling) /\ (handling \in Members => handling \in alive)
    BY DEF TiedSurvivesItsCallbacks
  <2>1. handling \in Channels
    BY DEF DispatchInv, DispatchTypeOK
  <2>2. "guard" \in refs[handling]
    BY <2>1 DEF DispatchInv, GuardHeld
  <2>. QED
    BY <2>2 DEF DispatchInv, MembersLive, Lives
<1>. QED
  BY <1>1, DispatchInvariant, PTL

(* The tables of the poller agree, and poll(2) is asked for every event,   *)
(* while callbacks run and call the poller.                                *)
THEOREM PollerAgreesInCallbacks ==
  DispatchSpec => [](failed = "none" => PollerAgrees /\ NoEventMissed)
<1>1. DispatchInv => (failed = "none" => PollerAgrees /\ NoEventMissed)
  BY DEF DispatchInv, IInv
<1>. QED
  BY <1>1, DispatchInvariant, PTL

(* A call of the client, as PollPoller has it, or the failed assertion of  *)
(* ~Channel that the channel is not being handled, with which all ends.    *)
MakesCall ==
  [Next]_vars \/ (failed' = "destroyed while handled" /\ alive # {} /\ UNCHANGED poller)

LEMMA DestroyMakesCall ==
  ASSUME failed = "none", NEW c \in alive, NEW failure,
         failure \in {DestroyFailure(c), "destroyed while handled"},
         DestroyChannel(c, failure)
  PROVE  MakesCall
<1>1. CASE failure = DestroyFailure(c)
  BY <1>1 DEF DestroyChannel, Destroy, Call, Next, MakesCall
<1>2. CASE failure = "destroyed while handled"
  BY <1>2 DEF DestroyChannel, MakesCall
<1>. QED
  BY <1>1, <1>2

LEMMA DropMakesCall ==
  ASSUME DispatchInv, failed = "none", NEW c, NEW holder, NEW failure,
         failure \in {DestroyFailure(c), "destroyed while handled"},
         DropReference(c, holder, failure)
  PROVE  MakesCall
<1>1. CASE refs[c] = {holder} /\ c \in Members
  <2>1. c \in alive /\ DestroyChannel(c, failure)
    BY <1>1 DEF DispatchInv, MembersLive, Lives, DropReference
  <2>. QED
    BY <2>1, failed = "none", DestroyMakesCall
<1>2. CASE ~(refs[c] = {holder} /\ c \in Members)
  BY <1>2 DEF DropReference, MakesCall
<1>. QED
  BY <1>1, <1>2

LEMMA DispatchMakesCalls ==
  ASSUME DispatchInv, [DispatchNext]_dispatchVars
  PROVE  MakesCall
<1>1. CASE UNCHANGED dispatchVars
  BY <1>1 DEF dispatchVars, MakesCall
<1>2. ASSUME failed = "none", Poll
      PROVE  MakesCall
  <2>1. UNCHANGED <<alive, events, added, poller>>
    BY <1>2 DEF Poll
  <2>2. failed' = "none"
    <3>1. failed' \in {"none", "reported unknown"}
      BY <1>2 DEF Poll, FillFailure
    <3>2. DispatchInv'
      BY <1>2, PollStep
    <3>. QED
      BY <3>1, <3>2 DEF DispatchInv, DispatchTypeOK, ClientFailures, PlaceFailures
  <2>. QED
    BY <1>2, <2>1, <2>2 DEF MakesCall, vars, poller
<1>3. ASSUME failed = "none", LoopStep
      PROVE  MakesCall
  <2>1. CASE HandleEvent \/ NextCallback
    BY <2>1 DEF HandleEvent, NextCallback, MakesCall
  <2>2. CASE Return
    BY <1>3, <2>2, DropMakesCall DEF Return, MakesCall
  <2>. QED
    BY <1>3, <2>1, <2>2 DEF LoopStep
<1>4. ASSUME failed = "none", Client
      PROVE  MakesCall
  <2>1. ASSUME NEW c \in Channels, CreateChannel(c)
        PROVE  MakesCall
    BY <1>4, <2>1 DEF CreateChannel, Next, MakesCall
  <2>2. ASSUME NEW c \in alive, CallChannel(c)
        PROVE  MakesCall
    BY <1>4, <2>2 DEF CallChannel, Call, Next, MakesCall
  <2>3. ASSUME NEW c \in alive, Tie(c)
        PROVE  MakesCall
    BY <2>3 DEF Tie, MakesCall
  <2>4. ASSUME NEW c \in alive, Release(c) \/ DestroyFree(c)
        PROVE  MakesCall
    <3>1. DestroyFailureOf(c) \in {DestroyFailure(c), "destroyed while handled"}
      BY DEF DestroyFailureOf
    <3>. QED
      BY <1>4, <2>4, <3>1, DropMakesCall, DestroyMakesCall DEF Release, DestroyFree
  <2>. QED
    BY <1>4, <2>1, <2>2, <2>3, <2>4 DEF Client
<1>. QED
  BY <1>1, <1>2, <1>3, <1>4 DEF DispatchNext

(* For the poller, EventLoop::Loop with HandleEvent and the callbacks is a *)
(* client: each step is a call that module PollPoller has, or does not     *)
(* touch the poller, unless ~Channel's assertion on event_handling_ fails. *)
THEOREM CallbacksMakeCalls ==
  DispatchSpec => Init /\ [][[Next]_vars \/ failed' = "destroyed while handled"]_dispatchVars
<1>1. DispatchInv /\ [DispatchNext]_dispatchVars => [Next]_vars \/ failed' = "destroyed while handled"
  BY DispatchMakesCalls DEF MakesCall
<1>2. DispatchInit => Init
  BY DEF DispatchInit
<1>. QED
  BY <1>1, <1>2, DispatchInvariant, PTL DEF DispatchSpec

(* A call from a callback, too, leaves what poll(2) is asked about every   *)
(* channel but one as it was, and takes no descriptor over but that of its *)
(* own channel.                                                            *)
THEOREM CallbacksDisturbNoOther == DispatchSpec => OthersUndisturbed
<1>. DEFINE Kept == \E c \in Channels : \A d \in Channels \ {c} :
                      Entry(d)' = Entry(d) \/ (Fd[d] = Fd[c] /\ c \in channels')
<1>1. ASSUME DispatchInv, failed = "none", MakesCall
      PROVE  [Kept]_vars
  <2>1. CASE Next
    BY <1>1, <2>1, NextStep DEF DispatchInv, Undisturbed
  <2>2. ASSUME alive # {}, UNCHANGED poller
        PROVE  Kept
    <3>1. PICK c : c \in alive
      BY <2>2
    <3>2. c \in Channels
      BY <1>1, <3>1 DEF DispatchInv, IInv, TypeOK
    <3>3. \A d : Entry(d)' = Entry(d)
      BY <2>2 DEF Entry, Place, poller
    <3>. QED
      BY <3>2, <3>3
  <2>. QED
    BY <1>1, <2>1, <2>2 DEF MakesCall
<1>2. DispatchInv /\ [DispatchNext]_dispatchVars => [Kept]_vars
  BY <1>1, DispatchMakesCalls DEF DispatchNext, dispatchVars
<1>. QED
  BY <1>2, DispatchInvariant, PTL DEF DispatchSpec, OthersUndisturbed
=============================================================================
