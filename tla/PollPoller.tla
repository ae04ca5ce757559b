----------------------------- MODULE PollPoller -----------------------------
(***************************************************************************)
(* The channels of one EventLoop and its PollPoller                        *)
(* (src/qingyi/net/channel_.h, channel_.cc, poller/poll_poller_.cc).       *)
(*                                                                         *)
(* pollfds_ is the argument of poll(2), channels_ finds the channel of a   *)
(* descriptor, and each channel remembers the place of its pollfd in       *)
(* index_, counted from 0.  Several channels may have one descriptor, as   *)
(* when its number is used again while a channel that was removed lives.   *)
(* Channels are destroyed, and constructed anew for the same descriptor.   *)
(* Everything happens in the thread of the loop, and EventLoop passes      *)
(* UpdateChannel and RemoveChannel on to the poller.                       *)
(*                                                                         *)
(* A client may call anything in any order.  An assertion of the code that *)
(* fails is recorded in failed and ends the process.  The files do not     *)
(* compile as they stand; misspelt names (pollfd_ for pollfds_, fd for     *)
(* get_fd()) are read as the members that are declared.  The assertion of  *)
(* line 71 is kept as written: it assigns.                                 *)
(***************************************************************************)
EXTENDS Integers, Sequences

CONSTANTS
  Channels,   \* the channels
  Fd          \* fd_ of each channel

ASSUME PollerAssumption == Fd \in [Channels -> Nat]

VARIABLES
  alive,      \* the channels that exist
  events,     \* events_
  index,      \* index_
  added,      \* add_to_loop_
  pollfds,    \* pollfds_
  channels,   \* channels_: the channels it maps their descriptors to (its
              \* keys are their descriptors, hence at most one for each)
  failed      \* the assertion that failed, or "none"

vars == <<alive, events, index, added, pollfds, channels, failed>>

poller == <<index, pollfds, channels>>

Init ==
  /\ alive = {}
  /\ events = [c \in Channels |-> {}]
  /\ index = [c \in Channels |-> -1]
  /\ added = [c \in Channels |-> FALSE]
  /\ pollfds = <<>>
  /\ channels = {}
  /\ failed = "none"

(* A descriptor that poll(2) ignores, even if it is 0. *)
Muted(c) == -Fd[c] - 1

Place(c) == index[c] + 1
HasPlace(c) == Place(c) \in 1 .. Len(pollfds)

HasChannel(c) == c \in channels

(* The channel that channels_ has for the descriptor of c, if any. *)
Holders(c) == {d \in channels : Fd[d] = Fd[c]}
-----------------------------------------------------------------------------
Construct(c) ==
  /\ c \notin alive
  /\ alive' = alive \cup {c}
  /\ events' = [events EXCEPT ![c] = {}]
  /\ index' = [index EXCEPT ![c] = -1]
  /\ added' = [added EXCEPT ![c] = FALSE]
  /\ UNCHANGED <<pollfds, channels, failed>>

(* A faulty variant: only enabled channels are refused. *)
DestroyFailureEnabled(c) ==
  IF events[c] # {} THEN "destroyed in the loop" ELSE "none"

DestroyFailure(c) ==
  CASE added[c] -> "destroyed in the loop"
    [] ~added[c] /\ HasChannel(c) -> "destroyed in the poller"
    [] OTHER -> "none"

Destroy(c) ==
  /\ failed' = DestroyFailure(c)
  /\ alive' = alive \ {c}
  /\ UNCHANGED <<events, added, poller>>
-----------------------------------------------------------------------------
(* PollPoller::UpdateChannel.  The channel becomes the one that channels_  *)
(* has for its descriptor, which line 71 does for one that is not new: if  *)
(* another had the descriptor, its entry is overwritten.                   *)

UpdateFailure(c) ==
  IF index[c] < 0 THEN IF Holders(c) # {} THEN "added twice" ELSE "none"
  ELSE IF Holders(c) = {} THEN "updated after removal"
  ELSE IF ~HasPlace(c) THEN "updated out of range"
  ELSE IF pollfds[Place(c)].fd \notin {Fd[c], Muted(c)} THEN "updated another channel"
  ELSE "none"

AddEntry(c, e) ==
  /\ index[c] < 0
  /\ pollfds' = Append(pollfds, [fd |-> Fd[c], events |-> e])
  /\ index' = [index EXCEPT ![c] = Len(pollfds)]

(* A faulty variant: a descriptor once muted stays muted. *)
ChangeEntryMuted(c, e) ==
  /\ index[c] >= 0
  /\ pollfds' = [pollfds EXCEPT
       ![Place(c)] = [fd |-> IF e = {} THEN Muted(c) ELSE @.fd, events |-> e]]
  /\ UNCHANGED index

ChangeEntry(c, e) ==
  /\ index[c] >= 0
  /\ pollfds' = [pollfds EXCEPT
       ![Place(c)] = [fd |-> IF e = {} THEN Muted(c) ELSE Fd[c], events |-> e]]
  /\ UNCHANGED index

UpdateChannel(c, e) ==
  /\ failed' = UpdateFailure(c)
  /\ \/ failed' # "none" /\ UNCHANGED poller
     \/ /\ failed' = "none"
        /\ channels' = (channels \ Holders(c)) \cup {c}
        /\ AddEntry(c, e) \/ ChangeEntry(c, e)

(* A faulty variant: Update does not note that the channel is added. *)
UpdateUnnoted(c, e) ==
  /\ events' = [events EXCEPT ![c] = e]
  /\ UpdateChannel(c, e)
  /\ UNCHANGED <<alive, added>>

(* The Enable and Disable functions of Channel change events_ and Update. *)
Update(c, e) ==
  /\ events' = [events EXCEPT ![c] = e]
  /\ added' = [added EXCEPT ![c] = TRUE]
  /\ UpdateChannel(c, e)
  /\ UNCHANGED alive

EnableReading(c) == Update(c, events[c] \cup {"read"})
DisableReading(c) == Update(c, events[c] \ {"read"})
EnableWriting(c) == Update(c, events[c] \cup {"write"})
DisableWriting(c) == Update(c, events[c] \ {"write"})

(* DisableAll does not Update. *)
DisableAll(c) ==
  /\ events' = [events EXCEPT ![c] = {}]
  /\ UNCHANGED <<alive, added, poller, failed>>
-----------------------------------------------------------------------------
(* Channel::Remove and PollPoller::RemoveChannel.  The last assertion is   *)
(* about the pollfd: its descriptor must be muted and its events those of  *)
(* the channel.  They differ after DisableAll; they agree, but the         *)
(* descriptor is not muted, when the only Update was that of a channel     *)
(* without events.  Line 112 sets the index of the channel whose pollfd is *)
(* moved, through a null pointer if channels_ has none for it.             *)

(* Those of a set of channels whose descriptor it is, muted or not. *)
OwnersIn(known, fd) == {d \in known : fd \in {Fd[d], Muted(d)}}

RemoveFailure(c) ==
  IF events[c] # {} THEN "removed while enabled"
  ELSE IF c \notin channels THEN "removed while unknown"
  ELSE IF ~HasPlace(c) THEN "removed out of range"
  ELSE IF pollfds[Place(c)].events # {} THEN "removed while polled"
  ELSE IF pollfds[Place(c)].fd # Muted(c) THEN "removed unmuted"
  ELSE IF /\ Place(c) # Len(pollfds)
          /\ OwnersIn(channels \ {c}, pollfds[Len(pollfds)].fd) = {} THEN "moved unknown"
  ELSE "none"

OwnerIn(known, fd) == CHOOSE d \in OwnersIn(known, fd) : TRUE

PopBack(s) == SubSeq(s, 1, Len(s) - 1)

(* Faulty variants: the moved pollfd is not swapped in, or its channel     *)
(* keeps the old index.                                                    *)
TakeOutLast(c) ==
  LET last == pollfds[Len(pollfds)] IN
    /\ pollfds' = PopBack(pollfds)
    /\ index' = IF Place(c) = Len(pollfds) THEN index
                ELSE [index EXCEPT ![OwnerIn(channels \ {c}, last.fd)] = index[c]]

TakeOutKeepingIndex(c) ==
  LET last == pollfds[Len(pollfds)] IN
    /\ pollfds' = PopBack([pollfds EXCEPT ![Place(c)] = last])
    /\ UNCHANGED index

(* The last pollfd is moved to the place of the one that is removed. *)
TakeOut(c) ==
  LET last == pollfds[Len(pollfds)] IN
    /\ pollfds' = PopBack([pollfds EXCEPT ![Place(c)] = last])
    /\ index' = IF Place(c) = Len(pollfds) THEN index
                ELSE [index EXCEPT ![OwnerIn(channels \ {c}, last.fd)] = index[c]]

Remove(c) ==
  /\ failed' = RemoveFailure(c)
  /\ \/ failed' # "none" /\ UNCHANGED <<added, poller>>
     \/ /\ failed' = "none"
        /\ added' = [added EXCEPT ![c] = FALSE]
        /\ channels' = channels \ {c}
        /\ TakeOut(c)
  /\ UNCHANGED <<alive, events>>
-----------------------------------------------------------------------------
Call(c) ==
  \/ EnableReading(c) \/ DisableReading(c) \/ EnableWriting(c) \/ DisableWriting(c)
  \/ DisableAll(c) \/ Remove(c) \/ Destroy(c)

Next ==
  /\ failed = "none"
  /\ \/ \E c \in Channels : Construct(c)
     \/ \E c \in alive : Call(c)

Spec == Init /\ [][Next]_vars
-----------------------------------------------------------------------------
Events == {"read", "write"}

(* Assertions that state what a client may do; those about a channel's     *)
(* place, which it has while the poller knows it; and those about the      *)
(* poller itself, with the null pointer of line 112.                       *)
ClientFailures ==
  {"destroyed in the loop", "updated after removal", "removed while enabled",
   "removed while unknown", "removed while polled", "removed unmuted"}
PlaceFailures == {"added twice", "updated out of range", "updated another channel"}
InternalFailures == {"destroyed in the poller", "removed out of range", "moved unknown"}

(* Every variable has its type, channels_ has one channel for each         *)
(* descriptor, and only channels that exist are in the loop or the poller  *)
(* while no assertion has failed.                                          *)
TypeOK ==
  /\ alive \in SUBSET Channels /\ channels \in SUBSET Channels
  /\ events \in [Channels -> SUBSET Events]
  /\ index \in [Channels -> Nat \cup {-1}]
  /\ added \in [Channels -> BOOLEAN]
  /\ pollfds \in Seq([fd : Int, events : SUBSET Events])
  /\ failed \in ClientFailures \cup PlaceFailures \cup InternalFailures \cup {"none"}
  /\ \A c \in channels : Holders(c) = {c}
  /\ failed = "none" => channels \subseteq alive

(* Each channel in channels_ has its own pollfd at index_, and there is no *)
(* pollfd without a channel: FillActiveChannels (line 48) finds the        *)
(* channel of every descriptor poll reports.                               *)
PollerAgrees ==
  /\ \A c \in channels : HasPlace(c) /\ pollfds[Place(c)].fd \in {Fd[c], Muted(c)}
  /\ \A i \in 1 .. Len(pollfds) : \E c \in channels : Place(c) = i

(* Nothing a channel waits for is missing from its pollfd: poll(2) looks   *)
(* at the descriptor, unmuted, and for the channel's events.               *)
NoEventMissed == \A c \in channels :
  events[c] # {} => pollfds[Place(c)] = [fd |-> Fd[c], events |-> events[c]]

(* No order of calls makes an assertion fail that is about the poller's    *)
(* own tables (poll_poller_.cc:91, channel_.cc:55), or moves a pollfd that *)
(* has no channel (line 112).  The assertions about a channel's place      *)
(* (lines 59, 73 and 75) can fail only in a call for a channel whose       *)
(* descriptor channels_ has for another: if line 71 compared, as line 88   *)
(* does, no stale index would get past it.                                 *)
InternalAssertionsHold ==
  /\ failed \notin InternalFailures
  /\ \A c \in alive : UpdateFailure(c) \in PlaceFailures => Holders(c) \ {c} # {}

(* What poll(2) is asked about a channel, through its index. *)
Entry(c) == IF c \in channels THEN {pollfds[Place(c)]} ELSE {}

(* A call concerns one channel: the removal that moves another channel's   *)
(* pollfd changes nothing about what that channel waits for.  Only a       *)
(* channel whose descriptor line 71 gives to another loses its pollfd.     *)
OthersUndisturbed ==
  [][\E c \in Channels : \A d \in Channels \ {c} :
       Entry(d)' = Entry(d) \/ (Fd[d] = Fd[c] /\ c \in channels')]_vars

(* A channel that is disabled, and so may be removed (the assertions of    *)
(* channel_.cc:70 and poll_poller_.cc:89), has the same events in its      *)
(* pollfd, none (the assertion pfd->events == channel->get_events() of     *)
(* poll_poller_.cc:94).                                                    *)
DisabledCanBeRemoved == failed # "removed while polled"
=============================================================================
