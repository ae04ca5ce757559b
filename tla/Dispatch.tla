------------------------------ MODULE Dispatch ------------------------------
(***************************************************************************)
(* From poll(2) to the callbacks of the channels: PollPoller::Poll and     *)
(* FillActiveChannels (poller/poll_poller_.cc), Channel::HandleEvent,      *)
(* HandleEventWithGuard and Tie (channel_.cc), over module PollPoller.     *)
(*                                                                         *)
(* The loop around them, EventLoop::Loop, is declared only.  It polls,     *)
(* handles the active channels in order, lets other code run, and polls    *)
(* again.  A callback may call anything of any channel.                    *)
(*                                                                         *)
(* A channel has an object, the one it may be tied to, under a shared_ptr. *)
(* The channels in Members are members of their objects and are destroyed  *)
(* with them; the others are destroyed on their own.  The list of active   *)
(* channels holds plain pointers, so that a client must not destroy a      *)
(* channel that is in it (Unlisted).                                       *)
(***************************************************************************)
EXTENDS PollPoller

CONSTANTS
  Members,    \* the channels that are members of the objects they are tied to
  Conditions, \* what poll(2) reports of each descriptor, out of in, pri, out,
              \* hup, err and nval
  NoChannel

Fds == {Fd[c] : c \in Channels}

ASSUME DispatchAssumption ==
  /\ Members \subseteq Channels /\ NoChannel \notin Channels
  /\ Conditions \in [Fds -> SUBSET {"in", "pri", "out", "hup", "err", "nval"}]

Reported == UNION {Conditions[fd] : fd \in Fds}

VARIABLES
  revents,    \* revents_
  tied,       \* the channels with tied_
  refs,       \* who holds a shared_ptr to the object of each channel
  active,     \* the active channels that are still to be handled
  handling,   \* the channel with event_handling_, or NoChannel
  stage       \* how far HandleEventWithGuard is: the last callback called

looping == <<revents, active, handling, stage>>
dispatchVars == <<vars, tied, refs, looping>>

DispatchInit ==
  /\ Init
  /\ revents = [c \in Channels |-> {}]
  /\ tied = {}
  /\ refs = [c \in Channels |-> {}]
  /\ active = <<>>
  /\ handling = NoChannel
  /\ stage = 0

Listed == {active[i] : i \in DOMAIN active}
Lives(c) == refs[c] # {}
-----------------------------------------------------------------------------
(* poll(2) reports what was asked for, and what needs no asking, of the    *)
(* descriptors that are not muted.                                         *)
Reportable(p) ==
  IF p.fd < 0 THEN {}
  ELSE Conditions[p.fd] \cap ((IF "read" \in p.events THEN {"in", "pri"} ELSE {})
         \cup (IF "write" \in p.events THEN {"out"} ELSE {}) \cup {"hup", "err", "nval"})

Reports == {r \in [1 .. Len(pollfds) -> SUBSET Reported] :
              \A i \in DOMAIN r : r[i] \subseteq Reportable(pollfds[i])}

FillActiveChannels(r) ==
  LET found[k \in 0 .. Len(pollfds)] ==
        IF k = 0 THEN <<>>
        ELSE IF r[k] = {} THEN found[k - 1]
        ELSE Append(found[k - 1], OwnerIn(channels, pollfds[k].fd))
  IN active' = found[Len(pollfds)]

FillFailure(r) ==
  IF \A i \in DOMAIN r : r[i] # {} => OwnersIn(channels, pollfds[i].fd) # {}
  THEN "none" ELSE "reported unknown"

SetRevents(r) ==
  revents' = [c \in Channels |->
    LET own == {i \in DOMAIN r : r[i] # {} /\ HasChannel(c) /\ pollfds[i].fd = Fd[c]} IN
      IF own = {} THEN revents[c] ELSE r[CHOOSE i \in own : TRUE]]

(* A poll that times out or is interrupted changes nothing. *)
Poll ==
  /\ active = <<>> /\ handling = NoChannel
  /\ \E r \in Reports :
       /\ failed' = FillFailure(r)
       /\ FillActiveChannels(r)
       /\ SetRevents(r)
  /\ UNCHANGED <<alive, events, added, poller, tied, refs, handling, stage>>
-----------------------------------------------------------------------------
(* Channel::HandleEvent *)

Guard(c) == refs' = [refs EXCEPT ![c] = @ \cup {"guard"}]

(* A faulty variant: the object is looked at, and not held. *)
EnterTesting(c) ==
  \/ c \notin tied /\ handling' = c /\ UNCHANGED refs
  \/ c \in tied /\ Lives(c) /\ handling' = c /\ UNCHANGED refs
  \/ c \in tied /\ ~Lives(c) /\ UNCHANGED <<handling, refs>>

(* Callbacks are called for a tied channel while its object lives, which   *)
(* the guard makes last.                                                   *)
Enter(c) ==
  \/ c \notin tied /\ handling' = c /\ UNCHANGED refs
  \/ c \in tied /\ Lives(c) /\ handling' = c /\ Guard(c)
  \/ c \in tied /\ ~Lives(c) /\ UNCHANGED <<handling, refs>>

HandleEvent ==
  /\ active # <<>> /\ handling = NoChannel
  /\ Enter(Head(active))
  /\ active' = Tail(active)
  /\ stage' = 0
  /\ UNCHANGED <<vars, tied, revents>>

Callbacks == <<"close", "error", "read", "write">>

(* A faulty variant: the tests are alternatives of each other. *)
DemandedFirst(c) == LET called ==
    {k \in 1 .. 4 :
      CASE Callbacks[k] = "close" -> "hup" \in revents[c] /\ "in" \notin revents[c]
        [] Callbacks[k] = "error" -> revents[c] \cap {"err", "nval"} # {}
        [] Callbacks[k] = "read" -> revents[c] \cap {"in", "pri"} # {}
        [] Callbacks[k] = "write" -> "out" \in revents[c]}
  IN {k \in called : \A l \in called : k <= l}

(* The callbacks that HandleEventWithGuard calls, one after the other. *)
Demanded(c) == {k \in 1 .. 4 :
  CASE Callbacks[k] = "close" -> "hup" \in revents[c] /\ "in" \notin revents[c]
    [] Callbacks[k] = "error" -> revents[c] \cap {"err", "nval"} # {}
    [] Callbacks[k] = "read" -> revents[c] \cap {"in", "pri"} # {}
    [] Callbacks[k] = "write" -> "out" \in revents[c]}

NextCallback ==
  /\ handling # NoChannel
  /\ stage' \in Demanded(handling)
  /\ stage < stage'
  /\ \A k \in Demanded(handling) : stage < k => stage' <= k
  /\ UNCHANGED <<vars, tied, refs, revents, active, handling>>

(* The last reference to the object of c is gone: the object is destroyed, *)
(* and with it the channel if it is a member.                              *)
DestroyFailureOf(c) == IF handling = c THEN "destroyed while handled" ELSE DestroyFailure(c)

DestroyChannel(c, failure) ==
  /\ alive' = alive \ {c}
  /\ failed' = failure
  /\ UNCHANGED <<events, added, poller>>

DropReference(c, holder, failure) ==
  /\ refs' = [refs EXCEPT ![c] = @ \ {holder}]
  /\ IF refs[c] = {holder} /\ c \in Members THEN DestroyChannel(c, failure) ELSE UNCHANGED vars

(* event_handling_ is reset, and then the guard is destroyed. *)
Return ==
  /\ handling # NoChannel
  /\ \A k \in Demanded(handling) : k <= stage
  /\ handling' = NoChannel
  /\ stage' = 0
  /\ IF "guard" \in refs[handling]
     THEN DropReference(handling, "guard", DestroyFailure(handling))
     ELSE UNCHANGED <<vars, refs>>
  /\ UNCHANGED <<tied, revents, active>>
-----------------------------------------------------------------------------
(* The client: a callback, or other code of the thread between two polls.  *)

ClientRuns == IF handling = NoChannel THEN active = <<>> ELSE stage > 0

Unlisted(c) == c \notin Listed

CreateChannel(c) ==
  /\ Construct(c)
  /\ revents' = [revents EXCEPT ![c] = {}]
  /\ tied' = tied \ {c}
  /\ refs' = [refs EXCEPT ![c] = {"client"}]
  /\ UNCHANGED <<active, handling, stage>>

(* Tie comes before the events. *)
Tie(c) ==
  /\ handling # c /\ Lives(c)
  /\ tied' = tied \cup {c}
  /\ UNCHANGED <<vars, refs, looping>>

Release(c) ==
  /\ "client" \in refs[c]
  /\ c \in Members => Unlisted(c)
  /\ DropReference(c, "client", DestroyFailureOf(c))
  /\ UNCHANGED <<tied, looping>>

DestroyFree(c) ==
  /\ c \notin Members /\ Unlisted(c)
  /\ DestroyChannel(c, DestroyFailureOf(c))
  /\ UNCHANGED <<tied, refs, looping>>

CallChannel(c) ==
  /\ EnableReading(c) \/ DisableReading(c) \/ EnableWriting(c) \/ DisableWriting(c)
     \/ DisableAll(c) \/ Remove(c)
  /\ UNCHANGED <<tied, refs, looping>>

Client ==
  /\ ClientRuns
  /\ \/ \E c \in Channels : CreateChannel(c)
     \/ \E c \in alive : CallChannel(c) \/ Tie(c) \/ Release(c) \/ DestroyFree(c)
-----------------------------------------------------------------------------
LoopStep == HandleEvent \/ NextCallback \/ Return

DispatchNext == failed = "none" /\ (Poll \/ LoopStep \/ Client)

(* Callbacks return. *)
DispatchSpec ==
  /\ DispatchInit /\ [][DispatchNext]_dispatchVars
  /\ WF_dispatchVars(failed = "none" /\ LoopStep)
-----------------------------------------------------------------------------
(* Every variable has its type; the list of active channels has no channel *)
(* twice and none that is destroyed; and FillActiveChannels finds a        *)
(* channel for each descriptor that is reported (the assertion of          *)
(* poll_poller_.cc:48), whatever a callback does between two polls.  No    *)
(* assertion about the poller's own tables fails in a callback.            *)
DispatchTypeOK ==
  /\ revents \in [Channels -> SUBSET Reported]
  /\ tied \subseteq Channels
  /\ refs \in [Channels -> SUBSET {"client", "guard"}]
  /\ active \in Seq(Channels)
  /\ \A i, j \in DOMAIN active : active[i] = active[j] => i = j
  /\ handling \in Channels \cup {NoChannel}
  /\ stage \in 0 .. Len(Callbacks)
  /\ failed \in ClientFailures \cup PlaceFailures \cup {"none", "destroyed while handled"}
  /\ failed = "none" => Listed \subseteq alive

(* No callback of a tied channel destroys what it runs on: while a tied    *)
(* channel that is a member of its object handles its events, its object   *)
(* lives, and so does the channel, even if the callback drops the client's *)
(* last reference.                                                         *)
TiedSurvivesItsCallbacks ==
  handling \in tied => Lives(handling) /\ (handling \in Members => handling \in alive)

(* Whatever callbacks do, each event that poll(2) reports of a channel     *)
(* reaches a callback made for it, unless the channel was tied and its     *)
(* object is gone.  A hangup is the read callback's when there is          *)
(* something left to read.                                                 *)
CallbacksFor(e) ==
  CASE e = "hup" -> {"close", "read"}
    [] e \in {"err", "nval"} -> {"error"}
    [] e \in {"in", "pri"} -> {"read"}
    [] e = "out" -> {"write"}

Called(c, e) == handling = c /\ stage > 0 /\ Callbacks[stage] \in CallbacksFor(e)

ReportedIsCalled ==
  \A c \in Channels : \A e \in Conditions[Fd[c]] :
    (c \in Listed /\ e \in revents[c])
      ~> (Called(c, e) \/ (c \in tied /\ ~Lives(c)) \/ failed # "none")
=============================================================================
