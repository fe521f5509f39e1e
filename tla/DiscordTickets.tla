---------------------------- MODULE DiscordTickets ----------------------------
(***************************************************************************)
(* The support tickets of the Discord bot: ticketSystem.js as index.js     *)
(* dispatches its buttons.  The open tickets and the counter live in the   *)
(* memory of the process, the channels on Discord.  index.js does not wait *)
(* for the handlers and nothing catches what they reject with, so that a   *)
(* reply or a welcome Discord refuses ends the process: a restart finds    *)
(* the channels and has forgotten the tickets.                             *)
(*                                                                         *)
(* Discord is external: each call succeeds or fails.  It accepts at most   *)
(* 100 messages a fetch while the code asks for 1000; the model keeps the  *)
(* fetch that succeeds, which is what the code after it is written for.    *)
(***************************************************************************)
EXTENDS Naturals, FiniteSets, SequencesExt

CONSTANTS Slot,          \* what handles the buttons pressed, numbers
          None,
          MaxPresses,    \* buttons pressed in all
          MaxFailures,   \* calls Discord fails
          MaxRestarts    \* ends of the process other than by a rejection

VARIABLES counter,       \* ticketCounter
          tickets,       \* the map: channel -> number, as a set of pairs
          channels,      \* ticket channels that exist, with their buttons
          made,          \* channels made so far: the next one's identity
          category,      \* guilds.channels.cache holds a category 'tickets'
          posts,         \* channels whose transcript was posted, in order
          handler,       \* per slot, what it is doing and with what
          presses, failures, restarts

vars == <<counter, tickets, channels, made, category, posts, handler,
          presses, failures, restarts>>

Channel == 1..MaxPresses
Idle == [at |-> "idle", number |-> 0, channel |-> None]

TypeOK ==
    /\ counter \in 0..MaxPresses
    /\ tickets \subseteq (Channel \X (1..MaxPresses))
    /\ channels \subseteq [channel : Channel, button : BOOLEAN]
    /\ made \in 0..MaxPresses
    /\ category \in BOOLEAN
    /\ posts \in Seq(Channel) /\ Len(posts) <= MaxPresses
    /\ handler \in [Slot -> [at : {"idle", "category", "channel", "register",
                                   "reply", "welcome", "refuse", "fetch",
                                   "tell", "delete", "forget", "post"},
                             number : 0..MaxPresses,
                             channel : Channel \union {None}]]
    /\ presses \in 0..MaxPresses
    /\ failures \in 0..MaxFailures
    /\ restarts \in 0..MaxRestarts

Init ==
    /\ counter = 0
    /\ tickets = {}
    /\ channels = {}
    /\ made = 0
    /\ category \in BOOLEAN
    /\ posts = <<>>
    /\ handler = [s \in Slot |-> Idle]
    /\ presses = 0
    /\ failures = 0
    /\ restarts = 0

-----------------------------------------------------------------------------

\* The slot that takes the next button: the first idle one.
Free(s) == /\ handler[s].at = "idle"
           /\ \A t \in Slot : t < s => handler[t].at # "idle"

To(s, at) == handler' = [handler EXCEPT ![s].at = at]
Finish(s) == handler' = [handler EXCEPT ![s] = Idle]

Fail == failures < MaxFailures /\ failures' = failures + 1

Exists(ch) == \E c \in channels : c.channel = ch
Entry(ch) == {e \in tickets : e[1] = ch}

\* An unhandled rejection, or any other end of the process: what is in memory
\* is lost, what is on Discord stays.
End == /\ counter' = 0
       /\ tickets' = {}
       /\ handler' = [s \in Slot |-> Idle]
       /\ UNCHANGED <<channels, made, category, posts, presses>>

-----------------------------------------------------------------------------

\* A number that is not counted when it is taken.
TakeNumberLate(s, at) == /\ counter' = counter
                         /\ handler' = [handler EXCEPT ![s] =
                                [at |-> at, number |-> counter + 1, channel |-> None]]

\* The number of a ticket is taken in the turn the button arrives in, before
\* anything is awaited.
TakeNumber(s, at) == /\ counter' = counter + 1
                     /\ handler' = [handler EXCEPT ![s] =
                            [at |-> at, number |-> counter + 1, channel |-> None]]

\* handleTicketCreate up to its first await; getTicketCategory's lookup.
handleTicketCreate(s) ==
    /\ Free(s)
    /\ presses < MaxPresses
    /\ presses' = presses + 1
    /\ TakeNumber(s, IF category THEN "channel" ELSE "category")
    /\ UNCHANGED <<tickets, channels, made, category, posts, failures, restarts>>

\* Two handlers that both found no category make two: the cache holds one of
\* that name either way.  A failure goes on without a category.
getTicketCategory(s) ==
    /\ handler[s].at = "category"
    /\ \/ category' = TRUE /\ UNCHANGED failures
       \/ Fail /\ UNCHANGED category
    /\ To(s, "channel")
    /\ UNCHANGED <<counter, tickets, channels, made, posts, presses, restarts>>

createTicketChannel(s) ==
    /\ handler[s].at = "channel"
    /\ \/ /\ made' = made + 1
          /\ channels' = channels \union {[channel |-> made + 1, button |-> FALSE]}
          /\ handler' = [handler EXCEPT ![s].at = "register", ![s].channel = made + 1]
          /\ UNCHANGED failures
       \/ /\ Fail
          /\ To(s, "refuse")
          /\ UNCHANGED <<made, channels>>
    /\ UNCHANGED <<counter, tickets, category, posts, presses, restarts>>

Register(s) ==
    /\ handler[s].at = "register"
    /\ tickets' = tickets \union {<<handler[s].channel, handler[s].number>>}
    /\ To(s, "reply")
    /\ UNCHANGED <<counter, channels, made, category, posts, presses, failures, restarts>>

\* The reply to the button, with or without a ticket; too late or refused, it
\* rejects and nothing catches it.
Reply(s) ==
    /\ handler[s].at \in {"reply", "refuse"}
    /\ \/ /\ IF handler[s].at = "reply" THEN To(s, "welcome") ELSE Finish(s)
          /\ UNCHANGED <<counter, tickets, channels, made, category, posts,
                         presses, failures, restarts>>
       \/ Fail /\ End /\ UNCHANGED restarts

\* The welcome brings the button that closes the ticket; the channel may be
\* gone by now, removed by hand.
sendTicketWelcomeMessage(s) ==
    /\ handler[s].at = "welcome"
    /\ \/ /\ Exists(handler[s].channel)
          /\ channels' = {[c EXCEPT !.button = (@ \/ c.channel = handler[s].channel)] :
                            c \in channels}
          /\ Finish(s)
          /\ UNCHANGED <<counter, tickets, made, category, posts, presses, failures, restarts>>
       \/ /\ ~Exists(handler[s].channel) /\ End /\ UNCHANGED <<failures, restarts>>
       \/ Fail /\ End /\ UNCHANGED restarts

-----------------------------------------------------------------------------

\* The close button: a channel the map does not know is left alone.
handleTicketClose(s) ==
    /\ Free(s)
    /\ presses < MaxPresses
    /\ presses' = presses + 1
    /\ \E c \in channels :
         /\ c.button
         /\ handler' = IF Entry(c.channel) = {} THEN handler
                       ELSE [handler EXCEPT ![s] =
                               [at |-> "fetch", channel |-> c.channel,
                                number |-> (CHOOSE e \in Entry(c.channel) : TRUE)[2]]]
    /\ UNCHANGED <<counter, tickets, channels, made, category, posts, failures, restarts>>

\* The messages and the user; what fails ends in the handler's catch.
Fetch(s) ==
    /\ handler[s].at \in {"fetch", "tell"}
    /\ \/ /\ handler[s].at = "fetch" => Exists(handler[s].channel)
          /\ To(s, IF handler[s].at = "fetch" THEN "tell" ELSE "delete")
          /\ UNCHANGED failures
       \/ /\ handler[s].at = "fetch" /\ ~Exists(handler[s].channel)
          /\ Finish(s) /\ UNCHANGED failures
       \/ Fail /\ Finish(s)
    /\ UNCHANGED <<counter, tickets, channels, made, category, posts, presses, restarts>>

\* A deletion whose failure is swallowed.
RefusedNever(s) == FALSE

\* Discord refuses to delete a channel that is not there.
Refused(s) == ~Exists(handler[s].channel)

DeleteChannel(s) ==
    /\ handler[s].at = "delete"
    /\ \/ /\ ~Refused(s)
          /\ channels' = {c \in channels : c.channel # handler[s].channel}
          /\ To(s, "forget")
          /\ UNCHANGED failures
       \/ Refused(s) /\ Finish(s) /\ UNCHANGED <<channels, failures>>
       \/ Fail /\ Finish(s) /\ UNCHANGED channels
    /\ UNCHANGED <<counter, tickets, made, category, posts, presses, restarts>>

Forget(s) ==
    /\ handler[s].at = "forget"
    /\ tickets' = tickets \ Entry(handler[s].channel)
    /\ To(s, "post")
    /\ UNCHANGED <<counter, channels, made, category, posts, presses, failures, restarts>>

saveTranscript(s) ==
    /\ handler[s].at = "post"
    /\ \/ posts' = Append(posts, handler[s].channel) /\ UNCHANGED failures
       \/ Fail /\ UNCHANGED posts
    /\ Finish(s)
    /\ UNCHANGED <<counter, tickets, channels, made, category, presses, restarts>>

-----------------------------------------------------------------------------

\* The process ends and starts again, or somebody removes a channel by hand;
\* MaxRestarts bounds both.
Restart ==
    /\ restarts < MaxRestarts
    /\ restarts' = restarts + 1
    /\ \/ End /\ UNCHANGED failures
       \/ /\ \E c \in channels : channels' = channels \ {c}
          /\ UNCHANGED <<counter, tickets, made, category, posts, handler, presses, failures>>

Next ==
    \/ \E s \in Slot :
         \/ handleTicketCreate(s) \/ getTicketCategory(s) \/ createTicketChannel(s)
         \/ Register(s) \/ Reply(s) \/ sendTicketWelcomeMessage(s)
         \/ handleTicketClose(s) \/ Fetch(s) \/ DeleteChannel(s) \/ Forget(s)
         \/ saveTranscript(s)
    \/ Restart

Spec == Init /\ [][Next]_vars

-----------------------------------------------------------------------------

\* The log holds one transcript of a ticket, however many press its button
\* before the channel is gone and whatever fails in between, and only of a
\* ticket that is closed: its channel removed and the map rid of it
\* (handleTicketClose awaits four times between reading the map and changing
\* it).
TranscribedOnce ==
    /\ IsInjective(posts)
    /\ \A i \in DOMAIN posts : ~Exists(posts[i]) /\ Entry(posts[i]) = {}

\* Tickets that are open together have different numbers and channels: the
\* number is taken before the handler awaits anything.
NumbersDistinct ==
    \A d, e \in tickets : d # e => d[1] # e[1] /\ d[2] # e[2]

TicketsKept == TranscribedOnce /\ NumbersDistinct
=============================================================================
