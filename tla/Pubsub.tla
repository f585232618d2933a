------------------------------- MODULE Pubsub -------------------------------
(***************************************************************************)
(* QPubsub: which client hears what.  A client knows what it subscribed to; *)
(* the channels know their clients by weak pointers.  A client that goes    *)
(* away tells nobody: a timer, and PUBLISH on its way, take what has        *)
(* expired out of the channels, a few at a time, from where the timer       *)
(* stopped before.                                                         *)
(*                                                                         *)
(* Channels and patterns are kept in the order of the map.  Left out: the   *)
(* replies, and UNSUBSCRIBE without a channel, which erases from the set    *)
(* that it iterates over.                                                  *)
(***************************************************************************)
EXTENDS Integers, Sequences, SequencesExt

CONSTANTS Clients,      \* that connect, each once
          Channels,     \* names of channels, in order
          Patterns,     \* in order
          Matches,      \* the pairs of a pattern and a channel it matches
          EraseMax      \* kEraseMax, 10 in the code

VARIABLES
    subscribed,     \* by client: QClient::channels_ and patternChannels_
    listed,         \* channels_ and patternChannels_: the clients of each entry
    entries,        \* which entries there are
    alive,          \* the clients somebody holds a pointer to
    start,          \* startChannel_ and startPattern_; Nothing is the empty text
    inbox,          \* history: by client, as what a message just sent came to it
    owed            \* history: by client, as what it was subscribed to that message

pubsubVars == <<subscribed, listed, entries, alive, start, inbox, owed>>

Nothing == "none"
Names == ToSet(Channels) \cup ToSet(Patterns)
Kinds == [channels |-> Channels, patterns |-> Patterns]

Silence == [c \in Clients |-> <<>>]

TypeOK ==
    /\ subscribed \in [Clients -> SUBSET Names]
    /\ listed \in [Names -> SUBSET Clients]
    /\ entries \subseteq Names /\ alive \subseteq Clients
    /\ start \in [channels : ToSet(Channels) \cup {Nothing}, patterns : ToSet(Patterns) \cup {Nothing}]

Init ==
    /\ subscribed = [c \in Clients |-> {}]
    /\ listed = [n \in Names |-> {}] /\ entries = {}
    /\ alive = Clients
    /\ start = [channels |-> Nothing, patterns |-> Nothing]
    /\ inbox = Silence /\ owed = Silence

-----------------------------------------------------------------------------
NothingIsSent == inbox' = Silence /\ owed' = Silence

\* Subscribe and PSubscribe: in the client first, then in the entry, which is made.
Subscribe(c, name) ==
    /\ c \in alive /\ name \notin subscribed[c]
    /\ subscribed' = [subscribed EXCEPT ![c] = @ \cup {name}]
    /\ entries' = entries \cup {name}
    /\ listed' = [listed EXCEPT ![name] = @ \cup {c}]
    /\ NothingIsSent /\ UNCHANGED <<alive, start>>

\* Mutant: the entry goes with any of its clients.
UnSubscribeEntry(c, name) ==
    /\ c \in alive /\ name \in subscribed[c]
    /\ subscribed' = [subscribed EXCEPT ![c] = @ \ {name}]
    /\ listed' = [listed EXCEPT ![name] = {}]
    /\ entries' = entries \ {name}
    /\ NothingIsSent /\ UNCHANGED <<alive, start>>

\* UnSubscribe and PUnSubscribe: an entry without clients is erased; one with clients
\* that are gone is not.
UnSubscribe(c, name) ==
    /\ c \in alive /\ name \in subscribed[c]
    /\ subscribed' = [subscribed EXCEPT ![c] = @ \ {name}]
    /\ listed' = [listed EXCEPT ![name] = @ \ {c}]
    /\ entries' = IF listed'[name] = {} THEN entries \ {name} ELSE entries
    /\ NothingIsSent /\ UNCHANGED <<alive, start>>

\* The last pointer to the client is dropped.
Expires(c) ==
    /\ c \in alive
    /\ alive' = alive \ {c}
    /\ NothingIsSent /\ UNCHANGED <<subscribed, listed, entries, start>>

\* PublishMsg: to the channel's clients, then to those of each pattern that matches,
\* in order; what has expired is erased on the way, but no entry.
Heard(channel) == <<channel>> \o SelectSeq(Patterns, LAMBDA p : <<p, channel>> \in Matches)

Publish(channel) ==
    /\ LET heard == SelectSeq(Heard(channel), LAMBDA name : name \in entries)
           sent(list, c) == SelectSeq(list, LAMBDA name : c \in listed[name] \cap alive)
       IN  /\ inbox' = [c \in Clients |-> sent(heard, c)]
           /\ listed' = [name \in Names |-> IF name \in ToSet(heard) THEN listed[name] \cap alive
                                            ELSE listed[name]]
    /\ owed' = [c \in Clients |->
                   IF c \notin alive THEN <<>>
                   ELSE SelectSeq(Heard(channel), LAMBDA name : name \in subscribed[c])]
    /\ UNCHANGED <<subscribed, entries, alive, start>>

-----------------------------------------------------------------------------

\* The entries of a kind from its cursor on; from the first if that one is not there.
Round(kind) ==
    LET all == SelectSeq(Kinds[kind], LAMBDA n : n \in entries)
    IN  IF start[kind] \in ToSet(all)
        THEN SubSeq(all, CHOOSE i \in 1..Len(all) : all[i] = start[kind], Len(all))
        ELSE all

\* How many of them a round gets through before EraseMax clients are erased; the
\* entry where that happens is finished.
Through(kind) ==
    LET list == Round(kind)
        Gone[n \in 0..Len(list)] ==
            IF n = 0 THEN 0 ELSE Gone[n - 1] + Cardinality(listed[list[n]] \ alive)
    IN  CHOOSE k \in 0..Len(list) :
            /\ \A n \in 0..(k - 1) : Gone[n] < EraseMax
            /\ k = Len(list) \/ Gone[k] >= EraseMax

\* Mutant: the patterns are forgotten.
RecycleClientsOfChannels ==
    LET seen == {Round("channels")[i] : i \in 1..Through("channels")}
    IN  /\ listed' = [n \in Names |-> IF n \in seen THEN listed[n] \cap alive ELSE listed[n]]
        /\ entries' = {n \in entries : n \in seen => listed[n] \cap alive # {}}
        /\ start' = [start EXCEPT !["channels"] =
                        IF Through("channels") < Len(Round("channels"))
                        THEN Round("channels")[Through("channels") + 1] ELSE Nothing]
        /\ NothingIsSent /\ UNCHANGED <<subscribed, alive>>

\* RecycleClients, for both kinds.
RecycleClients ==
    LET seen == UNION {{Round(kind)[i] : i \in 1..Through(kind)} : kind \in DOMAIN Kinds}
    IN  /\ listed' = [n \in Names |-> IF n \in seen THEN listed[n] \cap alive ELSE listed[n]]
        /\ entries' = {n \in entries : n \in seen => listed[n] \cap alive # {}}
        /\ start' = [kind \in DOMAIN Kinds |->
                        IF Through(kind) < Len(Round(kind)) THEN Round(kind)[Through(kind) + 1]
                        ELSE Nothing]
        /\ NothingIsSent /\ UNCHANGED <<subscribed, alive>>

Next ==
    \/ \E c \in Clients, name \in Names : Subscribe(c, name) \/ UnSubscribe(c, name)
    \/ \E c \in Clients : Expires(c)
    \/ \E i \in 1..Len(Channels) : Publish(Channels[i])
    \/ RecycleClients

Spec == Init /\ [][Next]_pubsubVars

\* The timer goes on.
FairSpec == Spec /\ WF_pubsubVars(RecycleClients)

-----------------------------------------------------------------------------
(***************************************************************************)
(* Properties.                                                             *)
(***************************************************************************)

\* What a client subscribed to and where it is listed agree, whoever else left the
\* entry, unsubscribed from it or was recycled; and it gets a message as
\* often as it is subscribed to it: once by the channel and once by each pattern.
SubscribersAreTold ==
    \A c \in Clients :
        /\ inbox[c] = owed[c]
        /\ c \in alive => \A name \in Names :
              name \in subscribed[c] <=> (name \in entries /\ c \in listed[name])

\* Whoever has expired is listed nowhere in the end.
GoneAreForgotten == <>[](\A name \in entries : listed[name] \subseteq alive)

=============================================================================
