---------------------------- MODULE FilterSystem ----------------------------
(***************************************************************************)
(* EventSystem of eth/filters/filter_system.go: clients install and        *)
(* uninstall subscriptions through channels without a buffer, and one loop *)
(* takes the events of five sources and sends each to the subscriptions    *)
(* it is for, over channels that may have no buffer either.                *)
(*                                                                         *)
(* A client is the goroutine that subscribes, reads what it is sent and    *)
(* unsubscribes; it is not under src/.  An event is the block it is about. *)
(***************************************************************************)
EXTENDS Integers, Sequences, FiniteSets

CONSTANTS
    Clients,      \* subscriptions, one for each client
    Headers,      \* headers of the chain and of its forks
    Genesis,      \* the first header
    parent,       \* the parent of each header, Genesis for Genesis
    number,       \* the number of each header
    ChanSize,     \* room in the channel of a source
    Setups,       \* bound: what happens in a run (setup)
    None          \* nil

Pending == -2     \* rpc.PendingBlockNumber
Latest == -1      \* rpc.LatestBlockNumber

Sources == {"txs", "logs", "rmLogs", "pendingLogs", "chain"}

Types == {"logs", "pendingLogs", "minedAndPendingLogs", "txs", "blocks"}
Buckets == Types \ {"minedAndPendingLogs"}

\* What a client subscribes to: logs from a block to a block, heads or transactions.
Wishes == [kind : {"logs", "heads", "txs"}, from : Int \cup {None}, to : Int \cup {None}]

ASSUME FilterAssumption ==
    /\ IsFiniteSet(Headers) /\ Genesis \in Headers
    /\ parent \in [Headers -> Headers]
    /\ number \in [Headers -> Nat]
    /\ None \notin Headers \cup Int \cup Wishes \cup Types
    /\ number[Genesis] = 0
    /\ \A h \in Headers \ {Genesis} : number[h] = number[parent[h]] + 1
    /\ ChanSize \in Nat \ {0}
    /\ \A s \in Setups :
          /\ s.wish \in [Clients -> Wishes \cup {None}]
          /\ s.light \in BOOLEAN /\ s.ec \in BOOLEAN /\ s.stops \in BOOLEAN
          /\ s.missing \subseteq Headers
          /\ s.events \in [Sources -> Nat]
          /\ s.blocks \subseteq Headers

Item == [src : Sources \cup {"light"}, block : Headers, removed : BOOLEAN]

VARIABLES
    setup,      \* the wishes of the clients that come, the light mode, the external
                \* consensus, the end of the sources, the headers that are not stored,
                \* the number of events of each source and their blocks
    pc,         \* where each client is
    typ,        \* subscription.typ of each client
    index,      \* filters: the subscriptions by bucket
    chan,       \* the channels of the sources
    emitted,    \* how many events each source sent
    loop,       \* where eventLoop is: "walk" is lightFilterNewHead
    todo,       \* to whom it has yet to send what it handles
    lastHead,   \* es.lastHead
    oldh, newh, \* where lightFilterNewHead is on the old chain and on the new one
    oldHeaders, \* the headers it is to roll back
    newHeaders, \* the new ones, the newest first
    handled,    \* what the loop had to send so far (history)
    told,       \* the head light clients were led to, None if they were misled (history)
    since,      \* handled when each subscription was installed (history)
    until,      \* handled when it was uninstalled (history)
    got         \* what each subscription was sent, by its place in handled (history)

clientVars == <<pc, typ>>
sourceVars == <<chan, emitted>>
walkVars == <<oldh, newh, oldHeaders, newHeaders>>
loopVars == <<loop, todo, lastHead, walkVars, handled, told>>
history == <<since, until, got>>
vars == <<setup, clientVars, index, sourceVars, loopVars, history>>

Init ==
    /\ setup \in Setups
    /\ pc = [c \in Clients |-> "new"]
    /\ typ = [c \in Clients |-> None]
    /\ index = [b \in Buckets |-> {}]
    /\ chan = [s \in Sources |-> <<>>]
    /\ emitted = [s \in Sources |-> 0]
    /\ loop = "select" /\ todo = {}
    /\ lastHead = None /\ told = None
    /\ oldh = None /\ newh = None /\ oldHeaders = <<>> /\ newHeaders = <<>>
    /\ handled = <<>>
    /\ since = [c \in Clients |-> 0] /\ until = [c \in Clients |-> 0]
    /\ got = [c \in Clients |-> <<>>]

-----------------------------------------------------------------------------
(* The sources (external)                                                  *)

\* A backend with external consensus has no pending logs, and one in light mode no
\* logs but those of its blocks.
Silent == (IF setup.ec THEN {"pendingLogs"} ELSE {})
          \cup (IF setup.light THEN {"logs", "rmLogs", "pendingLogs"} ELSE {})

Emits(s) ==
    /\ s \notin Silent
    /\ loop # "ended"
    /\ emitted[s] < setup.events[s]
    /\ Len(chan[s]) < ChanSize
    /\ \E h \in setup.blocks :
          chan' = [chan EXCEPT ![s] = Append(@, [src |-> s, block |-> h, removed |-> s = "rmLogs"])]
    /\ emitted' = [emitted EXCEPT ![s] = @ + 1]
    /\ UNCHANGED <<setup, clientVars, index, loopVars, history>>

-----------------------------------------------------------------------------
(* subscribe and Unsubscribe                                               *)

\* The type of a subscription for logs, None for an error.
SubscribeLogs(crit) ==
    LET from == IF crit.from = None THEN Latest ELSE crit.from
        to   == IF crit.to = None THEN Latest ELSE crit.to
    IN CASE from = Pending /\ to = Pending -> "pendingLogs"
         [] from = Latest /\ to = Latest -> "logs"
         [] from >= 0 /\ to >= from -> "logs"
         [] from >= Latest /\ to = Pending -> "minedAndPendingLogs"
         [] from >= 0 /\ to = Latest -> "logs"
         [] OTHER -> None

TypeOf(wish) ==
    CASE wish.kind = "heads" -> "blocks"
      [] wish.kind = "txs" -> "txs"
      [] wish.kind = "logs" -> SubscribeLogs(wish)

Subscribes(c) ==
    /\ pc[c] = "new"
    /\ setup.wish[c] # None
    /\ typ' = [typ EXCEPT ![c] = TypeOf(setup.wish[c])]
    /\ pc' = [pc EXCEPT ![c] = IF TypeOf(setup.wish[c]) = None THEN "refused" ELSE "installing"]
    /\ UNCHANGED <<setup, index, sourceVars, loopVars, history>>

\* <-sub.installed, and the client begins to read.
Subscribed(c) ==
    /\ pc[c] = "installed"
    /\ pc' = [pc EXCEPT ![c] = "reading"]
    /\ UNCHANGED <<setup, typ, index, sourceVars, loopVars, history>>

Unsubscribe(c) ==
    /\ pc[c] = "reading"
    /\ pc' = [pc EXCEPT ![c] = "unsubscribing"]
    /\ UNCHANGED <<setup, typ, index, sourceVars, loopVars, history>>

\* <-sub.Err().
Unsubscribed(c) ==
    /\ pc[c] = "uninstalled"
    /\ pc' = [pc EXCEPT ![c] = "done"]
    /\ UNCHANGED <<setup, typ, index, sourceVars, loopVars, history>>

-----------------------------------------------------------------------------
(* What an event is for                                                    *)

\* filterLogs (external): a bound counts when it is a number.
filterLogs(from, to, h) ==
    /\ from \in Nat => from <= number[h]
    /\ to \in Nat => number[h] <= to

handleLogs(ev) ==
    {c \in index["logs"] : filterLogs(setup.wish[c].from, setup.wish[c].to, ev.block)}

handlePendingLogs(ev) ==
    {c \in index["pendingLogs"] : filterLogs(None, setup.wish[c].to, ev.block)}

-----------------------------------------------------------------------------
(* eventLoop *)

\* The loop has the next thing to send.
Handles(item, to) ==
    /\ handled' = Append(handled, item)
    /\ todo' = to

Idle == loop = "select" /\ todo = {}

Takes(s) ==
    /\ Idle
    /\ chan[s] # <<>>
    /\ chan' = [chan EXCEPT ![s] = Tail(@)]
    /\ UNCHANGED <<setup, clientVars, index, emitted, history>>

TakesLogs(s) ==
    /\ s \in {"logs", "rmLogs"}
    /\ Takes(s)
    /\ Handles(Head(chan[s]), handleLogs(Head(chan[s])))
    /\ UNCHANGED <<loop, lastHead, walkVars, told>>

TakesPendingLogs ==
    /\ Takes("pendingLogs")
    /\ Handles(Head(chan["pendingLogs"]), handlePendingLogs(Head(chan["pendingLogs"])))
    /\ UNCHANGED <<loop, lastHead, walkVars, told>>

handleTxsEvent ==
    /\ Takes("txs")
    /\ Handles(Head(chan["txs"]), index["txs"])
    /\ UNCHANGED <<loop, lastHead, walkVars, told>>

\* The head is sent, and in light mode lightFilterNewHead begins.
handleChainEvent ==
    /\ Takes("chain")
    /\ LET ev == Head(chan["chain"])
           follows == setup.light /\ index["logs"] # {}
           walks == follows /\ lastHead # None
       IN /\ Handles(ev, index["blocks"])
          /\ lastHead' = IF follows THEN ev.block ELSE lastHead
          /\ loop' = IF walks THEN "walk" ELSE loop
          /\ oldh' = IF walks THEN lastHead ELSE oldh
          /\ newh' = IF walks THEN ev.block ELSE newh
          /\ told' = IF follows /\ lastHead = None THEN ev.block ELSE told
    /\ UNCHANGED <<oldHeaders, newHeaders>>

\* One round of the search for the common ancestor.  The database is assumed to have
\* the parent of an old header.
FindsAncestor ==
    /\ loop = "walk" /\ todo = {}
    /\ oldh # newh
    /\ LET back == number[oldh] >= number[newh]
           old1 == IF back THEN parent[oldh] ELSE oldh
           on   == number[old1] < number[newh]
       IN /\ oldHeaders' = IF back THEN Append(oldHeaders, oldh) ELSE oldHeaders
          /\ oldh' = old1
          /\ newHeaders' = IF on THEN Append(newHeaders, newh) ELSE newHeaders
          /\ newh' = IF ~on THEN newh
                     ELSE IF parent[newh] \in setup.missing THEN old1 ELSE parent[newh]
    /\ UNCHANGED <<setup, clientVars, index, sourceVars, loop, todo, lastHead, handled, told,
                   history>>

\* The call of callBack: to the subscriptions to logs.
CallsBack(h, removed) ==
    /\ Handles([src |-> "light", block |-> h, removed |-> removed], index["logs"])
    /\ told' = IF removed THEN IF told = h THEN parent[h] ELSE None
               ELSE IF told = parent[h] THEN h ELSE None
    /\ UNCHANGED <<setup, clientVars, index, sourceVars, loop, lastHead, oldh, newh, history>>

Walked == loop = "walk" /\ todo = {} /\ oldh = newh

RollsBack ==
    /\ Walked
    /\ oldHeaders # <<>>
    /\ CallsBack(Head(oldHeaders), TRUE)
    /\ oldHeaders' = Tail(oldHeaders)
    /\ UNCHANGED newHeaders

\* Mutant of GoesOn: the new headers are taken as they were collected.
GoesOnReversed ==
    /\ Walked
    /\ oldHeaders = <<>> /\ newHeaders # <<>>
    /\ CallsBack(Head(newHeaders), FALSE)
    /\ newHeaders' = Tail(newHeaders)
    /\ UNCHANGED oldHeaders

GoesOn ==
    /\ Walked
    /\ oldHeaders = <<>> /\ newHeaders # <<>>
    /\ CallsBack(newHeaders[Len(newHeaders)], FALSE)
    /\ newHeaders' = SubSeq(newHeaders, 1, Len(newHeaders) - 1)
    /\ UNCHANGED oldHeaders

WalkReturns ==
    /\ Walked
    /\ oldHeaders = <<>> /\ newHeaders = <<>>
    /\ loop' = "select"
    /\ oldh' = None /\ newh' = None
    /\ UNCHANGED <<setup, clientVars, index, sourceVars, todo, lastHead, oldHeaders, newHeaders,
                   handled, told, history>>

\* Mutant of Receives: Unsubscribe does not go on receiving.
ReceivesReading(c) ==
    /\ pc[c] = "reading"
    /\ got' = [got EXCEPT ![c] = Append(@, Len(handled))]

\* The client reads, or Unsubscribe receives in its place.
Receives(c) ==
    /\ pc[c] \in {"reading", "unsubscribing"}
    /\ got' = [got EXCEPT ![c] = Append(@, Len(handled))]

\* The loop sends what it handles to one of those that are left, in any order.
Sends(c) ==
    /\ c \in todo
    /\ Receives(c)
    /\ todo' = todo \ {c}
    /\ UNCHANGED <<setup, clientVars, index, sourceVars, loop, lastHead, walkVars, handled, told,
                   since, until>>

\* The buckets of a subscription.
BucketsOf(t) == IF t = "minedAndPendingLogs" THEN {"logs", "pendingLogs"} ELSE {t}

Installs(c) ==
    /\ Idle
    /\ pc[c] = "installing"
    /\ index' = [b \in Buckets |-> IF b \in BucketsOf(typ[c]) THEN index[b] \cup {c} ELSE index[b]]
    /\ pc' = [pc EXCEPT ![c] = "installed"]
    /\ since' = [since EXCEPT ![c] = Len(handled)]
    /\ UNCHANGED <<setup, typ, sourceVars, loopVars, until, got>>

\* Mutant of Uninstalls: only the bucket of mined logs is looked at.
UninstallsOne(c) ==
    /\ Idle
    /\ pc[c] = "unsubscribing"
    /\ index' = IF typ[c] = "minedAndPendingLogs" THEN [index EXCEPT !["logs"] = @ \ {c}]
                ELSE [index EXCEPT ![typ[c]] = @ \ {c}]
    /\ pc' = [pc EXCEPT ![c] = "uninstalled"]
    /\ until' = [until EXCEPT ![c] = Len(handled)]
    /\ UNCHANGED <<setup, typ, sourceVars, loopVars, since, got>>

Uninstalls(c) ==
    /\ Idle
    /\ pc[c] = "unsubscribing"
    /\ index' = [b \in Buckets |-> IF b \in BucketsOf(typ[c]) THEN index[b] \ {c} ELSE index[b]]
    /\ pc' = [pc EXCEPT ![c] = "uninstalled"]
    /\ until' = [until EXCEPT ![c] = Len(handled)]
    /\ UNCHANGED <<setup, typ, sourceVars, loopVars, since, got>>

\* Err of one of the sources: the loop returns, and nobody installs or uninstalls.
Stops ==
    /\ setup.stops
    /\ Idle
    /\ loop' = "ended"
    /\ UNCHANGED <<setup, clientVars, index, sourceVars, todo, lastHead, walkVars, handled, told,
                   history>>

eventLoop ==
    \/ \E s \in Sources : TakesLogs(s)
    \/ TakesPendingLogs \/ handleTxsEvent \/ handleChainEvent
    \/ FindsAncestor \/ RollsBack \/ GoesOn \/ WalkReturns
    \/ \E c \in Clients : Sends(c) \/ Installs(c) \/ Uninstalls(c)

Next ==
    \/ eventLoop \/ Stops
    \/ \E s \in Sources : Emits(s)
    \/ \E c \in Clients : Subscribes(c) \/ Subscribed(c) \/ Unsubscribe(c) \/ Unsubscribed(c)

\* The loop goes on, and so does a client that was woken.
Fairness ==
    /\ WF_vars(eventLoop)
    /\ WF_vars(\E c \in Clients : Subscribed(c) \/ Unsubscribed(c))

Spec == Init /\ [][Next]_vars /\ Fairness

-----------------------------------------------------------------------------

TypeOK ==
    /\ setup \in Setups
    /\ pc \in [Clients -> {"new", "refused", "installing", "installed", "reading",
                           "unsubscribing", "uninstalled", "done"}]
    /\ typ \in [Clients -> Types \cup {None}]
    /\ index \in [Buckets -> SUBSET Clients]
    /\ chan \in [Sources -> Seq(Item)]
    /\ emitted \in [Sources -> Nat]
    /\ loop \in {"select", "walk", "ended"}
    /\ todo \subseteq Clients
    /\ lastHead \in Headers \cup {None} /\ told \in Headers \cup {None}
    /\ oldh \in Headers \cup {None} /\ newh \in Headers \cup {None}
    /\ oldHeaders \in Seq(Headers) /\ newHeaders \in Seq(Headers)
    /\ handled \in Seq(Item)
    /\ since \in [Clients -> Nat]
    /\ until \in [Clients -> Nat]
    /\ got \in [Clients -> Seq(Nat)]

Installed == {"installed", "reading", "unsubscribing"}

\* A subscription is in its buckets, and in no other, from Installs to Uninstalls.
IndexInv ==
    /\ \A c \in Clients : pc[c] # "new" =>
          /\ setup.wish[c] # None /\ typ[c] = TypeOf(setup.wish[c])
          /\ pc[c] # "refused" => typ[c] \in Types
    /\ \A b \in Buckets, c \in Clients :
          c \in index[b] <=> pc[c] \in Installed /\ b \in BucketsOf(typ[c])

\* What a source sent is of that source.
ChanInv == \A s \in Sources : \A i \in DOMAIN chan[s] : chan[s][i].src = s

\* The loop is to send to installed subscriptions only: none that returned from
\* Unsubscribe, whose channel its client may have closed (filter_system.go:179).
NoneAfterReturn ==
    /\ \A c \in todo : pc[c] \in Installed
    /\ loop = "ended" => todo = {}

\* What the wish of a client comes to, by the comments of SubscribeLogs: the mined logs
\* of the blocks from its first to its last, or to the newest, and pending logs when its
\* last block is the pending one.  In light mode the blocks do not matter.
Wanted(w, item) ==
    LET pendingOnly == w.from = Pending
    IN CASE w.kind = "heads" -> item.src = "chain"
         [] w.kind = "txs" -> item.src = "txs"
         [] w.kind = "logs" ->
              \/ item.src = "light" /\ ~pendingOnly
              \/ item.src = "pendingLogs" /\ w.to = Pending
              \/ /\ item.src \in {"logs", "rmLogs"}
                 /\ ~pendingOnly
                 /\ w.from \in Nat => number[item.block] >= w.from
                 /\ w.to \in Nat => number[item.block] <= w.to

\* What c was sent and is to be sent, by its place in handled.
SentOrOwed(c) == IF c \in todo THEN Append(got[c], Len(handled)) ELSE got[c]

\* What c wants of what the loop handled between its installation and its removal.
WantedOf(c) ==
    LET last == IF pc[c] \in Installed THEN Len(handled) ELSE until[c]
    IN {i \in since[c] + 1 .. last : Wanted(setup.wish[c], handled[i])}

\* A subscription is sent what it is for, once and in the order of the loop: all of what
\* the loop handled between its installation and its removal, and nothing else.
SentInOrder ==
    \A c \in Clients :
        pc[c] \in Installed \cup {"uninstalled", "done"} =>
            LET sent == SentOrOwed(c)
            IN /\ {sent[i] : i \in DOMAIN sent} = WantedOf(c)
               /\ \A i, j \in DOMAIN sent : i < j => sent[i] < sent[j]

\* Nothing is sent before the installation; the marks of it are places in handled.
PlaceInv ==
    \A c \in Clients :
        /\ since[c] <= Len(handled) /\ until[c] <= Len(handled)
        /\ pc[c] \in {"new", "refused", "installing"} => got[c] = <<>>

\* Light clients are led from the first head to the last one block by block: a block is
\* rolled back at the tip only, and added on the tip only (filter_system.go:382).
LightFollows == setup.missing = {} /\ loop # "walk" => told = lastHead

\* The way that is left: back from told to the common ancestor, and on to the last head.
\* Ends(hs, h) is where a way of parents hs from h ends.
IsWay(hs, h) ==
    /\ hs # <<>> => hs[1] = h
    /\ \A i \in 1 .. Len(hs) - 1 : hs[i + 1] = parent[hs[i]]

Ends(hs, h) == IF hs = <<>> THEN h ELSE parent[hs[Len(hs)]]

WalkInv ==
    /\ loop = "walk" => lastHead # None /\ oldh # None /\ newh # None
    /\ loop # "walk" => oldHeaders = <<>> /\ newHeaders = <<>>
    /\ loop = "walk" /\ setup.missing = {} =>
          /\ told # None
          /\ IsWay(oldHeaders, told) /\ IsWay(newHeaders, lastHead)
          /\ IF oldh = newh THEN Ends(oldHeaders, told) = Ends(newHeaders, lastHead)
             ELSE Ends(oldHeaders, told) = oldh /\ Ends(newHeaders, lastHead) = newh

\* The genesis block is not rolled back, whatever headers the database lacks.
GenesisStays == \A i \in DOMAIN oldHeaders : oldHeaders[i] # Genesis

FilterInv ==
    /\ TypeOK /\ IndexInv /\ ChanInv /\ NoneAfterReturn
    /\ PlaceInv /\ SentInOrder /\ WalkInv /\ LightFollows /\ GenesisStays

\* What is left of the walk: two rounds at most for each block below its two ends.
WalkLeft == 2 * (number[oldh] + number[newh]) + Len(oldHeaders) + Len(newHeaders)

\* Every step of the walk leaves less of it: the loop, which sends no other event
\* meanwhile, gets back to its channels (filter_system.go:382).
WalkShortens == [][FindsAncestor \/ RollsBack \/ GoesOn => WalkLeft' \in Nat /\ WalkLeft' < WalkLeft]_vars

\* A client that subscribes or unsubscribes gets done, however many events there are
\* (filter_system.go:166), unless the loop has ended.
CallsReturn ==
    \A c \in Clients :
        []<>(loop = "ended" \/ pc[c] \notin {"installing", "installed", "unsubscribing", "uninstalled"})
=============================================================================
