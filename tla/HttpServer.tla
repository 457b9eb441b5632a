---------------------------- MODULE HttpServer -----------------------------
(***************************************************************************)
(* Turtle's HTTP server: ProcessHttpRequest (http/http_server.cpp) on the  *)
(* threads of several reactors, with the Cache they share and the Cgier    *)
(* (http/cgier.cpp) each of them runs, while clients pipeline requests and *)
(* the files on disk change.                                               *)
(*                                                                         *)
(* A request arrives as its head and an END, the empty line, possibly in   *)
(* two pieces.  A body is a sequence of chunks: the data of a file, the    *)
(* output of a CGI program (named by the program), or an error message.    *)
(*                                                                         *)
(* A handler is called when its socket has something to read, which is     *)
(* what Reactor's NoLostEvent is about.  execve succeeds, and a target     *)
(* that exists is a regular file.                                          *)
(*                                                                         *)
(* TryLoad holds the cache's lock shared, so the threads may relink nodes  *)
(* of the list at the same time.  That is a data race: from then on the    *)
(* list may be anything ("raced"), and an eviction finds any node, or      *)
(* none.  CacheRace has the statements one by one.                         *)
(***************************************************************************)
EXTENDS Cache

CONSTANTS
    Client, Thread,
    Program,      \* CGI programs that exist
    Missing,      \* a resource, static or not, that never exists
    END,          \* the "\r\n\r\n" that ends a request
    BAD,          \* a head that Request cannot parse
    ErrorText,    \* what Cgier::Run returns when it fails
    Disk,         \* Url -> the files there are at first
    Owners,       \* the ways the acceptor gives the clients to the reactors
    Workloads     \* what the clients may ask for and how a file may change

Request == [method : {"GET", "HEAD"}, target : Url \cup Program \cup {Missing}, close : BOOLEAN]

\* The choices for the first request, the second and so on, and for the one change of a
\* file, its url and new contents.  Bounds: the number of requests, one change.
Workload == [requests : Seq(SUBSET (Request \cup {BAD})),
             changes : SUBSET (Url \X (Data \cup {None}))]

ASSUME HttpAssumption ==
    /\ Workloads \subseteq Workload
    /\ Disk \in [Url -> Data] /\ Owners \subseteq [Client -> Thread]
    /\ Program \cap Url = {} /\ Missing \notin Url \cup Program /\ None \notin Program
    /\ ErrorText \notin Data \cup Program
    /\ {END, None} \cap (Request \cup {BAD}) = {}

VARIABLES
    \* clients, disk and children
    inbound,   \* Client -> pieces in the socket
    fin,       \* Client -> it has closed its end
    asked,     \* Client -> heads it has completed with an END (history)
    partial,   \* Client -> the head it has not completed, or None
    files,     \* Url -> contents on disk, None if there is no file
    changed,   \* urls whose file was changed (history)
    tmp,       \* Thread -> contents of its CGI file, None if there is none
    child,     \* Thread -> the program its child runs, or None
    orphan,    \* Thread -> a program it no longer waits for, or None
    lost,      \* threads whose waitpid has failed; bound: once each (history)
    \* connections and threads
    workload,      \* the one of Workloads
    owner,         \* Client -> the reactor of its connection
    open,          \* clients whose connection is open
    read_buffer_,  \* Client -> pieces received
    pc, conn,      \* Thread -> where it is, and the client it serves
    request,       \* Thread -> the request being answered
    response,      \* Thread -> the response being built
    raced,         \* two TryLoads have been relinking at once (history)
    aborted,       \* an assertion failed, or a signal ended the process
    answers        \* Client -> requests answered, with the responses (history)

sharedVars == <<cacheVars, raced>>
diskVars == <<files, changed>>
cgiVars == <<tmp, child, orphan, lost>>
clientVars == <<inbound, fin, asked, partial>>
connVars == <<workload, owner, open, read_buffer_>>
threadVars == <<pc, conn, request, response>>
vars == <<sharedVars, diskVars, cgiVars, clientVars, connVars, threadVars, aborted, answers>>

Body == Seq(Data \cup Program \cup {ErrorText})
Response == [status : {200, 400, 404}, length : Nat, body : Body, close : BOOLEAN]

\* Types; and a thread inside the handler serves a connection that is still open: the
\* handler touches client_conn no more once it has called DeleteConnection.
HttpTypeOK ==
    /\ TypeOK
    /\ \A c \in Client : inbound[c] \in Seq(Request \cup {BAD, END})
                         /\ read_buffer_[c] \in Seq(Request \cup {BAD, END})
                         /\ \A i \in DOMAIN answers[c] : answers[c][i].response \in Response
    /\ fin \in [Client -> BOOLEAN]
    /\ partial \in [Client -> Request \cup {BAD, None}]
    /\ files \in [Url -> Data \cup {None}]
    /\ changed \subseteq Url
    /\ \A t \in Thread : tmp[t] = None \/ tmp[t] \in Body
    /\ child \in [Thread -> Program \cup {None}]
    /\ orphan \in [Thread -> Program \cup {None}]
    /\ lost \subseteq Thread
    /\ workload \in Workloads
    /\ owner \in [Client -> Thread]
    /\ open \subseteq Client
    /\ pc \in [Thread -> {"idle", "parse", "make200", "size", "load", "relink", "read", "insert",
                          "evict", "cgi", "fork", "wait", "send"}]
    /\ conn \in [Thread -> Client \cup {None}]
    /\ \A t \in Thread : pc[t] # "idle" => conn[t] \in open
    /\ \A t \in Thread : pc[t] = "send" => response[t] \in Response
    /\ raced \in BOOLEAN /\ aborted \in BOOLEAN

HttpInit ==
    /\ Init
    /\ files = Disk /\ changed = {}
    /\ tmp = [t \in Thread |-> None] /\ child = tmp /\ orphan = tmp
    /\ lost = {}
    /\ inbound = [c \in Client |-> <<>>] /\ read_buffer_ = inbound /\ asked = inbound
    /\ fin = [c \in Client |-> FALSE]
    /\ partial = [c \in Client |-> None]
    /\ workload \in Workloads
    /\ owner \in Owners
    /\ open \in {Client, {}}
    /\ pc = [t \in Thread |-> "idle"]
    /\ conn = [t \in Thread |-> None] /\ request = conn /\ response = conn
    /\ raced = FALSE /\ aborted = FALSE
    /\ answers = [c \in Client |-> <<>>]
-----------------------------------------------------------------------------
(* Clients, the disk and the children. *)

Environment == UNCHANGED <<sharedVars, connVars, threadVars, aborted, answers>>

Heads == MapThenSumSet(LAMBDA c : Len(asked[c]) + IF partial[c] = None THEN 0 ELSE 1, Client)

SendHead(c) ==
    /\ c \in open /\ ~fin[c]
    /\ partial[c] = None
    /\ \E k \in DOMAIN workload.requests : k = Heads + 1 /\ \E r \in workload.requests[k] :
        /\ inbound' = [inbound EXCEPT ![c] = Append(@, r)]
        /\ partial' = [partial EXCEPT ![c] = r]
    /\ UNCHANGED <<diskVars, cgiVars, fin, asked>> /\ Environment

SendEnd(c) ==
    /\ c \in open /\ ~fin[c]
    /\ partial[c] # None
    /\ inbound' = [inbound EXCEPT ![c] = Append(@, END)]
    /\ asked' = [asked EXCEPT ![c] = Append(@, partial[c])]
    /\ partial' = [partial EXCEPT ![c] = None]
    /\ UNCHANGED <<diskVars, cgiVars, fin>> /\ Environment

CloseEnd(c) ==
    /\ c \in open /\ ~fin[c]
    /\ fin' = [fin EXCEPT ![c] = TRUE]
    /\ UNCHANGED <<diskVars, cgiVars, inbound, asked, partial>> /\ Environment

\* A file is replaced or removed.
ChangeFile(u, contents) ==
    /\ open # {} /\ changed = {}
    /\ files' = [files EXCEPT ![u] = contents]
    /\ changed' = {u}
    /\ UNCHANGED <<cgiVars, clientVars>> /\ Environment

\* A CGI program writes its output and ends: to the file it was given if it is still
\* linked, otherwise to nothing anybody reads.
ChildEnds(t) ==
    /\ child[t] # None
    /\ tmp' = [tmp EXCEPT ![t] = Append(@, child[t])]
    /\ child' = [child EXCEPT ![t] = None]
    /\ UNCHANGED <<orphan, lost, diskVars, clientVars>> /\ Environment

OrphanEnds(t) ==
    /\ orphan[t] # None
    /\ tmp' = [tmp EXCEPT ![t] = IF @ = None THEN @ ELSE Append(@, orphan[t])]
    /\ orphan' = [orphan EXCEPT ![t] = None]
    /\ UNCHANGED <<child, lost, diskVars, clientVars>> /\ Environment
-----------------------------------------------------------------------------
(* A thread, in ProcessHttpRequest. *)

Goto(t, at, to) == ~aborted /\ pc[t] = at /\ pc' = [pc EXCEPT ![t] = to]

\* Mutant: the handler does not return after DeleteConnection.
AfterRecv_GoesOn(c) == "parse"

AfterRecv(c) == IF fin[c] THEN "idle" ELSE "parse"

\* Connection::Recv takes all there is.  At the end of the stream the connection is
\* deleted, and with it whatever was received.
Handle(t, c) ==
    /\ owner[c] = t /\ c \in open
    /\ inbound[c] # <<>> \/ fin[c]
    /\ inbound' = [inbound EXCEPT ![c] = <<>>]
    /\ read_buffer_' = [read_buffer_ EXCEPT ![c] = @ \o inbound[c]]
    /\ open' = IF fin[c] THEN open \ {c} ELSE open
    /\ Goto(t, "idle", AfterRecv(c))
    /\ conn' = [conn EXCEPT ![t] = IF AfterRecv(c) = "parse" THEN c ELSE None]
    /\ UNCHANGED <<sharedVars, diskVars, cgiVars, fin, asked, partial, workload, owner>>
    /\ UNCHANGED <<request, response, aborted, answers>>

\* A response without a body, after which the connection is closed.
ErrorResponse(status) == [status |-> status, length |-> 0, body |-> <<>>, close |-> TRUE]

\* Buffer::FindAndPopTill: what it takes out of the buffer, and what it leaves.
FirstEnd(buf) == LET ends == {i \in DOMAIN buf : buf[i] = END}
                 IN  IF ends = {} THEN 0 ELSE Min(ends)
PopTill(buf) == SubSeq(buf, 1, FirstEnd(buf))
PopRest(buf) == SubSeq(buf, FirstEnd(buf) + 1, Len(buf))

\* The request is parsed and its resource looked for.
Parse(t) ==
    LET buf == read_buffer_[conn[t]]
        r == PopTill(buf)[1]
        Answer(status) == /\ Goto(t, "parse", "send")
                          /\ response' = [response EXCEPT ![t] = ErrorResponse(status)]
        Serve(step) == Goto(t, "parse", step) /\ UNCHANGED response
    IN
    /\ pc[t] = "parse"
    /\ PopTill(buf) # <<>>
    /\ read_buffer_' = [read_buffer_ EXCEPT ![conn[t]] = PopRest(@)]
    /\ request' = [request EXCEPT ![t] = r]
    /\ CASE r = BAD -> Answer(400)
         [] r # BAD /\ r.target \in Program -> Serve("cgi")
         [] r # BAD /\ r.target \in Url /\ files[r.target] # None -> Serve("make200")
         [] OTHER -> Answer(404)
    /\ UNCHANGED <<sharedVars, diskVars, cgiVars, clientVars, workload, owner, open, conn, aborted, answers>>

\* No complete request is left: the handler returns.
NoRequest(t) ==
    /\ Goto(t, "parse", "idle")
    /\ PopTill(read_buffer_[conn[t]]) = <<>>
    /\ conn' = [conn EXCEPT ![t] = None]
    /\ UNCHANGED <<sharedVars, diskVars, cgiVars, clientVars, connVars, request, response, aborted, answers>>

url(t) == request[t].target

OnlyThread == UNCHANGED <<diskVars, cgiVars, clientVars, connVars, conn, request, answers>>

\* An assertion of t fails at a step, or a signal ends the process there.
Abort(t, at) == Goto(t, at, at) /\ aborted' = TRUE

\* A HEAD stops at the header.
AfterHeader(t) == IF request[t].method = "GET" THEN "load" ELSE "send"

\* Make200Response finds the file, or leaves the length at 0.
Make200Response(t) ==
    /\ Goto(t, "make200", IF files[url(t)] # None THEN "size" ELSE AfterHeader(t))
    /\ response' = [response EXCEPT ![t] =
           [status |-> 200, length |-> 0, body |-> <<>>, close |-> request[t].close]]
    /\ UNCHANGED <<sharedVars, aborted>> /\ OnlyThread

\* CheckFileSize asserts again that the file is there.
CheckFileSize(t) ==
    /\ pc[t] = "size"
    /\ \/ /\ files[url(t)] # None
          /\ Goto(t, "size", AfterHeader(t))
          /\ response' = [response EXCEPT ![t].length = Size[files[url(t)]]]
          /\ UNCHANGED aborted
       \/ files[url(t)] = None /\ Abort(t, "size") /\ UNCHANGED response
    /\ UNCHANGED sharedVars /\ OnlyThread

SetBody(t, chunk) == response' = [response EXCEPT ![t].body = <<chunk>>]

\* The threads that hold the lock shared and are moving a node.
Relinking == {t \in Thread : pc[t] = "relink"}

\* TryLoad finds the node and copies its data, with the lock shared.
LoadHit(t) ==
    /\ Goto(t, "load", "relink")
    /\ incoming = None
    /\ url(t) \in mapping_
    /\ SetBody(t, data_[url(t)])
    /\ raced' = (raced \/ Relinking # {})
    /\ UNCHANGED <<cacheVars, aborted>> /\ OnlyThread

\* Then it moves the node to the tail.  In a list that overlapping moves have spoilt
\* that leads anywhere.
Relink(t) ==
    /\ pc[t] = "relink"
    /\ \/ ~raced /\ TryLoad(url(t)) /\ Goto(t, "relink", "send") /\ UNCHANGED aborted
       \/ raced /\ Goto(t, "relink", "send") /\ UNCHANGED <<cacheVars, aborted>>
       \/ raced /\ Abort(t, "relink") /\ UNCHANGED cacheVars
    /\ UNCHANGED <<raced, response>> /\ OnlyThread

LoadMiss(t) ==
    /\ Goto(t, "load", "read")
    /\ incoming = None
    /\ url(t) \notin mapping_
    /\ UNCHANGED <<sharedVars, response, aborted>> /\ OnlyThread

\* LoadFile asserts that the file is there.
LoadFile(t) ==
    /\ pc[t] = "read"
    /\ \/ /\ files[url(t)] # None
          /\ Goto(t, "read", "insert")
          /\ SetBody(t, files[url(t)])
          /\ UNCHANGED aborted
       \/ files[url(t)] = None /\ Abort(t, "read") /\ UNCHANGED response
    /\ UNCHANGED sharedVars /\ OnlyThread

\* TryInsert waits until no other thread holds the lock.
Insert(t) ==
    /\ Goto(t, "insert", "evict")
    /\ Relinking = {}
    /\ TryInsert(url(t), response[t].body[1])
    /\ UNCHANGED <<raced, response, aborted>> /\ OnlyThread

\* The early returns of TryInsert.
InsertNothing(t) ==
    /\ Goto(t, "insert", "send")
    /\ Relinking = {} /\ incoming = None
    /\ url(t) \in mapping_ \/ Size[response[t].body[1]] > Capacity
    /\ UNCHANGED <<sharedVars, response, aborted>> /\ OnlyThread

\* EvictOne with a spoilt list: header_->next_ may be any node, alive or freed.  If its
\* identifier is found that node goes, and the size read counts; else the assertion fails.
EvictAny(t) ==
    /\ incoming # None /\ NeedsRoom
    /\ \/ /\ Goto(t, "evict", "evict")
          /\ \E u \in mapping_, d \in Data : Erase(u, Size[d])
          /\ UNCHANGED <<list, incoming, aborted>>
       \/ Abort(t, "evict") /\ UNCHANGED cacheVars

Evict(t) ==
    /\ pc[t] = "evict"
    /\ \/ ~raced /\ MakeRoom /\ Goto(t, "evict", "evict") /\ UNCHANGED aborted
       \/ raced /\ EvictAny(t)
       \/ EndInsert /\ Goto(t, "evict", "send") /\ UNCHANGED aborted
    /\ UNCHANGED <<raced, response>> /\ OnlyThread
-----------------------------------------------------------------------------
(* Cgier::Run, and the response made of its result. *)

BodySize(body) == MapThenSumSet(LAMBDA i : IF body[i] \in Data THEN Size[body[i]] ELSE 1, DOMAIN body)

Reply(t, body) ==
    response' = [response EXCEPT ![t] =
        [status |-> 200, length |-> BodySize(body), body |-> body, close |-> request[t].close]]

OnlyCgi == UNCHANGED <<sharedVars, diskVars, clientVars, connVars, conn, request, aborted, answers>>

\* The file of the thread is created, or opened as an earlier run has left it.
OpenFile(t) ==
    /\ Goto(t, "cgi", "fork")
    /\ tmp' = [tmp EXCEPT ![t] = IF @ = None THEN <<>> ELSE @]
    /\ UNCHANGED <<child, orphan, lost, response>> /\ OnlyCgi

Fork(t) ==
    /\ Goto(t, "fork", "wait")
    /\ child' = [child EXCEPT ![t] = url(t)]
    /\ UNCHANGED <<tmp, orphan, lost, response>> /\ OnlyCgi

\* open or fork fails, and what it leaves stays.
RunFails(t) ==
    /\ Goto(t, "cgi", "send") \/ Goto(t, "fork", "send")
    /\ Reply(t, <<ErrorText>>)
    /\ UNCHANGED cgiVars /\ OnlyCgi

\* waitpid fails, whether the child has ended or not.
WaitFails(t) ==
    /\ Goto(t, "wait", "send")
    /\ t \notin lost
    /\ lost' = lost \cup {t}
    /\ child' = [child EXCEPT ![t] = None]
    /\ orphan' = [orphan EXCEPT ![t] = child[t]]
    /\ Reply(t, <<ErrorText>>)
    /\ UNCHANGED tmp /\ OnlyCgi

\* Mutant: the file is left for the next run.
DeleteFile_Not(t) == UNCHANGED <<tmp, orphan>>

\* An orphan goes on writing to a file that has no name.
DeleteFile(t) ==
    /\ tmp' = [tmp EXCEPT ![t] = None]
    /\ orphan' = [orphan EXCEPT ![t] = None]

\* waitpid returns: load the file and delete it.
Collect(t) ==
    /\ Goto(t, "wait", "send")
    /\ child[t] = None
    /\ Reply(t, tmp[t])
    /\ DeleteFile(t)
    /\ UNCHANGED <<child, lost>> /\ OnlyCgi
-----------------------------------------------------------------------------
\* Mutant: the loop goes on after a response that closes.
no_more_parse_Never(t) == FALSE

no_more_parse(t) == response[t].close

\* Mutant: one request is served per event.
NextRequest_Returns(t) == "idle"

\* Where the loop goes on.
NextRequest(t) == "parse"

\* The response is sent, then the connection is deleted or the next request looked for.
\* To a client that has closed it goes unread, or raises SIGPIPE, which nothing ignores.
Send(t) ==
    LET c == conn[t]
        to == IF no_more_parse(t) THEN "idle" ELSE NextRequest(t)
    IN
    /\ Goto(t, "send", to)
    /\ answers' = IF fin[c] THEN answers
                  ELSE [answers EXCEPT ![c] =
                           Append(@, [request |-> request[t], response |-> response[t]])]
    /\ open' = IF no_more_parse(t) THEN open \ {c} ELSE open
    /\ conn' = [conn EXCEPT ![t] = IF to = "idle" THEN None ELSE @]
    /\ request' = [request EXCEPT ![t] = None]
    /\ response' = [response EXCEPT ![t] = None]
    /\ aborted' \in IF fin[c] THEN BOOLEAN ELSE {FALSE}
    /\ UNCHANGED <<sharedVars, diskVars, cgiVars, clientVars, workload, owner, read_buffer_>>

\* Without a server the cache is called by whoever made it.
CallCache ==
    /\ open = {} /\ \A c \in Client : ~fin[c] /\ answers[c] = <<>>
    /\ Next
    /\ UNCHANGED <<raced, diskVars, cgiVars, clientVars, connVars, threadVars, aborted, answers>>

ThreadStep(t) ==
    \/ \E c \in Client : Handle(t, c)
    \/ Parse(t) \/ NoRequest(t)
    \/ Make200Response(t) \/ CheckFileSize(t)
    \/ LoadHit(t) \/ Relink(t) \/ LoadMiss(t) \/ LoadFile(t)
    \/ Insert(t) \/ InsertNothing(t) \/ Evict(t)
    \/ OpenFile(t) \/ Fork(t) \/ RunFails(t) \/ WaitFails(t) \/ Collect(t)
    \/ Send(t)

HttpNext ==
    \/ \E c \in Client : SendHead(c) \/ SendEnd(c) \/ CloseEnd(c)
    \/ \E change \in workload.changes : ChangeFile(change[1], change[2])
    \/ \E t \in Thread : ThreadStep(t) \/ ChildEnds(t) \/ OrphanEnds(t)
    \/ CallCache

\* Each reactor's thread is scheduled, CGI programs end and Send gets rid of its
\* bytes; clients owe nothing else.
HttpFairness == \A t \in Thread : WF_vars(ThreadStep(t)) /\ WF_vars(ChildEnds(t))

HttpSpec == HttpInit /\ [][HttpNext]_vars /\ HttpFairness
-----------------------------------------------------------------------------
\* Until two TryLoads overlap the list and the hash map of the server's cache hold the
\* same nodes, each once, linked both ways, whatever else the threads do meanwhile:
\* misses, insertions, evictions and requests that wait.
ListMatchesUntilRaced == ~raced => ListMatchesMap

\* Until then occupancy_ is the total size of what is cached and within the capacity.
OccupancyUntilRaced == ~raced => OccupancyExact

\* Until then the threads use the cache as one that evicts the least recently used.
LRUUntilRaced ==
    /\ Abstract!Init
    /\ [][raced' \/ Abstract!Next]_(Abstract!vars)

\* What a client gets for a request is the file it asked for, under a Content-Length
\* that is the length of what follows, although the length is taken from the disk and
\* the body from the cache, if the file does not change; and the output of its own CGI
\* program, although the thread reuses one file name, if no waitpid failed.  This is so
\* even when overlapping TryLoads have spoilt the order of the cache.
BodiesExact ==
    \A c \in Client : \A i \in DOMAIN answers[c] :
        LET q == answers[c][i].request
            a == answers[c][i].response
        IN  a.status = 200 =>
            /\ q.target \in Url \ changed =>
                /\ a.length = Size[files[q.target]]
                /\ a.body = IF q.method = "GET" THEN <<files[q.target]>> ELSE <<>>
            /\ q.target \in Program =>
                /\ a.length = BodySize(a.body)
                /\ owner[c] \notin lost => a.body \in {<<q.target>>, <<ErrorText>>}

\* Pipelined requests are answered in the order they came, each once, however they were
\* cut into pieces, and nothing follows an answer that closes the connection.
AnsweredInOrder ==
    \A c \in Client :
        /\ Len(answers[c]) <= Len(asked[c])
        /\ \A i \in DOMAIN answers[c] : answers[c][i].request = asked[c][i]
        /\ \A i \in DOMAIN answers[c] : i < Len(answers[c]) => ~answers[c][i].response.close

\* Every complete request is answered, unless the connection is closed or the server has
\* ended on a file that vanished, on a spoilt list or on SIGPIPE: none stays in the
\* buffer, and no thread waits for ever for the cache's lock or a child.
RequestsAreAnswered ==
    \A c \in Client :
        Len(asked[c]) > Len(answers[c]) ~> Len(asked[c]) = Len(answers[c]) \/ c \notin open \/ aborted

=============================================================================
