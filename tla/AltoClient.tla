---------------------------- MODULE AltoClient ----------------------------
(***************************************************************************)
(* The ALTO client (ALTOclient/ALTOclient.c): asks a server to rate a list *)
(* of hosts, at once or in a detached thread whose end is polled with      *)
(* ALTO_query_state.                                                       *)
(*                                                                         *)
(* An address is a number of Width bits.  A reply is an XML tree: nodes in *)
(* document order, each with its parent (0 is the document).  The internal *)
(* databases are the sequences of their elements.                          *)
(*                                                                         *)
(* The user makes no other call than ALTO_query_exec and ALTO_query_state  *)
(* while a query is in progress: the other functions do not look at the    *)
(* state and share the databases with the thread.                          *)
(***************************************************************************)
EXTENDS Integers, Sequences, SequencesExt, FiniteSetsExt

CONSTANTS
  Width,        \* the bits of an address (32)
  Lists,        \* Lists[l]: the hosts and prefixes of the user's list l
  Replies,      \* the documents the server may answer
  NULL          \* no database, or no reply

Elements == [host : 0 .. 2 ^ Width - 1, mask : 0 .. Width]

XmlNode == [name : STRING, parent : Nat, host : 0 .. 2 ^ Width - 1, mask : 0 .. Width,
            rating : Int]

\* What libxml2 makes of a document: the root and then its nodes, each one after its
\* parent, those of an element together; text has no children.
Document(d) ==
  /\ d \in Seq(XmlNode) /\ d # <<>>
  /\ \A n \in DOMAIN d : d[n].parent \in IF n = 1 THEN {0} ELSE 1 .. n - 1
  /\ \A n \in DOMAIN d \ {1} : d[d[n].parent].name # "text"
  /\ \A n, m, s \in DOMAIN d : n < m /\ m < s /\ d[m].parent < n => d[s].parent # n

DB == Seq([host : Nat, mask : Nat, rating : Int])

AltoClientAssumption ==
  /\ Width \in Nat \ {0}
  /\ DOMAIN Lists # {}
  /\ \A l \in DOMAIN Lists : Lists[l] \in Seq(Elements)
  /\ \A d \in Replies : Document(d)
  /\ NULL \notin DB

VARIABLES
  ALTO_DB_req,  \* the hosts asked for, with their ratings, or NULL
  queryState,   \* "READY" or "INPROGRESS"
  threadArgs,   \* the list the thread works on
  thread,       \* what the thread does next; "none" without a thread
  count,        \* the thread's loop index
  rating,       \* rating[l][i]: the rating field of element i of list l
  answered      \* history: the list rated last and the reply, or NULL

vars == <<ALTO_DB_req, queryState, threadArgs, thread, count, rating, answered>>

TypeOK ==
  /\ ALTO_DB_req = NULL \/ ALTO_DB_req \in DB
  /\ queryState \in {"READY", "INPROGRESS"}
  /\ threadArgs \in DOMAIN Lists
  /\ thread \in {"none", "update", "write"}
  /\ count \in Nat
  /\ rating \in [DOMAIN Lists -> Seq(Int)]
  /\ \A l \in DOMAIN Lists : Len(rating[l]) = Len(Lists[l])
  /\ answered.list \in DOMAIN Lists \cup {NULL}

Unrated == [l \in DOMAIN Lists |-> [i \in DOMAIN Lists[l] |-> 0]]

Init ==
  /\ ALTO_DB_req = NULL
  /\ queryState = "READY"
  /\ threadArgs = CHOOSE l \in DOMAIN Lists : TRUE
  /\ thread = "none"
  /\ count = 0
  /\ rating = Unrated
  /\ answered = [list |-> NULL]

-----------------------------------------------------------------------------
(* The reply.                                                               *)

\* libxml2's pointers of node n of document d; 0 is NULL.
children(d, n) == Min({c \in DOMAIN d : d[c].parent = n} \cup {Len(d) + 1}) % (Len(d) + 1)
next(d, n) ==
  IF n = 0 THEN 0
  ELSE Min({s \in DOMAIN d : s > n /\ d[s].parent = d[n].parent} \cup {Len(d) + 1})
         % (Len(d) + 1)

\* The walk's three tests of one turn, each on the node the one before found.
Down(d, n) == IF children(d, n) # 0 THEN children(d, n) ELSE n
Right(d, n) == IF children(d, n) = 0 /\ next(d, n) # 0 THEN next(d, n) ELSE n
Up(d, n) == IF children(d, n) = 0 /\ next(d, n) = 0 THEN next(d, d[n].parent) ELSE n

Walk(d, n) == Up(d, Right(d, Down(d, n)))

\* ALTO_DB_res after the reply is parsed.  Each address has the rating of the last
\* cnd_hla the walk came by: from[n][r] is what is read from node n on, after one with r.
alto_parse_from_XML(d) ==
  LET Ratings == {0} \cup {d[m].rating : m \in DOMAIN d}
      from[n \in 0 .. Len(d)] ==
        [r \in Ratings |->
           IF n = 0 THEN <<>>
           ELSE IF d[n].name = "cnd_hla" THEN from[Walk(d, n)][d[n].rating]
           ELSE IF d[n].name = "ipprefix"
           THEN <<[host |-> d[n].host, mask |-> d[n].mask, rating |-> r]>>
                  \o from[Walk(d, n)][r]
           ELSE from[Walk(d, n)][r]]
  IN  from[1][0]

-----------------------------------------------------------------------------
(* The matching.                                                            *)

compute_subnet(host, prefix) ==
  LET block == 2 ^ (Width - prefix) IN (host \div block) * block

\* The rating of the first element with that address, 0 without one.
ask_helper_func(subnet, db) ==
  LET named == {i \in DOMAIN db : db[i].host = subnet}
  IN  IF named = {} THEN 0 ELSE db[Min(named)].rating

\* The loop tries the element's own mask twice, then every shorter one down to 2:
\* subnet is computed with the mask before the decrement.
get_alto_rating(e, db) ==
  LET try[i \in 0 .. e.mask] ==
        IF i = 0 THEN 0
        ELSE LET mask == IF i = e.mask THEN i ELSE i + 1
                 check == ask_helper_func(compute_subnet(e.host, mask), db)
             IN  IF check = 0 THEN try[i - 1] ELSE check
  IN  try[e.mask]

alto_do_the_magic(req, res) ==
  [i \in DOMAIN req |-> [req[i] EXCEPT !.rating = get_alto_rating(req[i], res)]]

get_ALTO_rating_for_host(host, db) ==
  IF host = 0 THEN 0 ELSE ask_helper_func(host, db)

alto_parse_from_list(l) ==
  [i \in DOMAIN Lists[l] |->
     [host |-> Lists[l][i].host, mask |-> Lists[l][i].mask, rating |-> 0]]

\* The database asked with after an update; NULL stands for a failed request.
Updated(req, reply) ==
  IF reply = NULL THEN req ELSE alto_do_the_magic(req, alto_parse_from_XML(reply))

Outcomes == {NULL} \cup Replies

-----------------------------------------------------------------------------
(* The user's calls.                                                        *)

start_ALTO_client ==
  /\ ALTO_DB_req = NULL
  /\ ALTO_DB_req' = <<>>
  /\ UNCHANGED <<queryState, threadArgs, thread, count, rating, answered>>

stop_ALTO_client ==
  /\ ALTO_DB_req # NULL /\ queryState = "READY"
  /\ ALTO_DB_req' = NULL
  /\ UNCHANGED <<queryState, threadArgs, thread, count, rating, answered>>

get_ALTO_guidance_for_list(l, reply) ==
  /\ ALTO_DB_req # NULL /\ queryState = "READY"
  /\ ALTO_DB_req' = Updated(alto_parse_from_list(l), reply)
  /\ rating' = [rating EXCEPT ![l] =
       [i \in DOMAIN Lists[l] |-> get_ALTO_rating_for_host(Lists[l][i].host, ALTO_DB_req')]]
  /\ answered' = [list |-> l, reply |-> reply]
  /\ UNCHANGED <<queryState, threadArgs, thread, count>>

ThreadCreated ==
  /\ queryState' = "INPROGRESS"
  /\ thread' = "update"

\* Mutation of ThreadFailed: the state is left behind.
ThreadFailedKept ==
  /\ queryState' = "INPROGRESS"
  /\ UNCHANGED thread

ThreadFailed ==
  /\ queryState' = "READY"
  /\ UNCHANGED thread

ALTO_query_exec(l) ==
  /\ ALTO_DB_req # NULL
  /\ queryState # "INPROGRESS"
  /\ ALTO_DB_req' = alto_parse_from_list(l)
  /\ threadArgs' = l
  /\ ThreadCreated \/ ThreadFailed
  /\ UNCHANGED <<count, rating, answered>>

-----------------------------------------------------------------------------
(* The thread: alto_query_thread_func.                                      *)

do_ALTO_update(reply) ==
  /\ thread = "update"
  /\ ALTO_DB_req' = Updated(ALTO_DB_req, reply)
  /\ thread' = "write"
  /\ count' = 1
  /\ answered' = [list |-> threadArgs, reply |-> reply]
  /\ UNCHANGED <<queryState, threadArgs, rating>>

WriteBack ==
  /\ thread = "write" /\ count <= Len(Lists[threadArgs])
  /\ rating' = [rating EXCEPT ![threadArgs][count] =
       get_ALTO_rating_for_host(Lists[threadArgs][count].host, ALTO_DB_req)]
  /\ count' = count + 1
  /\ UNCHANGED <<ALTO_DB_req, queryState, threadArgs, thread, answered>>

\* Mutation of SignalReady: the state is set before the values are written.
SignalReadyEarly ==
  /\ thread = "write"
  /\ queryState' = "READY"
  /\ thread' = IF count > Len(Lists[threadArgs]) THEN "none" ELSE "write"
  /\ UNCHANGED <<ALTO_DB_req, threadArgs, count, rating, answered>>

SignalReady ==
  /\ thread = "write" /\ count > Len(Lists[threadArgs])
  /\ queryState' = "READY"
  /\ thread' = "none"
  /\ UNCHANGED <<ALTO_DB_req, threadArgs, count, rating, answered>>

Next ==
  \/ start_ALTO_client
  \/ stop_ALTO_client
  \/ \E l \in DOMAIN Lists :
       \/ ALTO_query_exec(l)
       \/ \E reply \in Outcomes : get_ALTO_guidance_for_list(l, reply)
  \/ \E reply \in Outcomes : do_ALTO_update(reply)
  \/ WriteBack
  \/ SignalReady

Spec == Init /\ [][Next]_vars

\* The thread is scheduled, and libxml2's HTTP client gives up at last.
Fairness ==
  /\ WF_vars(\E reply \in Outcomes : do_ALTO_update(reply))
  /\ WF_vars(WriteBack)
  /\ WF_vars(SignalReady)

-----------------------------------------------------------------------------
(* Properties.                                                              *)

\* A document in which white space surrounds every element, as the server writes
\* it: the first and the last node in each element are text.
Indented(d) ==
  \A n \in DOMAIN d :
    d[n].name # "text" => /\ next(d, n) # 0 \/ d[n].parent = 0
                          /\ d[n].parent = 0 \/ children(d, d[n].parent) # n

\* The prefixes are empty elements in groups, which hold nothing else.
Grouped(d) ==
  \A n \in DOMAIN d :
    IF d[n].parent = 0 THEN d[n].name # "ipprefix"
    ELSE LET group == d[d[n].parent].name IN
         /\ group # "ipprefix"
         /\ group = "cnd_hla" => d[n].name \in {"ipprefix", "text"}
         /\ d[n].name = "ipprefix" => group = "cnd_hla"

\* The rating of the group in which document d names an address first, 0 if it does not.
GroupRating(d, addr) ==
  LET named == {n \in DOMAIN d : d[n].name = "ipprefix" /\ d[n].host = addr}
  IN  IF named = {} THEN 0 ELSE d[d[Min(named)].parent].rating

\* The rating a reply gives an element: that of the longest prefix the client
\* looks up, its own or a shorter one of 2 bits or more, which the reply rates.
LongestMatch(e, d) ==
  LET Given(p) == GroupRating(d, compute_subnet(e.host, p))
      found == {p \in (2 .. e.mask) \cup ({e.mask} \ {0}) : Given(p) # 0}
  IN  IF found = {} THEN 0 ELSE Given(Max(found))

\* Once ALTO_query_state says READY the list asked for is rated, all of it, by
\* the reply to that query: a host listed once has the longest match, or 0 when
\* the request failed.  Polling the state is the only synchronisation there is.
Rated ==
  queryState = "READY" /\ answered.list # NULL =>
    LET list == Lists[answered.list]
        Once(i) == \A j \in DOMAIN list : list[j].host = list[i].host => j = i
    IN  \A i \in DOMAIN list :
          Once(i) /\ list[i].host # 0 =>
            IF answered.reply = NULL THEN rating[answered.list][i] = 0
            ELSE Indented(answered.reply) /\ Grouped(answered.reply) =>
                   rating[answered.list][i] = LongestMatch(list[i], answered.reply)

\* A query comes to an end, also when no thread could be created for it: while
\* it is in progress no other one is accepted.
QueryEnds == []<>(queryState = "READY")
=============================================================================
