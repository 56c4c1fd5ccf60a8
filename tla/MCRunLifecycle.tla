---------------------------- MODULE MCRunLifecycle ----------------------------
(***************************************************************************)
(* Instances of RunLifecycle for TLC, and its refinement of RunPromise for *)
(* clients that start runs one at a time.                                  *)
(***************************************************************************)
EXTENDS RunLifecycle, TLC

Begun(p) == pc[p] # "ready"
InProgress(p) == pc[p] \notin {"ready", "done", "raised"}

\* One start, through the dispatcher or by a stream, and one cancellation.
OneOfEach == \A P \in {StartRequests, CancelRequests \cup StopRequests} :
               \A p, q \in P : Begun(p) /\ Begun(q) => p = q
OnceSpec == Init /\ [][Next /\ OneOfEach']_vars

\* Any two of the requests.
TwoRequests == Cardinality({p \in Requests : Begun(p)}) <= 2
PairSpec == Init /\ [][Next /\ TwoRequests']_vars /\ Fairness

\* A client that waits for its start request to return before it sends another.
SerialClient == \A p, q \in StartRequests : InProgress(p) /\ InProgress(q) => p = q
SerialSpec   == Init /\ [][Next /\ SerialClient']_vars

RepliesOf(r) == UNION {{<<c, i>> : i \in {j \in DOMAIN transcript[c] : transcript[c][j].run = r}} :
                         c \in Conversations}

Promise == INSTANCE RunPromise WITH
    state   <- [r \in Runs |-> runs[r].status],
    owner   <- [r \in Runs |-> runs[r].conversation],
    replies <- [r \in Runs |-> Cardinality(RepliesOf(r))]

\* With a serial client and no cancellation the handlers, the queue and the
\* executors keep the promise, through failures to publish, a crash and the
\* deletion of the conversation: one active run per conversation, at most one
\* reply, before the run settles, and no status ever taken back.
PromiseKept == Promise!Spec
=============================================================================
