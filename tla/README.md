# A verification project for rinha-rust-tree

The repository is a fraud-scoring service: a load balancer accepts TCP
connections and passes their descriptors to worker processes; each worker
parses HTTP requests on an edge-triggered epoll loop and answers them with the
fraud count of the K = 5 nearest references in a memory-mapped index of
kd-trees. This directory holds TLA+ models of the parts whose order of steps
decides correctness, the TLC configurations that check them, and proofs for
TLAPS. Paths below are those of the repository (`src/…` is its crate).

## 1. The system

| component | state it keeps | operations | who it talks to | what is hard | what makes it correct |
|---|---|---|---|---|---|
| descriptor hand-off: `src/lb/main.rs`, `src/fd_passing/{evented,io,mod}.rs` | balancer: rotation cursor, one link per worker; worker: listener, one control connection, ready events | accept, send with EAGAIN fallback and reconnection, blocking last attempt; accept control, drain descriptors, hang-up | Unix `SOCK_SEQPACKET` sockets, `SCM_RIGHTS` | crashes of either side, edge-triggered readiness with budgets, retries of a send | a client is received once; none is stranded or dropped while everybody is up |
| connection loop of a worker: `src/fd_passing/{evented,epoll,io,conn}.rs` | `ConnTable`: slot Reading/Writing, epoll interest; buffer; `ResponseBatch` | greedy read, parse, batch, partial writev, re-arm, close | the client over TCP, epoll (EPOLLET), the parser and the search | a byte, FIN or reset between any two system calls; partial writes; full buffer; leftovers of a pipeline | no lost wake-up; the responses on the wire are those of the requests, in order; no connection abandoned |
| HTTP parser, canned responses: `src/http/*` | none | `parse_request_result` | called by the loop, after every read on the whole buffer | prefixes of requests, spellings of headers, rejects before a body is complete, what follows in the buffer | a request ends where its client meant, wherever the reads cut it |
| connection table: `src/fd_passing/conn.rs` | a slot, an interest and a buffer per descriptor number; a pool of buffers | insert, take, arm, shut down, recycle | the loop, epoll, the kernel's descriptor table | a number is reused while a batch of events is handled, another process still holds the file, numbers run out | slot, interest and epoll registration are those of the same file |
| nearest-neighbour search: `src/index/{mod,search}.rs` | K best, stack of nodes, deferred subtrees, partitions to search | prune, defer, scan, descend, replay, early exit | reads the mapped index | a subtree is left out on a consensus that later breaks; bounded stacks; equal distances | the fraud count is that of K nearest references |
| index construction: `src/index/{build,partition_scheme}.rs` | – (pure) | sample, candidates, `train_tree_node`, `build_node` | writes the file | split of equal values, boxes, class bits, midpoints, numbering of a tree | boxes bound, class bits are exact, halves are disjoint, training and descent agree |
| index file: `src/index/{format,layout,mmap}.rs`, `src/bin/preprocess.rs` | the file; the pointers into the map | lay out, write, map, validate, read by offset | builder and search | offsets, strides, alignment; a file cut short by a crash or built for another scale | a worker serves every reference of a whole file, once, or refuses |
| instrumented and restricted search: `predict_fraud_count_inner` of `src/index/mod.rs` | K best with their partitions | search all partitions or a set of them | the offline tools | other orders, other pruning than the search of a worker | a restriction to the partitions found finds the same neighbours |
| distances in 32 bits: `src/index/search.rs` | – (pure) | `scan_block_pair_avx2_bounded`, `lower_bound_box_avx2` | the search | overflow of the accumulator at large scales | the sum is the distance |
| request to vector: `src/vector/*` | – (pure) | three parsers, features | the loop and the search | parsers of different tolerance in turn | one body, one vector |
| readiness and self warm-up: `src/api/*` | the flags `ready` and `ACCEPT_WARMUP`, warm-up workers | check the flags, warm up, join, switch | all threads; other workers through the balancer | two flags read and written one after the other; timeouts racing answers | no score refused outside the switch; ready in the end |
| paired mode: `src/lb/main.rs` (`run_paired_workers`) | a listener and a link per thread | the same loop with one upstream | one worker each | – | as the hand-off |
| runtime configuration: `src/runtime.rs` | environment | – | all | – | – |
| tools: `src/bin/*` | – | offline; `preprocess` writes the index file | – | – | – |

How they interact: the balancer's threads share nothing with the workers but
the control sockets; a descriptor that has been sent is closed by the balancer
and owned by the worker that receives it. Inside a worker, `API_WORKERS`
threads each run the whole loop with their own listener, epoll instance and
connection table, and share only the index, read-only, and the two flags. The
search is called synchronously by the handler of a request.

## 2. The modules

| module | models |
|---|---|
| `EventedConn` | one client connection in the loop of a worker, system call by system call |
| `EventedConnProofs` | every safety property of `EventedConn`, proved |
| `WorkerLoop` | all connections of one worker: descriptor numbers, tables, epoll, a batch of events |
| `WorkerLoopProofs` | every safety property of `WorkerLoop`, proved |
| `Handoff` | abstract: what the hand-off promises a client |
| `FdHandoff` | the balancer, the control sockets, the workers, crashes; implements `Handoff` |
| `FdHandoffProofs` | every safety property of `FdHandoff` and the refinement of `Handoff`, proved |
| `RequestFraming` | where a request ends in the buffer: the header scan of the parser |
| `QueryParsing` | the three parsers of a request's body and the features |
| `FrontEnd` | their composition: bytes arrive, the request is cut, its body is parsed |
| `QueryParsingProofs` | the vectors the parsers make, the invariant of their steps, the calendar, and that what is read is what the body says |
| `FrontEndProofs` | the scans on a part of a stream, and what both modules together guarantee, proved |
| `KdTree` | `build_node`, partition keys, distances and bounds as operators |
| `KnnSearch` | one query, one loop iteration per action |
| `KnnSearchProofs` | every safety property of `KnnSearch`, up to the exact count, and of `InstrumentedSearch`, proved |
| `InstrumentedSearch` | the search of the offline tools, as functions, next to `KnnSearch` |
| `IndexFile` | `preprocess`, the bytes of the file, a worker that maps and reads it; crashes of both |
| `IndexFileProofs` | every property of `IndexFile`, from the learned predicates to the lanes a worker scans, proved |
| `BlockScan` | the arithmetic of the block scan in 16 and 32 bits; its theorems are in `KnnSearchProofs` |
| `Readiness` | start of a worker, the two flags, the warm-up |
| `ReadinessProofs` | type correctness and who may be refused, proved |
| `MC*` | the instances TLC checks |

How they fit together: `FdHandoff` ends where a worker has a client's
descriptor; `WorkerLoop` starts with the descriptors in the control socket and
treats a handler of one client as a step; `EventedConn` opens that step up for one
connection, with the parser's verdict as a given; `FrontEnd` is that verdict
and what becomes of the body; `KnnSearch` answers it, over trees that
`IndexFile` shows to be what the file gives a worker.

### EventedConn

A byte is its position in the stream the client sends and a request an interval
of positions, so that the parser's verdict on a prefix (`ParseResult`) is exact
about *how much* is there and silent about what the header says. A response is
the number of its request, or `Bad` for the 400 and 404 that close. The
balancer's part is over when the model starts: the connection is in the hands
of `on_new_client_fd`.

| variable | code |
|---|---|
| `slot`, `interest` | `ConnTable.slots[fd]` and `ConnTable.epoll_interest[fd]` |
| `buf`, `processed`, `leftLen` | `buf[..used]`; `processed` of `drive_reading`, then `leftover_off`, `leftover_len` of `ConnState::Writing` |
| `batch`, `written`, `keep` | `ResponseBatch`, bytes written, `keep_alive` |
| `pc` | which system call comes next in the handler on the stack; `"wait"` is `epoll_wait` |
| `ready` | the descriptor is on epoll's ready list |
| `sent`, `fin`, `rst`, `acked`, `taken`, `wire` | the socket: what the client sent and acknowledged, what was read and written |
| `replies`, `eofSeen` | history |

Every action makes one system call at most. So `ClientSend`, `ClientShutdown`,
`ClientReset` and `ClientReceive` interleave at every place where the kernel
could change its answer. Epoll is edge-triggered as the code registers it: an
arrival puts the descriptor on the list, `EPOLL_CTL_ADD` and `MOD` put it there
if it is ready at that moment, `epoll_wait` takes it off.

### WorkerLoop

A worker's loop has one thread: a handler runs to its end before the next event
is looked at, so a handler is one action here, and clients and the balancer act
between handlers. (What may change within a handler is `EventedConn`'s matter.)

| variable | code |
|---|---|
| `fds` | the process's descriptor table: the kernel gives out the lowest free number |
| `slots`, `interest`, `pool` | `ConnTable.slots`, `.epoll_interest`, `.buf_pool` |
| `registered`, `ready` | what the kernel's epoll knows, and the edges it has not reported |
| `control`, `batch`, `left` | `control` and the events of `run_evented_loop`; the loop of `drain_fds` |
| `lb`, `link`, `backlog`, `queue` | the balancer's clients and control connections, its messages in flight |
| `sent`, `end`, `taken`, `wire`, `acked` | the sockets |

A registration belongs to a *file*, as in the kernel: closing a number takes it
out of epoll only when it was the last one of the file, and the balancer keeps
its own for a while (`LbClosePeer`). This is why `shutdown_client` calls
`EPOLL_CTL_DEL` first. `size` chooses between room for everyone, a process out
of numbers (`recvmsg` fails with `EMFILE`, and the control connection is
dropped), and a number above `MAX_CLIENT_FD`, which is refused.

### FdHandoff and Handoff

A control connection is a slot of its worker: whether the balancer's end is
open, what became of the worker's end (in the backlog, installed, closed) and
the descriptors queued in it. The balancer is one loop (`Balancer`): establish
the links, accept, try every upstream from the cursor on, and call the
synchronous flavour on the first when all refuse. `lpc` and `mode` say where it is, `wpc`
where a worker is: in `epoll_wait`, dispatching a batch of events, in
`accept_control` or in `drain_fds`. A crash closes all the descriptors of a
process and forgets its variables; a restart begins at `Init`'s values. Without
a crash, too, a worker loses clients: `RecvFdFails` is `recv_fd_nb` reporting
`Closed` of a connection whose other end lives, because `recvmsg` failed or no
number was free for the descriptor it brought, on which `drain_fds` closes the
connection with what is queued in it; and `OnNewClientFd` may refuse any client.

`Handoff` is what a client sees: its connection is waiting, held by the
balancer, passed on, received, or lost with a process, and never goes back.
`HandoffIsAbstract` is the refinement, with `Place` as the mapping.

### RequestFraming and FrontEnd

A buffer is a sequence of lexemes: a word, a blank, a header's name in one of
its spellings, a digit, `CR`, `LF`, a byte of a body. `ParseRequest` is
`parse_request_result` on it, in the order of its early returns; `Arrive` adds
what a read returns, no more than the buffer has room for, and parses the whole
buffer again, as the loop does, unless it is full and refused for that
(`evented.rs:286`). A request carries, besides its lexemes, what its client
means by each header (the length, the wish to close), which the code does not
see. `IsLegal` is what HTTP/1.1 allows, in its words; `IsUnderstood` is what the
parser's search for names gets right of it. The stream goes on behind the
request: `next`.

`FrontEnd` runs both modules together: a complete `POST` starts `QueryParsing`
on exactly the tokens between `from` and `to`, whatever was cut off or is too
much. The handler is assumed to be ready; that gate is `Readiness`.

### QueryParsing

`Start(b)` begins with a body, which `FrontEnd` provides. A body is a sequence of tokens (a key that opens a section, a key with its
value, a closing brace), each with the three things by which the parsers
differ: the spelling of its key, white space, a comma that is not where JSON
has it. A value has a type, a number says whether `fast_parse_f64` takes it, a
string has its bytes and the text they stand for. One action reads one token.

| variable | code |
|---|---|
| `strategy`, `pos` | which of the three parsers runs, and its index `i` |
| `section` | which of its nested loops (or, for serde, visitors) it is in |
| `vals`, `hasLast` | its locals and `has_` flags: a field is in the domain once it was read |
| `out`, `result` | the vector and what `parse_query` returns |

The reference, `Meaning`, reads the fields of a body without any order and
counts days along the calendar, where the code uses `days_from_civil`. `IsBody`
says what bodies the module is about: the objects in them hold no objects, and
nothing but the tail follows the brace that closes the body. `Only` and `++`
stand for `:>` and `@@` of the module `TLC`, which the provers do not know; so
does `Kept` of `FdHandoff` for `SelectSeq`.

### KnnSearch and KdTree

A search sees a reference as its distance, label and index and a node as the
lower bound of its box, its class bits and its children. `Search` says which
indexes are considered: those that satisfy what `build_node` guarantees
(`Sound`). `KdTree` builds such trees the way `build.rs` does and `MCKnnSearch`
runs the search on them, so that the guarantee is also evaluated, as an
assumption of the module, on trees made by the translated builder.

| variable | code |
|---|---|
| `best` | `best_dists`, `best_labels`, `best_indices` |
| `cur`, `stack`, `lanes` | `current`, `stack_nodes[..stack_len]`, what is left of the leaf |
| `pending`, `deferLabel`, `replaying` | `PendingSubtrees` and whether `replay_pending_if_needed` runs |
| `collected`, `todo` | `partition_entries` |

Vectorised details (pairs of blocks, `movemask`, early bounds inside a block)
are not told apart: a lane whose partial sum exceeds the bound is one that
`insert_best_fast` would not insert. That the sums fit their 32 bits is
`BlockScan`.

### IndexFile

`preprocess` is `Load`, then a `TrainNode` or `SkipNode` per call of
`train_tree_node`, a `BuildPartition` per key, `CreateFile` and `WriteSome`. The
score of a candidate is a sum of `f64` over neighbours of a sample and is
abstracted: any eligible candidate may win. The file is a sequence of
sections, a section rows of cells of fixed widths; `Image` is what
`build_index` lays out. The reader does not see sections: it has the offsets,
strides and widths of `load` and `layout.rs`, and `Read` returns `Garbage` for
bytes that are not exactly one cell.

The write is not atomic: `File::create` empties a file that is there, and
`preprocess` can stop after any part (`WriteSome` stops inside of and between
sections), be killed anywhere and run again on other data, for another scale
(`RunAgain`). A worker that cannot open the file exits and is restarted. One
order is excluded, as the deployment excludes it: nobody rebuilds a file that a
worker has mapped (the image is built before the workers start).

| variable | code |
|---|---|
| `input` | references, `leaf_size`, the scale of the build |
| `tree`, `work` | `tree_predicates`, the calls of `train_tree_node` on the stack |
| `built` | `partition_meta`, `nodes`, `all_blocks` of `build_index` |
| `file` | the image in memory and how much of it is on disk |
| `worker`, `index` | the worker, and its `SpecialistIndex` as bases, counts and lookup table |

### InstrumentedSearch

`predict_fraud_count_inner` is evaluated at the end of every search of
`KnnSearch`, on the same index and query, as a function from the K best before
a step to those after: `ScanLeaf` by recursion over the lanes of a leaf,
`SearchTree` over the tree, `SearchEntries` over the sorted partitions. The sort
is by bound only; up to 32 entries `sort_partition_entries` inserts and keeps
the order of equal ones, above that the standard library's sort does not, so
`Orders` is a set.

### BlockScan

One lane of `scan_block_pair_avx2_bounded` as `_mm256_sub_epi16`,
`_mm256_madd_epi16` and `_mm256_add_epi32` compute it, with their widths.
Vectors are functions from the 14 features to integers; features 5 and 6 alone
use the sentinel `-SCALE` in ordinary requests.

### Readiness

`Threads` run `can_serve_fraud` as its two loads (`LoadReady`, `LoadAccept`);
the warm-up thread is `Join`, `ClearAccept`, `SetReady`; a warm-up worker
connects, waits, times out, retries and ends. The balancer decides which process
a warm-up connection reaches, so that a warm-up worker may never be answered
here. What it has sent outlives its patience: `unread` counts what is on the
connection it has, `strays` what is on those it has dropped and a thread may
still read, `from` and `forgotten` say whose request a thread has and whether
anybody waits for the answer.

## 3. Runs

| run | question | bounds |
|---|---|---|
| `conn` | Does the loop keep its promises whatever arrives between two system calls? Type, wake-ups, bytes on the wire, order of responses, rejects, closes, and that every request is answered | 3 requests of 2–3 bytes of every kind, buffer of 5 bytes, batch of 2, send buffer of 3 bytes, responses of 2; one stream of 1-byte requests that overfills a batch |
| `conn_full_buffer` (violation) | Are pipelined requests that fill the buffer served? | buffer of 5 |
| `conn_dropped_response` (violation) | Is a request answered that finds the batch full? | 4 requests, buffer of 8, batch of 2 |
| `worker` | Do events, tables, epoll and buffers stay together while numbers are reused, and is every request served? | 2 clients: one with a request in two pieces that asks for the close and may be reset, one slow with two pipelined requests and an end of stream; room for 3 numbers, for 2, and a table too small for the third; receive budget 2, pool of 1, send buffer of 1 response, 2 control connections |
| `handoff` | Is anybody lost or stuck when nothing fails, or when workers crash or fail to receive? | 2 workers, 3 clients, queues of 1, 1 worker crash, 1 failed reception |
| `handoff_crashes` | Are descriptors current, is nothing stranded, and is `Handoff` implemented, when both sides crash and a reception fails? | 1 worker, 3 clients, queue of 2, backlog of 2, 2 + 1 crashes, 1 failed reception |
| `handoff_backlog` (violation) | Does every client settle with the default accept budget? | 1 worker, 1 balancer crash |
| `handoff_budget` (violation) | and with more descriptors queued than the receive budget? | queue of 2, budget of 1 |
| `parse` | Is a request cut where its client meant, wherever the reads cut it; is every well-formed body accepted, none without a field, each with the vector it means, by whichever parser; is every request settled? | 662 bodies in one read: the body of `vector/tests.rs` with each single edit of its layout, 16 layouts with each of 39 values; 610 requests byte by byte, and the rest at once from anywhere; bodies of at most 40 tokens, 2 merchants, integers of 8 bits; a buffer of 60 lexemes, bodies of at most 66 |
| `knn` | Is the count exact, is nothing forgotten or scored twice, does the search end, and does the restricted search find the same neighbours? | 5 layouts of 4–7 points, all labellings, 4 queries, K = 2, leaves of 1 and 2, room for 1 deferred subtree, with and without early exit |
| `index` | Does a worker serve every reference of a whole file, once, from a sound tree, whatever crashed before? | 20 references on a grid, 13 crowded ones, 3, none, one malformed; all 14 dimensions, blocks of 8; predicates of 2 levels; leaves of 8 and 64; a worker's scale of 10 and files of 10 and 7; one rebuild |
| `readiness` | Who is refused, and does the worker become ready? | 2 threads, 2 warm-up workers with a payload file, 1 request on dropped connections of each |

The bounds are the smallest at which each branch is taken more than once.

- `conn*`: the buffer of 5 holds a complete request and part of the next, or two
  of them, or is filled exactly by two of 2 and 3; a batch of 2 responses of 2
  bytes is more than the send buffer, so that a write stops inside a response
  and inside a batch; three requests let a leftover be parsed after a write
  that was itself resumed.
- `worker`: two clients are the least for one number to be closed and given to
  the other inside one batch; a second control connection replaces the first
  while its messages are in flight; a send buffer of one response makes the
  pipelined pair wait for room, with the interest switched and switched back.
- `handoff*`: two workers with queues of one descriptor and three clients fill
  all queues with one client left for the blocking attempt; two failures are what
  giving a client up takes (`GiveUpTakesTwoBreaks`), here a crash and a failed
  reception, and with the balancer's restart there are up to three control connections of a worker at once, one
  dead, one in the backlog, one live.
- `parse`: the bodies reach every place at which one parser stops and the next
  begins; the table of two merchants can be too short, and an integer of 8 bits
  can wrap, as 64 and 32 bits can. The heads have the length before and after
  other headers, in every spelling, twice, absent, not a number and too large;
  its name inside another header, before and after the length itself; the wish to
  close in each form; and behind the request nothing, one without a length, one
  with a length of its own, or as many as fill the buffer. `BUF_SIZE` counts
  lexemes, not bytes, and is smaller than `MAX_BODY_LEN` as 2048 is than 8192:
  some bodies fill the buffer, and some are refused for their length before.
- `knn`: `K = 2` is the least for which a consensus can be broken, and the one
  place of the stack of deferred subtrees is full in many of the searches. The
  layouts hold equal points, common coordinates, the sentinel value, an empty
  home partition, partitions with equal bounds, and one whose box is near
  although its points are far.
- `index`: the grid has more values in a dimension than `FewValues`, inner nodes, a
  last block that is not full, and the sentinel; 6 references are what learning
  takes, 3 are too few; the sections' lengths make the alignment of the last one
  matter.

- `readiness`: with two workers one can be patient while the other's requests
  stay behind, and one request left on dropped connections (`MaxStrays`) can be
  read after `/ready` has answered 200. With a payload file a worker goes through
  the states it has without one, and through the retry.

The theorems of section 5 hold for all values.

`CHECK_DEADLOCK FALSE` is set where the modelled system stops: a connection that
is closed, all clients received, a search that is done, a file that is written
and read. `readiness` never stops and is checked for deadlock.

### Fairness

- `EventedConn`: `WF(Server)`, since the loop is one thread that always runs
  what it can (`evented.rs:69-136`); `WF(ClientReceive)`, a client
  that reads. Nothing makes a client send.
- `WorkerLoop`: `WF(Worker)` and `WF(ClientReceive(c))`, for the same reasons.
  Nothing makes the balancer connect, send or close.
- `FdHandoff`: `WF` of the balancer and of each worker, single threads; `WF` of
  the restarts, because `docker/compose.submission.yml` says `restart: always` of every service. No fairness
  makes a process crash, nor a client come.
- `KnnSearch`: `WF(Next)`, a function that is running.
- `FrontEnd`: `WF(OnReadable)`, a client sends what it started; `WF(ParseQuery)`,
  a function that is running.
- `Readiness`: `WF` of each thread, of the warm-up thread and its workers, of
  the deadline (the clock). Not of questions, nor of the arrival of a warm-up
  request at this process.
- `IndexFile`: none; it has safety properties only.

## 4. What the code does differently from what it says

- `conn_full_buffer`: `drive_reading` tests for a full buffer before it parses
  (`evented.rs:286`), so complete pipelined requests that fill it get a 400.
- `conn_dropped_response`: a request consumed when the batch is full is never
  answered (`evented.rs:313`); those behind it are answered one place early.
- `handoff_backlog`: with the default `RINHA_ACCEPT_BUDGET`, `accept_control`
  installs one connection per event of an edge-triggered listener
  (`evented.rs:172`); one that was already pending is not reported again. With
  a budget of 2, and one balancer crash, `handoff_crashes` finds nothing stranded.
- `handoff_budget`: `drain_fds` stops at its budget and treats the socket as
  drained (`evented.rs:202`); what is left waits for the next descriptor.

Met while modelling, and without a run:

- `docs/ARCHITECTURE.md:248` says that subtrees without the consensus class are
  deferred; `try_defer` defers those that hold *only* the consensus class, which
  is what makes the search exact (`DeferredHaveOneLabel`, `CountIsExact`).
- `docs/ARCHITECTURE.md:331` speaks of a one-shot epoll mode that the code does not use;
  lines 391 and 402 give a default scale of 1000 where `build.rs:12` has 10000;
  the record sizes from line 425 on are not those of `format.rs`.
- `recv_fd_nb` (`fd_passing/mod.rs:35`) reports every failure of `recvmsg` but
  `EAGAIN`, and a message whose descriptor found no free number, as `Closed`,
  and `drain_fds` (`evented.rs:208`) then drops a control connection whose other
  end lives. The clients queued in it have been accepted by the balancer and are
  closed without a word. So are those whose number is beyond `MAX_CLIENT_FD`
  (`evented.rs:224`), and those queued in a connection that a restarted balancer
  makes before the worker has handled the hang-up of the old one
  (`evented.rs:174`). `OnlyFaultsLose` says that there is no other way without
  a crash.
- A `Connection: close` among pipelined requests is forgotten if the batch is
  followed by a leftover that completes later (`evented.rs:500`): the next batch
  begins with a `keep_alive` of its own. The client gets its responses, and the
  connection stays open until the client closes it. One that was half-closed
  within a request stays in the table for ever.
- The parser looks for names anywhere in the head. Of `X-Content-Length` before
  `Content-Length` in one spelling it takes the first for the length
  (`parser.rs:153`); `Proxy-Connection: close` closes, and `Connection:close`,
  `Connection:  close` and `Connection: keep-alive, close` do not
  (`parser.rs:190`). HTTP allows all of these heads. `FramedAsSent` excludes them
  by `IsUnderstood`, and `MCFrontEnd` has them (`Misread`).
- A body of `MAX_BODY_LEN` (8192) is never served: the buffer of 2048 bytes is
  full before, which is a 400 (`evented.rs:286`). The test of `parser.rs:99`
  only makes that 400 come with the head.
- `/ready` may answer 200 while a thread serves, or has yet to read, a warm-up
  request: one whose worker timed out and dropped the connection
  (`warmup.rs:275`, joined by `warmup.rs:129` without regard to it).
  `ReadyAfterWarmup` says that nothing else is left. After a retry that was not
  answered either (`warmup.rs:180`) the worker keeps the connection, and takes
  the late answer for that of the payload it sends next, and so on.
- `layout.rs:60` says that the first partition is at offset 46 of the file: it is at 42 plus
  4 for each predicate, which is even as the argument needs.
- `midpoint` (`partition_scheme.rs:294`) rounds toward zero, so that two
  adjacent negative values, or -1 and 0, are not separated. References have
  no negative value but `-SCALE`, so this takes a scale of 1
  (`CandidatesSeparate`).
- The parsers do not mean the same by a body whose `last_transaction` has a
  key in another spelling, `"Timestamp"` say. `serde_fallback.rs:344` compares
  keys without regard to case, underscores and hyphens, and would read it;
  `single_pass.rs:500` skips the key and at its end (`single_pass.rs:561-565`)
  accepts the body as that of a customer without a last transaction, so that
  the last parser is never asked. In any other section the same spelling makes
  the single-pass parser refuse, and the last one reads it. `AcceptedMeansBody`
  and `AcceptedIsComplete` name the exception (`SkipsLast`); the bodies of
  `MCFrontEnd` that respell these keys show it.

## 5. What is proved

The theorems hold for every value of the constants that satisfies the named
assumptions of the modules; each of the invariants below was first checked by
TLC on the instance of its run. A property of a run is proved unless the end of
this section says otherwise.

### EventedConn

For every set of request streams and every positive buffer, batch, response and
send-buffer size (`StreamsAssumption`, `SizesAssumption`):

- `TypeCorrect`: `TypeOK`, in particular that the buffer and the batch
  stay within their arrays;
- `WakeupsNotLost`: `NoLostWakeup`;
- `WireInOrder`: `WireFollowsReplies`; `RejectsAreFinal`: `RejectIsFinal`;
- `AnsweredInStep`: `ResponseMatchesRequest`, if `NothingBehindFullBatch`;
- `NobodyIsAbandoned`: `CloseAbandonsNothing`, if also `FullBatchCloses`.

`NoLostWakeup` speaks of `epoll_wait` only, so it is not inductive. Its
invariant (`IInv`) adds where the interest and the slot are at each `pc`
(`SlotsAgree`), that the offsets are inside the buffer (`OffsetsInside`) and
what may be unread without an event pending while the handler runs
(`WakeupPending`): whatever arrives after the last read puts the descriptor on
the list, because the interest was `EPOLLIN` when it arrived, and an interest
that changes is armed with a `MOD` that reports readiness at that moment. The
exception is a batch that ends with the connection closed.

The wire follows the replies because the batch is always their tail
(`BatchIsTail`) and the wire reaches exactly to where the batch is written
(`WireReaches`). The m-th reply answers the m-th request because the bytes
taken and not in the buffer are always those of the requests answered so far,
whichever of buffer, batch and leftover holds the rest (`Aligned`).

The last two theorems need a hypothesis, since the code does drop a request
that finds the batch full: `conn_dropped_response` is that behaviour. The
hypotheses say that requests are long enough: `NothingBehindFullBatch`, that
one more than a batch of them (nearly) fills the buffer; `FullBatchCloses`, that
a request finds the batch full only behind one that asks for the close. With
`BUF_SIZE` 2048 (`http/parser.rs:5`) and `MAX_PIPELINED_RESPONSES` 64
(`fd_passing/conn.rs:5`) both hold as soon as every request has 32 bytes, as
65 of them are more than a buffer; a `POST /fraud-score` with its length and
body is longer, a bare `GET` need not be.

### WorkerLoop

For all clients, numbers, budgets, pools and send buffers (`WorkerAssumption`):
`TypeCorrect`, `NoEventOfAnother` (`EventIsForItsConnection`), `KernelAgrees`
(`InterestMatchesKernel`) and `NothingIsLeaked` (`NothingLeaks`). None of them is
inductive alone: what makes an event of the batch belong to the connection its
number names is that the kernel's registrations are exactly the listener's, the
control connection's and the table's (`RegisteredIsHeld`), that each event still
to be handled is of a registration that is held, one per number (`BatchIsHeld`),
and that `shutdown_client` removes the registration before it closes the
number. Buffers are counted: the pool and the occupied slots never hold
fewer than the pool was filled with (`BuffersKept`).

### FdHandoff

For any number of clients, workers, slots, crashes and failed receptions, and
all budgets (`HandoffAssumption`):

- `Typed` and `NoStaleDescriptor` (`DescriptorsAreCurrent`), from `LinkInv`:
  where the balancer and a worker are says which ends are open and which
  descriptors name them;
- `NeverInTwoPlaces` (`OnePlace`): a client is in the listener, with the
  balancer, in one control socket or in one worker's table, once;
- `ImplementsHandoff`: `Spec => HandoffIsAbstract`, step by step. A step of the
  hand-off moves one client one step along the way of `Handoff`, moves
  none (`Keeps`), or closes a connection or a process with what it holds
  (`Shrinks`), which `Handoff` calls losing;
- `GivingUpTakesTwoBreaks` (`GiveUpTakesTwoBreaks`), from `BreaksTakeCrashes`:
  as long as the balancer has not crashed, a broken link is the mark of one
  crash or failed reception of a worker, and the second attempt failing that of
  another;
- `OnlyFaultsLoseClients` (`OnlyFaultsLose`): without either, only a refusal
  in the worker loses a client;
- `BudgetsStrandNothing` (`NothingStranded`), if `BudgetsSuffice`: the accept
  budget is at least the backlog and the receive budget at least the queue. Its
  invariant says for the listener, the hang-up and the queue of each worker that
  what is readable has an edge pending, in the batch, or a budget left that
  covers it (`EdgeLeft`). Without the hypothesis the property fails in the ways
  of `handoff_backlog` and `handoff_budget`.

### RequestFraming, QueryParsing and FrontEnd

For all requests, legal or not (`StreamAssumption`: a head ends at its first
empty line; `LegalAssumption`: what is called legal satisfies `IsLegal`;
`BodiesAssumption`: bodies are `IsBody`), and all ways to cut them:

- `CutsDoNotMatter`: `ChunksDoNotMatter`. The buffer always holds a beginning of
  the stream that fits in it (`OnlyABeginningIsRead`), and on a beginning that has its empty
  line each scan of `parser.rs` finds what it finds in the whole stream: the
  lemmas `HeaderEndAgrees`, `FirstLineAgrees`, `ContentLengthAgrees` and
  `KeepAliveAgrees`, of which the third needs that a header's value ends before
  the empty line does;
- `LegalRequestsAreTaken`: `FramedAsSent`. `IsLegal` says what HTTP asks of a
  request, in words the code does not use: a first line that the service knows,
  the length in one header, as digits with blanks around them, the wish to
  close as a member of `Connection`, and any other header. The theorem is
  about those that the parser understands (`IsUnderstood`: no other header has a
  name of the length inside it, and the 17 bytes of the wish to close stand in
  the header that means it and nowhere else), and says of each when it is taken,
  with what, and when it gets a 400 for its length or for the full buffer. The head of such a request is its first line,
  then its headers, each at a place of its own (`HeadHasShape`, on
  `FlattenIsCovered`, which says what `FlattenSeq` makes of any list of headers).
  So a name of the length that a scan finds is the first lexeme of that one
  header (`OnlyTheLength`), its value is what the digits spell (`LengthOfHeader`),
  and with no such header the body is empty (`ContentLengthOfHead`). A beginning
  that has the empty line begins with the whole head, and the lemmas above carry
  over what the scans find in it (`BeginningIsFramed`, `CutIsFramed`);
- `VectorsAreInRange`: `VectorInRange`. Each field is read with a value of
  its type (`ReadFromBody`), also where an integer wraps, and `quantize` of any
  fraction is in `-SCALE .. SCALE` (`QuantizeInRange`), so the vector is in
  range at every step and the parts that `finish_vector` writes at the end are too;
- `NothingIsMissing`: `AcceptedIsComplete`. The three parsers have three
  reasons. The compact one has gone along `CompactOrder` (`ReadInOrder`), which
  has every field, to the brace that closes the body, the last one or the one
  after null. The single-pass one has tested its `has_` flags, and what it has
  passed of `last_transaction` it has read, unless a key was respelled
  (`LastIsRead`). The last one closes an object only when it is complete
  (`LastIsWhole`). All three need that the parser's place is the body's
  (`InPlace`);
- `NoneIsTooStrict`: `WellFormedIsAccepted`. Only the last parser can refuse, so
  the invariant (`Faithful`) says of it that it has the value of every field
  behind it (`HasAllBehind`) and does not run past the brace that closes a
  well-formed body (`StaysInside`). The first needs that nothing occurs twice
  (`Single`, from the cardinalities by `CountsAreSingle`), for a section that
  opens again drops what was read of it, and that behind the brace of a section
  nothing of that section comes again (`BehindTheBrace`, by induction over the
  places from the brace on). Then it takes every token (`SerdeTakesIt`) and has
  every field at the end (`SerdeHasIt`);
- `VectorsMeanTheirBodies`: `AcceptedMeansBody`. Every value that is kept was
  read from an occurrence of its field, by the rule of the parser that runs
  (`KeptValues`), and of an unambiguous body that is what the body says
  (`KeptIsSaid`): bytes are text, an integer between both ends of `i32` does not
  wrap, the list is not cut. What a fast parser writes as it reads is still there
  at the end, since no two fields write the same feature (`ReadIsWritten`,
  `FeaturesApart`), and with `finish_vector` over it that is the vector of what
  was read (`Assembled`), as is the one the last parser writes in one go. At the
  end both fields of `last_transaction` are read if they occur (`PreviousIsRead`)
  or a respelled key was skipped and one is not (`SkippedIsNotRead`). What is left
  is arithmetic (`MeaningOf`), above all `CivilIsCalendar`: `days_from_civil`,
  which begins its years in March and counts in eras of 400, gives the days of
  whole years, whole months and days since 1970-01-01, on every day of the
  calendar from then on without end. `WeekdayIsRight` and `MinutesAreRight`
  follow.

The composition needs two more facts: the head that the parser finds is the one
that was sent, so that the body it is given is a beginning of the body that was
sent (`FramedBody`), and a beginning of a body is a body (`CutBody`).

### KnnSearch

For every index that satisfies `Sound`, every query, K and capacity
(`SearchesAssumption`, `KnnAssumption`):

- `TypeCorrect`, `DeferralsHaveOneLabel` and `NothingIsForgotten`: `TypeOK`,
  `DeferredHaveOneLabel` and `NothingForgotten`: pruning, deferral,
  replaying and the bounded stacks lose no reference nearer than the worst of
  the K best;
- `StackNeverFull`: in a tree no higher than the stack there is room for the
  far child whenever it is to be kept, so the branch that drops it is dead;
- `ScoredOnce`: `NoReferenceTwice`;
- `ExactAnswer`: `CountIsExact`.

The inductive invariant (`IInv`) adds three facts. The K best are in order
(`BestInOrder`), so that the last is the worst and an insertion only lowers it:
what was pruned stays prunable. The stack holds nodes of decreasing height
(`StackFits`), which is why the far child finds room. The control state agrees
with what it needs (`PhaseOK`). That no reference is scored twice takes an
invariant of its own (`OnceInv`): the K best, the leaf or node at hand and what
is below the stack, the deferred subtrees and the roots left have no reference
in common. At the end, nothing is forgotten, what is still deferred has the
label of a consensus of the K best and the partitions left are too far
(`AnswerInv`), so that the K best can be exchanged for K nearest references
without changing the count.

### InstrumentedSearch (in KnnSearchProofs)

`RestrictedFindsTheSame`: `RestrictedAgrees`, for every sound index, K and early
exit, if the partitions can be sorted in one way only (`OneOrder`): there are at
most `InsertionSortMax` of them, or no two have the same bound. The hypothesis
is what the code needs: above 32 partitions its sort may order equal bounds in
two ways, and then two references at the same distance may win in turn (the
mutant `OrdersUnstable` of the run shows it). Every search of the run satisfies it.

The argument is by sets of references. `KBestOf(b, X)` says that b holds the K
best of X by distance and index. Inserting keeps it (`InsertedIsBest`), so does
pruning what is farther than the worst (`PrunedIsBest`), and so the scan of a
leaf, the search of a tree (`NodeIsBest`, by induction over the height) and the
loop over the partitions (`LoopIsBest`) each yield the K best of what they have
searched. The K best are determined by the set (`SameBest`), and their worst
cannot be farther for a larger one (`WorstShrinks`, by counting). Each partition
of the restricted search was searched by the first one too, at a moment when it
had seen at least as much; so it is not skipped now either, and both end with the
K best of the partitions that have a neighbour among them (`FindsThemAgain`).

### BlockScan (in KnnSearchProofs)

Without a run, what the widths of the AVX2 instructions allow:

- `ScanIsExact`: for every scale with `20·S² < 2^31`, that is up to 10362, and
  all vectors whose features other than 5 and 6 are not negative, no
  intermediate sum wraps and the lane is the squared distance;
  `DefaultScaleIsExact` is the case of 10000;
- `LargestScaleWraps`: at 11000, which `build.rs:14` accepts, two ordinary
  vectors get a negative distance, nearer than any other;
- `NegativeFeaturesWrap`: so they do at the default scale, when six more
  features of a query are negative. The parsers accept such bodies, and
  `VectorInRange` does not exclude them.

### IndexFile

For all rows, leaf sizes and scales that the runs of `preprocess` may be given
(`InputsAssumption`: rows are vectors of integers with a label, a scale is at
least 1), any number of dimensions, lanes, table entries and levels within
`IndexFileAssumption`. Of its conjuncts, `PACKED_DIMS = 16` is what the strides
of `layout.rs` are right for, `LANES <= 2048` keeps `leaf_size.clamp(LANES,
2048)` from panicking, and the last says that a key of the deepest tree has a
place in `key_lookup`.

- `TrainingIsFaithful`: `TrainedOnItsQueries`. The invariant (`TrainingInv`) adds
  that no two pending calls of `train_tree_node` are above one another
  (`CallsApart`), so that the predicate one of them sets changes no descent of
  the others;
- `CandidatesAlwaysSeparate`: `CandidatesSeparate`, if no scale is 1;
  `SmallestScaleDoesNotSeparate` shows that at 1 the middle of the sentinel and
  zero is zero, which does not separate them. `src/build.rs` accepts that scale;
  nobody uses it;
- `KeysFitTheTable`: the key of any vector under any predicates is below
  `KEY_LOOKUP_SIZE`, so that `load` drops no partition;
- `TreesAreBuilt` (`BuiltInv`): what `build_index` has at any time is a *forest*
  of the keys built so far;
- `FilesAreWritten` (`FileInv`): the file is a beginning of the image of such a
  forest with all keys, and a worker that serves has mapped all of it, with
  exactly the offsets, predicates and key table that were laid out;
- `OpenedFilesAreWhole` (`OpenedIsWhole`), `ServedTreesAreSound`
  (`MappedTreeIsSound`) and `ReferencesAreServed` (`EveryReferenceServed`), which
  follow from `FileInv`.

The argument goes from the writer to the reader in four parts.

*The trees.* `BuildNode` is a recursive function. That it exists, and what it
is, is shown by induction on the size of the set it is called for
(`BuildExists`, `BuildsForest`); that the induction ends needs that both halves
of a split are smaller than the whole (`HalfIsProper`), for either way to choose
the dimension. A `Forest` over S is a sequence of nodes and one of lanes for
which there are two functions, `below` (of a node, the references below it) and
`pos` (of a reference, its lane), such that every node has the box, the length
and the class bits of what is below it, is a leaf whose lanes are those of its
references, from a whole block on, or has two later nodes that share it; and
the lane of a reference holds its vector, label and index. Two forests one
behind the other are a forest (`ForestsJoin`), and so is a node in front of two
(`InnerForest`); this is why child links and lane offsets stay right as the
vectors grow.

*The bytes.* `ImageIsLaidOut` gives the offset of each of the nine sections as a
sum of sizes, the padding before the last but one included; `ReadsTheCell`, that
a read at the offset and with the width of a cell yields the cell: no other
section, row or field is there. `CursorsMeetTheSections` is the agreement of
`load`'s cursor with the writer's.

*The worker.* `LoadsWhole`: if every check of `load` passes, the whole image is
on disk, since the last check is at its end, and the header, whose counts the
other checks use, is there once the first have passed. What is then kept is
`ServedFrom`; `Open` is the only step that sets it, and the file is not written
while the worker serves.

*The search.* Of a whole file, `NodesAreMapped`, `PartitionsAreServed` and
`LanesAreMapped` say what `layout.rs` and the block scan read; `LanesBelowAre`,
by induction from the last node to the first, that the leaves below a node are
the lanes of the references that `below` gives it, without the lanes that pad a
block. Two references have two lanes because a lane holds the index of its
reference (`AsManyPlaces`), and a key has the partition of the references that
descend to it, read back as they were written (`SameHeapSameKey`).

So the certificate (`IsCertificate`: the predicates, roots, nodes and lanes, with
`below` and `pos`) is what is handed from one part to the next, and nothing about
the file is assumed. `MappedTreeIsSound` is what `Sound` of `KnnSearch` asks of a
tree as to boxes, classes and partitions.

### Readiness

For any number of threads and warm-up workers:

- `ScoresRefusedOnlyInSwitch`: `RefusedOnlyInSwitch`;
- `ReadyIsAfterWarmup`: `ReadyAfterWarmup`.

The invariant behind both: the two flags say where the warm-up thread is
(`FlagsFollowWarmup`), what a thread has loaded of `ready` stays true since
nobody clears it (`LoadsHold`), a warm-up worker that never timed out has at most
one request out, unread or with one thread, and waits for it (`PatientWorkers`),
what this process has of a connection its worker waits on (`HeldIsAwaited`), and
every worker has ended at the join (`JoinedAll`).

### Only model-checked

- Liveness (`EveryRequestAnswered`, `HalfCloseNoticed`, `EveryRequestServed`,
  `EveryClientSettles`, `SearchEnds`, `BecomesReady`, `EveryRequestSettles`),
  which TLAPS does not reach under fairness.
- That `KdTree` builds trees that are `Sound` in full: TLC evaluates
  `SearchesAssumption` on the trees of `MCKnnSearch`; of the trees of the file,
  boxes, class bits and disjoint halves are proved (`BuildsForest`), the height
  that `TreeStack` bounds is not.

## 6. What is not modelled

- In `RequestFraming`: a `Content-Length` of so many digits that `usize`
  overflows, bytes inside a word, `HTTP/1.0`, `Transfer-Encoding` and `Expect`
  (the parser knows none of them), and the second request of a stream once the
  first is decided (`EventedConn` follows those).
- In `QueryParsing`: bytes inside numbers and strings, hashes (taken to be
  injective), the rounding of `f64` (features are rounded exactly), calendar
  fields out of range, and what `serde_json` does inside. The parsers do differ
  on bodies with a section twice (`single_pass` keeps the fields of both, serde
  the last), with escapes in a merchant's name (`single_pass` hashes the
  bytes), with an integer that wraps or has a fraction, with a request before
  1970, and all three ignore known merchants after the 64th. No text says what
  such a body means; they are in the run, and outside the hypothesis
  `Unambiguous` of `AcceptedMeansBody`.
- In `IndexFile`: the score of a candidate predicate, the decoding of the
  dataset, a disk that reorders what was written without `fsync`, and a file
  rebuilt under a worker that has mapped it (the code has no answer to either, and
  the deployment rules out the second).
- The statistics of the instrumented search, and the measuring and printing
  tools around it.
- In the balancer: the choice of a thread by `SO_REUSEPORT` in paired mode (a
  thread is `FdHandoff` with one upstream), CPU pinning, and two ways to
  stand still that follow from a single line: `restore_connection` waits for a
  worker that is down for good (`lb/main.rs:87`), and `accept4` failing with
  `EMFILE` makes `poll` return at once, again and again (`lb/main.rs:205`).
- Growth of the connection table and exhaustion of memory; busy polling.
- The configuration: what it sets are constants of the modules.
- In the hand-off, exhaustion of descriptors in the balancer; in a worker it is
  `RecvFdFails`, at any time and not only when there are many, and an error of
  `accept4` on the control listener (`evented.rs:189`) is not.
- In the warm-up, errors in reading the payload file and answers that are too
  long or cut short, which end like a timeout, without the wait.
- In-process warm-up of the index, which only touches pages.

## 7. Plan

1. Done: `EventedConn`, `WorkerLoop`; `Handoff`, `FdHandoff`;
   `RequestFraming`, `QueryParsing`, `FrontEnd`; `KdTree`, `KnnSearch`,
   `InstrumentedSearch`, `IndexFile`; `Readiness`; the proofs of section 5.
2. What would come next is a proof of the height of the trees that `KdTree`
   builds, which would make `Search` a theorem about the mapped file.
