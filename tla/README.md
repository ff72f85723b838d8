# Verification of the eltex course programs

TLA+ specifications of the programs in this repository, TLC models of them and
TLAPS proofs. The repository is a set of small C programs, each with a directory
of its own and nothing in common with the others; a component below is one
program, or one thread or process of it.

## Inventory

| Program | State | Operations | What is hard | What makes it correct |
|---|---|---|---|---|
| `thread/storage_live` | rooms with product, a mutex per room, demand of each buyer | buyers take a room's product, the loader fills empty rooms and prints a report, main creates, joins, cancels | rooms are looked at without the lock; the report takes all locks; the loader is cancelled anywhere; fewer mutexes than rooms | a visit is atomic, product is neither lost nor sold twice, everybody goes home |
| `NETS/server_queue` | message queue in the kernel, descriptors, epoll, request buffers, `terminating` | accept, recv, recvfrom, msgsnd; service threads msgrcv, answer, close; SIGINT | a pointer into a dead frame, signals between test and wait, descriptors that travel through a queue, failures that skip the clean-up | every request is answered once, to its own client, in order; SIGINT closes the server and the queue |
| `NETS/multi-user TCP_ECHO`, `NETS/multi-user UDP_ECHO` | processes, the descriptors they inherit | a fork per client or per datagram | descriptors that are never closed, untested results, lost datagrams, children that fall back into their parent's loop | each client talks to its own child, in turns, and gets its answers |
| `NETS/select` | two sockets, a descriptor set, one address structure for both | select, accept, recvfrom | the set after a failed select; calls that block; an address left from another call | only select blocks, answers go to who asked |
| `NETS/TCP_ECHO`, `NETS/UDP_ECHO` | one buffer that is edited in place | echo with a suffix | what is left in the buffer of the message before; end of connection | the echo is what was sent |
| `thread/five_threads` | the counter of the creating loop | create, print, join | threads read the counter while it moves | every thread prints its own number |
| `fork/fork_tree` | a tree of six processes | fork, wait, exit | failures of fork on the way | parents outlive and reap their children |
| `file_manager` | two panels: row, selected index, scroll offset, list, `work_dir`; one working directory | arrow keys, Tab, Enter, quit | unsigned counters that are decremented before they are compared, windows without room for a cursor, relative paths, scandir, chdir and lstat that fail | the highlighted entry is the selected one, a panel lists one directory, Enter opens what is shown |
| `calculater` | two numbers, a command, the line buffer | add, sub, mult, div, quit | a test for overflow that must not overflow, the rest of a line left in the input, the end of the input | the result, or a message |
| `text editor` | a text buffer and a cursor | keys, save | the index of a screen position | one position, one character |
| `NETS/raw_socket_*`, `playing_with_struct` | none | build headers, print layouts | | |

`storage_live`, `server_queue`, the two multi-user servers with their clients and
`file_manager` are modelled, model-checked and proved about; the select server,
`fork_tree` and `calculater` are small enough that proofs alone settle what there is to
say. The rest is not modelled (see the end). `PROJECT.json` lists the hazards line by
line.

## Modules

* `Warehouse` - what `storage_live` promises: rooms with stock, buyers with a
  demand, and two atomic actions, `Sell` (a buyer takes all of a room) and
  `Restock` (only an empty room is filled).
* `StorageLive` - the threads of `storage_live`. `bpc`, `lpc` and `main` say where
  each thread is; `rooms`, `mutex`, `demand`, `n`, `i` are the program's variables
  of that name, `k` and `m` the loop indices of `storage_control` and of `main`.
  A step is one access to shared memory or one pthread call, so that the unlocked
  look at a room, trylock, the subtraction, the clearing and the unlock are five
  steps. `mutex[r]` is the owner of the lock. The loader's cancellation is
  deferred: `LoaderCancel` may happen in `usleep` or in a `printf` on the way, and
  leaves its locks locked.
* `RequestService` - what `server_queue` promises: a request arrives, is picked up
  (one at a time), queued, served in the order of the queue by one of a number of
  threads, and then answered or lost, once.
* `ServerQueue` - the server, its service threads, its clients and the signals.
  `exists` and `msgs` are the kernel's message queue, which survives `Exit`.
  `fdOf` is the descriptor table with the kernel's rule that a new descriptor is
  the lowest free one, so that numbers are reused. `request` is main's buffer and
  `wreq` that of each thread; a request carries its client, its descriptor and
  in `text` the clients whose messages `mtext` has parts of: nobody clears the buffer,
  and a message shorter than it (`Short`) leaves the end of what was there
  (`Overwritten`). `wqid` is a thread's `msqfd`: the queue's id or something else.
  `WorkerKilled` is the SIGPIPE of a send after a reset, which ends the process.
  `accept` takes a descriptor before it looks for a connection, so without a free one
  it fails at once, and a `connect` waits while the backlog is full.
* `EchoService` - what both multi-user echo servers promise a client: whether it has the
  turn, what the server owes it and which answers are on their way to it. `Say`, `Answer` and
  `Hear` pass the turn around, what is owed or answered may be lost (`Lose`), and only a
  failed call lets a client `GiveUp` while something is owed to it.
* `UdpSessions` - the multi-user UDP server and its clients. Server and children run
  the same code, so they are processes of one kind (`Procs`, the server is 0): a child
  that leaves its echo loop is back in the loop for requests, with a closed `sfd` if
  its `socket` failed, and otherwise with its own socket under that number (the kernel
  gives the lowest free one). `inbox` and `cinbox` are the receive buffers, `client` and
  `server` the program's structures of that name.
* `TcpSessions` - the multi-user TCP server and its clients. `fds` and `kfds` are the
  connections the server and each child have open; a child inherits all of them and
  a connection ends on the server's side with the last holder. `up` and `down` count
  messages under way; `reset` follows a connection from its first message into nothing
  to the error the sender is told and the SIGPIPE after that. `listen`'s argument,
  `ListenBacklog`, bounds the connections that wait for accept, not the clients: the
  `connect` of one more waits.
* `TwoPanels` - what `file_manager` promises, key by key: the arrow keys move the selected
  entry of the active panel around its list in a circle, Tab changes the active panel,
  Enter gives the active panel another list from its first entry on, exactly when one can
  be opened, and no other key, no failure and no key of the other panel moves anything.
* `FileManager` - the two panels. An action is one turn of main's loop: `KeyUp` and
  `KeyDown` with the whole of `CoordControl`, `Tab`, `Enter` with `ListDir` or `TryExec`,
  `OtherKey`, `Quit`; `ch` is the key and `Opens` says when Enter will list another
  directory. `y`, `sel` and `begin` are the unsigned counters `y`, `selected_obj` and
  `list_begin`, of a width `Word`; `list` is `name_list` with the types lstat gave, `work`
  is `work_dir` and `cwd` the directory the process is in. A path is an absolute name or
  the name of an entry, looked up where the process is, as the code does it. `Heights` are
  the lines a window may have when it is asked for them.
* `SelectServer` - the select server from its setup on; `rfds` is the set that select
  leaves, `client_addr` the structure that accept and recvfrom share. Clients connect,
  leave and ask at any time.
* `ForkTree` - the six processes of `fork_tree`, by the names they print; `forked` and
  `waited` say how far each is in its own list of children.
* `Calculater` - the four functions of `lib/`, for an int of any width, and the main loop
  over an input of lines: what `fgets(buff, 3, stdin)` leaves of a line is the next number,
  and at the end of the input the buffer keeps its text.
* `MCStorageLive`, `MCServerQueue`, `MCUdpSessions`, `MCTcpSessions`, `MCFileManager` - the
  values TLC uses.
* `StorageLiveProofs`, `ServerQueueProofs`, `UdpSessionsProofs`, `TcpSessionsProofs`,
  `FileManagerProofs`, `SelectServerProofs`, `ForkTreeProofs`, `CalculaterProofs` - the
  theorems.

### Undefined behaviour

It is modelled by what a build can produce.

* `struct storage` has `NUM_OF_BUYERS + 1` mutexes and the code uses `NUM_OF_ROOMS`.
  The next element lies in `main`'s frame. In the builds we ran it works as a
  lock; with the stack protector it lies over the canary and `main`'s return
  aborts (`MainReturn`, either outcome).
* `ServiceRoutine` reads `*argv` from the frame of `GenerationServiceThreads`. While
  main is in that function the value is right; afterwards it is one of `LateRead`.
* `msgrcv` is given eight bytes too many. In a build without the stack protector
  they fall on the thread's `msqfd`; `AfterOverrun` says what it may be then.
* A signed overflow in `calculater` keeps the low bits (`Wrap`).
* `triggered` is read before it is written if the first `epoll_wait` fails. In every
  build we ran it is zero, which is neither socket.

## Runs

| Run | Configuration | Question |
|---|---|---|
| `storage_live` | 2 buyers, 4 rooms (rooms 0-2 have a mutex in the structure, room 3 has not), demand 2, stock 1, deliveries of 2 | all properties of `StorageLive`, and that it implements `Warehouse` |
| `storage_live_abort` | 1 buyer, 3 rooms | violated: main ends normally |
| `server_safety` | 2 TCP clients, 1 UDP client, 2 threads, queue of 2, 2 descriptors, 1 signal, 2 starts, short datagrams, every outcome of `msgrcv`'s overrun, failing sends | the safety of `ServerQueue`, and that it implements `RequestService` |
| `server_healthy` | the same clients, one with a short message, 3 descriptors, no signal, right reads | every request is answered |
| `server_pool`, `server_sigint`, `server_leftover` | 1 client of each kind | violated: what the comments say; in `server_pool` a thread may read a wrong id |
| `udp_sessions` | 3 clients, 3 processes, buffers of 2, 1 failing call | sessions do not mix, speak in turns, have one child that stays in its loop, are answered; implements `EchoService` |
| `tcp_sessions` | 3 clients, 2 descriptors, 3 processes, forks that fail, clients stopped anywhere | one child each, turns, nobody waits for ever, children end; implements `EchoService` |
| `tcp_descriptors` | 2 clients, 1 descriptor | violated: a child has a client |
| `file_manager` | 6 directories of 3 or 4 entries, one that cannot be read, two that cannot be entered, windows of 0 and 3 lines, 3-bit counters | cursors, lists, and that every key does what `TwoPanels` says |
| `file_manager_cwd` | the same tree, all of it readable | violated: the active panel's directory is the process's |

**Bounds.** Two buyers and a loader are enough for three threads to meet in a
room, and the fourth room is the first one without a mutex of its own. One unit
against deliveries of two lets a demand end exactly and below zero. The demand is
the only bound on the run of the program, and it is the code's. In the server,
`FdLimit` 2 makes descriptors run out after one leak and be reused at once;
`QueueCap` 2 is the shortest queue in which order shows. `MaxSignals` and
`MaxStarts` bound the environment, never the program. Each client sends one
request.
In `udp_sessions` three requests overflow the server's buffer of two, and three processes
are one per client, so that a child that forks again makes fork fail. In `tcp_sessions`
the third client finds no descriptor, and the children it causes use up the processes.
`ListenBacklog` is 1 where it is 5 in the code, so that a third client meets a full backlog.
In `file_manager` the lists are as long as the window of 3 lines and longer, a
window of 0 lines is one without room for a cursor, and 3-bit counters wrap as 32-bit ones
do because a list is shorter than `Word` (`TreeAssumption`). The run covers
every sequence of keys. It has an unreadable directory above the start and two directories
that can be read and not entered: the names in one are also found from where the process
is, those in the other are not, so that scandir, chdir and lstat fail.
One message is one send: on the loopback interface it is neither split nor joined,
because each side sends only after it has received.

**Deadlock.** `storage_live` and `file_manager` end, and are checked for deadlock before
that. The servers wait for clients for ever, and `server_queue` may wait in `accept` after
a signal; their runs say `CHECK_DEADLOCK FALSE`, and `server_healthy`, `Answered` and
`NobodyWaits` show instead that no request stays.

**Symmetry.** `server_safety` identifies permutations of threads and of clients of one
protocol. All its properties are safety properties that treat them alike.

**Fairness.** Weak fairness of each thread: the scheduler runs every thread that can
run. For a buyer this says that `rand()` does not pick an empty room for ever
while another one is full. In `server_healthy` also that a client that connected
sends or leaves: `main` waits for it in `recv`, and without this assumption one
silent client keeps all others waiting. In `UdpSessions` only steps without a failing call
are fair: a process that waits for a datagram is not saved by a `recvfrom` that fails.
`Answered` therefore speaks of runs without failing calls, while `NobodyWaits` holds with
all failures of the TCP server. A thread that waits for a lock competes
with `trylock`, and weak fairness is enough because the other threads stop taking
the lock: every visit that takes something lowers a demand, and a visit that takes
nothing needs another that took something.

## Findings

* `MainEndsNormally` - `main` of `storage_live` may abort in its `return 0`
  (`error.txt` in that directory records such a run).
* `ThreadsServe` - service threads end at once if they start after the pool's
  function has returned.
* `SigintCloses` - a SIGINT that does not interrupt `epoll_wait` closes nothing.
* `QueueDeleted` - a server that fails leaves its queue, and no server can start
  until somebody removes it.
* `ChildrenHaveClients` - when its descriptors are used up the multi-user TCP server
  forks children without a client until fork fails and it exits.
* `ActiveInWorkingDirectory` - after Enter on a directory and two Tabs the file manager is
  no longer in the directory that its active panel shows: `work_dir` is the bare name of an
  entry and Tab looks it up where the other panel was.

Behaviour that is not a disagreement with the text but worth knowing: a failed send
leaks the client's descriptor (`LeaksOnlyAfterFailure` says that nothing else
does); the room beyond the mutex array is printed without a lock, so the report may
count product there that is already sold (`ReportsNoSoldProduct` holds of the rooms
with a lock); a request of a client that left or sent a short message may carry text of an earlier one
(`TextIsOwn` says when, and that it is never text nobody sent); a
client of the UDP server whose request is dropped waits for ever, and so does the child
of a client that has left; a select that fails makes the select server wait for one client
while others wait for it; `fork_tree` reports success although a fork in `child_2` has
failed and `child_2_1` still runs; `Sub` and `Mult` print a wrapped result; `calculater`
goes on for ever at the end of its input unless the text it read last begins with a 0.

## Proofs

The theorems hold for every value of the constants that satisfies the named assumptions
of the modules; the assumptions are about what the environment may be (a tree is a tree, a
queue has room for a message, nobody is called `None`).

The modules of the select server, `fork_tree` and `calculater` have no run: what there is to
say of them is proved.

The invariants that the runs check are not inductive. In each module of proofs `IInv` is
the strengthening, a conjunction of named parts, each with a comment; a lemma for each
action (or one for each part, with a case for every action) shows that it is kept, and the
theorems follow from it.

* `StorageLiveProofs`, for any number of buyers, any larger number of rooms, any demand and
  stocks. `LocksMatchVisits` needs to know where `storage_control` is in its loops
  (`ControlIndexOK`) and that no thread is created twice (`StartupOK`); `EndsServed` and
  `LoaderOutlivesBuyers` need what main's join loop has seen (`JoinOK`) and what a buyer
  knows of its demand (`DemandOK`). `Implements` is the refinement of `Warehouse`:
  `TakeIsSell` (the subtraction is the sale, because nobody else is in the room),
  `ClearIsStutter` (the room already counted as empty), `FillIsRestock`, and every other
  step leaves the warehouse as it is. `NoDeadlock` says for any number of buyers and rooms
  what the run's check for deadlock says of its instance: each thread's `...Ready` is the
  condition under which its next step can be taken, written out because `ENABLED` is out of
  the prover's reach. Main waits for a thread, `storage_control` for a lock, and whoever has
  that lock is a buyer inside a room, who waits for nobody.
* `ServerQueueProofs`, for any numbers of clients, threads, descriptors, starts and signals.
  A request is at one place (`PlacesOK`: backlog, main, queue, one thread), its descriptor is
  its client's as long as it is on its way (`FdsOK`), every open descriptor has somebody who
  will close it or a client who could not be answered (`OwnedOK`), and what epoll reported is
  still there (`EventsOK`). `DownOK` says what a crash leaves. `TextsCorrect` needs a second
  invariant, `TakenOK`: a client whose text is in a buffer has been received, and no later
  step takes that back, a crash or a restart included. `Implements` is the refinement
  of `RequestService`, across crashes and restarts. Its hard part is that the service hands
  out at most as many requests as it has threads: the threads that have one are mapped to
  their requests one to one (`PlacesOK` again), and so there are no more requests in service
  than threads, which are finitely many (`WorkersAssumption`).
* `TcpSessionsProofs`, for any numbers of clients, descriptors and processes and any backlog: who holds a
  connection (`BacklogOK`, `ForkOK`, `OwnersOK`, `KidsOK`) gives `OneChildEach`, and
  `SessionsOK`, one message or one speaker per connection, gives `InTurns`. `Implements` is
  the refinement of `EchoService`: `OwedIs` writes what the server owes as a sum of three
  places (a message under way to the child, a connection nobody greets yet, a child about to
  send), and `KidsClient` keeps a child's send from paying another client's debt.
* `UdpSessionsProofs`, for any sizes of the buffers and any number of failing calls. The
  inductive invariant is `ChildInv`, of which `IInv` is the first part.
  `SessionsApart` needs to know that the server itself never echoes and that a child that does
  not exist has received nothing (`RolesOK`). `InTurns` counts: the turns of a client are a
  finite set of places (a process or the client, and a position in its buffer), and each
  action maps the new places into the old ones (`Fewer`, `Added`, `Exchanged`, `Shifted`); a
  failed call is the only one that adds a place. `OneChildEach` needs `InTurns`: that a child
  has its client's only turn, or waits for it, is why nothing of that client is left at the
  server to fork a second child for (`ServerDone`), and who has been greeted sends to children
  only (`Greeted`). `Implements` maps the turns at the places of processes to what
  `EchoService` calls owed (`HeldOK`); it needs `SessionsApart`, because an answer to the
  wrong client is a step the service does not have.
* `FileManagerProofs`, for any tree, any heights and any width of the counters. `CursorsOK`
  relates row, index and scroll offset also in a window of one line, where the row no longer
  says which entry is selected; `Circular` is the refinement of `TwoPanels`.
* `SelectServerProofs`, for any set of clients: what one select saw lasts until both branches
  are done (`ReadyOK`), and during `sendto` the only datagram neither waiting nor answered is
  that of `client_addr` (`AddressOK`).
* `ForkTreeProofs`, whichever forks fail and in whatever order the processes run: a child not
  made yet is untouched (`UnbornOK`), and what has been waited for has ended (`ReapedOK`).
* `CalculaterProofs`, for every width of int and every input: `OverflowTest` says that the
  test of `Add` finds exactly the sums that an int cannot hold and does not overflow itself;
  `ResultsCorrect` is about what the main loop prints. `EndCorrect` says that from the end of
  the input on the text read last is every number and every command (`GoesOn`), and so
  that the program ends if that text begins with a 0 and otherwise never does.

**Model-checked only.** Liveness: `ProgramEnds`, `ControlCompletes`, `RequestsAreServed`,
`Answered`, `NobodyWaits` and `ChildrenEnd`, which TLAPS cannot prove. Every other property of
a passing run is a theorem.

## Not modelled

* In the modelled programs: sizes and contents of messages, printing, colours and the layout
  of the screen; a `pthread_attr_init` that fails, which it does
  not on Linux; a second SIGINT during the handler. In `file_manager` also what a path does
  that is too long for the name it is copied over, files that are neither regular nor
  directories, and a start in a directory that cannot be listed, which crashes the program
  at once (`StartAssumption`).
* `five_threads`: the threads of its first phase read the counter of the loop that creates
  them, which is what its comment is about; in the second each has a number of its own.
* `NETS/TCP_ECHO` and `NETS/UDP_ECHO`: one buffer for one client. What they do is the text
  in that buffer, and the UDP client sends to port 2018 while its server listens on 1414.
* `text editor`: nothing in the code keeps a cursor's index inside the buffer of 2400
  characters, and the index multiplies by the height where the width is meant, so that two
  positions may share a character. There is no invariant to state.
* The raw socket clients build headers and send them, `playing_with_struct` prints layouts:
  they keep no state.

## What could be added

A phase model of `five_threads` with the race on its counter, and the echo servers with the
text of their buffer as a sequence of parts.
