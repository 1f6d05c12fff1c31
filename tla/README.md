# dson in TLA+

`dson` is a header-only C++17 library: a `hi::Dson` is a binary object, a header
of four 32-bit words (mark of byte order, data size, key, data type) and data,
where the data may be other objects.  Programs exchange such objects through
file descriptors, shared memory and files.  This directory holds TLA+ models of
its state machines, the TLC configurations that check them and machine-checked
proofs about them.  Paths below are relative to `src/`.

## Inventory

| Component | State | Operations | Talks to | Hard part |
|---|---|---|---|---|
| Upload, `include/dson/dson.h:1060-1222` | `state_`, `offset_`, `copy_iter_`, header size | `copy_to_fd_host_order`, `copy_to_fd_network_order` | `write_to_fd`; the same call of the objects inside | resumed after any partial write; position spread over a tree |
| Download, `include/dson/dson.h:304-387` | `state_`, `offset_`, header, `buf_`, `buf_size_` | `load_from_fd` | `read_from_fd`, malloc | resumed after any partial read; size limits |
| Window exchange, `dson.h:404-486,1232-1385` | the same | `copy_to_buf_*`, `load_from_buf` | a caller with a shared window, as in `tests/dson_tools/double` | window smaller than a header; no notification between windows |
| Container, `dson.h:126-247,827-934,980-1025` | kind of storage, view or owner, map of objects | constructors, move, `init`, `clear`, `map`, `get`, `emplace`, `reset_state` | the objects inside, views into its buffer | views, stale sizes, moves, reset in an upload |
| Custom objects, `custom_dson_objs/` | as upload, own buffer | `copy_to_*`, `reset_state`, addresses | container that holds them | same protocol, other error paths |
| Byte order, `impl/dson_tools.h`, `dson.h:936-978,1478-1572` | mark in the header, bytes | conversion of header and data, table of converters | upload, `get`, `map` | types without a converter, doubles |
| Numeric converters, `from_dson_converters.h` | none | `to_int32`, `to_uint64`, `to_double`, ... | `get` | ranges |
| IPC example, `examples/ipc` | two threads, `state_` each, two pipes | server and client switches | upload, download | order of messages, blocking pipes |
| Network example, `examples/network` | route table, `write_deque`, `keep_run_` | server loop, `Router::route`, polling client | upload, download, `RAIIthread` | back-pressure, termination |
| `RAIIthread`, `examples/network/src/raii_thread.h` | `bundle_`, two mutexes | `join`, move | threads | locks in two objects |
| Streams, `dson.h:261-294,562-644` | as container | `load_from_stream`, `copy_to_stream_*` | files | copied as it came, or converted object by object; read on another machine |
| User's types, `examples/user_defined_type` | fields and a buffer for header and numbers | converters, `copy_to_*`, `to_my_struct` | container, table of converters | same protocol again, written by hand |

What makes each correct:

- *upload and download*: the reader gets exactly the objects uploaded, in order,
  whatever the sizes of reads and writes; neither ever asks the other side's
  bytes for its own; no assertion of the switches can fail; only an object
  above `MAX_DSON_RAM_SIZE` is refused; what was begun ends.
- *container*: an upload emits header and objects once, in key order; the sizes
  in the headers let `parse_buf` find every object; a reset starts over; `get()`
  finds what was put in or received last; buffers have one owner and no view
  outlives one.
- *IPC example*: each side finds its state machine where the message expects
  it; what a side handles is what it loaded; both threads end.
- *window exchange*: as upload and download, with a turn flag under a mutex.
- *network example*: every routed request reaches its service once; `stop()`
  ends the loop, and a lost connection does too.  *RAIIthread*: joined once, no
  deadlock.  *Byte order*: the mark of an object is the order of its bytes, and
  whoever reads an object, on whatever machine, gets what was put in.
  *Numeric converters*: no chain of them changes a number or refuses one in range.

## Plan

Done, most important first:

1. `MessageChannel` and `FailingChannel` (abstract channels), `FdTransfer`,
   `FdTransferProofs`.
2. `ObjectUpload` (abstract upload), `ContainerCopy`.
3. `IpcMessages`.
4. `BufExchange`, which implements `MessageChannel`.
5. `KeyMap` (abstract map), `DsonObject`.
6. `StarRouting`, whose answers are a `MessageChannel`.
7. `RaiiThread`.
8. `NumericConverters`, with doubles in network order.
9. `ByteOrder`, with streams and the converters of user-defined types.

10. Proofs: `BufExchangeProofs`, `IpcMessagesProofs`, `RaiiThreadProofs`,
    `ByteOrderProofs`, `ContainerCopyProofs`, `DsonObjectProofs`,
    `NumericConvertersProofs`.

## Modules

### `MessageChannel` and `FailingChannel`
The abstract specifications.  In `MessageChannel`, `sent` and `received` are sequences
of whole objects, and `received` always grows by the next object of `sent`.
`FailingChannel` is one until it fails: a sender may take back its last object, of
which nothing was sent, and after `Fail` nothing more is received.

### `FdTransfer`
A writer (`copy_to_fd_*`) and a reader (`load_from_fd`) at the two ends of a
descriptor.  `wState`, `wOffset` and `rState`, `rOffset`, `rHeader`, `rBuf`,
`rBufSize` are `state_`, `offset_`, `header_`, `buf_`, `buf_size_` of the two
`Dson`s.  `stream` keeps every byte ever written and `taken` how many were read,
so `stream` beyond `taken` is what the descriptor holds.  An action is one case
of a switch between two system calls; `n` is what the call moves, 0 being
`EAGAIN`.  A byte is `[msg, pos]`: the object it belongs to and its place there,
so that a byte in a wrong place is seen.  `log` and `received` record what was
uploaded and what `load_from_fd` answered `Ready` for (until `lost`, below).

Faithful details: an empty container is `Ready` straight after its header, with
`offset_` left at its end; the writer goes back to `Ready` after an error, and the
reader to `Error` on a failed read, a size outside `0 .. MAX_DSON_RAM_SIZE`, or a
failed malloc.  `write_to_fd` and `read_from_fd` answer 0 for `EAGAIN` alone, so a
signal is an error too.  Nothing keeps the callers from going on after `Error`, and
most do: `dson_ipc.cpp:72`, `:154` and `test_double.cpp:92` load again, and nobody
looks at the answer of `send_dson` in `dson_ipc.cpp:89` or `test_double.cpp:88`.  So
`BeginLoad` begins in `Error` as in `Ready`, and `BeginCopy` after a failed write.

Two history variables, which the code lacks, say what an error cost.  `torn` is the
first object of which only a part was written when the writer was told `Error`
(a write that failed before the first byte leaves nothing behind, and the object was
never sent: it leaves `log`).  `lost` says that the reader no longer stands where
objects begin: it gave up an object half way, refused one, or read on behind the part
that a torn object left.  From then on what it loads is whatever the bytes look like,
and is not counted in `received`; that both state machines keep to their parts of an
object even then is checked (`AssertsHold`).  The size a reader gets from a header
that is not one object's header is any size at all (`SizesIn`); that this never
happens before something is lost is part of what is proved.

Abstracted: the conversion of byte order (the header is decoded to the size its
sender wrote) and the contents of the data.

### `ObjectUpload`
The abstract upload of one object: between `Begin` and `End` the emitted bytes
are a growing prefix of the object's image, and `End` only happens at the whole.
The object may be edited between uploads.  Once a reset, an `emplace` or an error
in an upload disturbed it, bytes may be missing, but those that come are in the
order of the image; the next `End` heals it.

### `ContainerCopy`
The recursion of `copy_to_fd_*` over a tree of objects.  `state`, `offset`,
`iter`, `size`, `kids` give `state_`, `offset_`, `copy_iter_`, the size in the
header, and `key_to_val_map_` of every object; `stack` is the call stack of the
recursion and `answer` what the innermost call returns.  Kinds of objects:
container, a `Dson` with one buffer, `DsonStringObj`, `DsonRouteObj`, which
writes header and address as one part, and `VeryBigStruct`, which writes its
header with its numbers and then its text (`Inline` is what goes with the header,
in `BufExchange` too).  The classes treat errors differently, and so does
`WriteFails`.  `Midway` lets the caller reset or
`emplace` in an upload, `Faults` lets writes fail.  `spare` are the objects the
program has yet to make and emplace, containers with their contents among them; each
is emplaced once.

Keys are abstracted to the position in the map's order; `data_size` and `Image`
are recursive functions over the tree (`Sum` adds up a container's).

### `IpcMessages`
`empty_messages()` of `examples/ipc`.  The two switches are tables
(`ServerCase`, `ClientCase`) of what a case requires of `state_`, what it sends,
the state it sets and where control goes, the next case where `break` is
missing.  Loads and sends move any number of bytes of a message.

### `BufExchange`
The exchange of the test `tests/dson_tools/double`: a sender copies objects with
`copy_to_buf_internal` into a window shared with a receiver that calls
`load_from_buf` with the whole window.  `bufReady`, `mutex` and the waiting of the two
threads are the test's `buf_ready`, mutex and `wait_for`, whose timeouts may wake
either side at any time.  What lies in the window behind the end of an object stays
there from earlier ones.  Neither caller looks at an `Error`
(`test_double.cpp:334`): the next `load_dson` clears the object and takes the rest of
the refused one for a header.  `refused` is history: `received` counts up to the first
`Error`.

### `KeyMap` and `DsonObject`
`KeyMap` is what a program expects of a `Dson`: a map from keys to values.
`DsonObject` is how the code keeps it.  An object has `state_`, `dson_kind_`, its
own `header_`, `buf_` (a block and a piece in it), `was_buf_allocation_`, `buf_size_`
and `key_to_val_map_`; `mem` is the heap.  A view is an object with a pointer and
no allocation: its header is read through the pointer.  `Parsed`,
`OneToContainer`, `Cleared`, `Reset`, `Inserted` and `Left` are `parse_buf`,
`one_object_buf_to_container`, `clear`, `reset_state`, `insert_internal` and
`move_from_other`; the actions are the public calls.  `call` records the last call
with its answer, so that `KeyMap` says what each call must do, not just that
something may happen; the answer of `map()` is all the entries it finds.  `map()` of an
object in `Error` hands out whatever the map still holds (`dson.h:131`): after a move
those are the old objects of the target.  `KeyMap` has this as `IterateInvalid`, an
answer "leftovers" that is not said to be contents of anything, of a Dson that holds
nothing.  malloc answers the first free block, and null when there
is none.  `AnyCall = FALSE` keeps the program from calling `emplace()` and `map()`
on single objects, which is known to go wrong (below).

### `StarRouting`
`star_routing()` of `examples/network`: `main()` creates the socket and connects,
the server's thread accepts, and a failure in either ends the program.  The client
sends a request to each service and reads answers as it goes (`client_callback`),
the server loop loads, routes and queues answers in `write_deque`, the services
answer with the addresses reversed.  Sockets hold a bounded number of pieces of
objects.  With `Faults` the accepted connection may break at any time and for good:
`ClientSendFails`, `ClientLoadFails`, `ServerLoadFails` and `FlushFails` are what
each loop does then.  The client does not tell `Error` from `InProcess` and loads
again, the server's thread returns, a failed write only clears `keep_run_`.  From the client's side socket, router and services are a
`MessageChannel` of answers.

### `RaiiThread`
Any number of threads that call `join()` and move assignment on shared
`RAIIthread` objects.  `bundle`, `mutex` and the steps between locks are those of
`raii_thread.h`; `hand` is the bundle `move_bundle` took out and not yet stored.
The order of objects a thread may assign is a parameter: assignments in a cycle
lock in a cycle, and would deadlock.

### `NumericConverters`
A number read with `to_int32()`, ... and stored again as that type, any number of
times.  Widths and the precision of a double are parameters; numbers are counted
in halves so that doubles have fractions.  The range check of every case of the
five converters is one comparison with the bounds of the target, which are
themselves rounded when compared with a double.  `Upload` brings the object to
network order, which for a double is its kind, mantissa and exponent
(`ToNetwork`, `FromNetwork`, from `impl/dson_tools.h`), with infinities, NaN and
-0.0 as cases of their own; every converter brings it back first.

### `ByteOrder`
Machines of either endianness that share a file.  Of every object the module keeps
its class, the type of its data, the order its `mark_byte_order_` says and the order
its bytes really are in: "little", "big", "wire" (a double as mantissa and exponent)
or "junk".  `HeaderTo`, `ToHost`, `ToNetwork`, `StringTo`, `RouteTo`, `BigTo`,
`StructTo`, `ParamsTo`, `Converted` are the conversions of each class and type, each
with its own look at the mark and its own order of header and data.  The actions are
the calls of a program: make, `emplace`, `get` (which converts a `Dson`, and through
`address()` a route), `map`, `clear`, a copy to a stream in one order, an upload to a
descriptor whose caller may ask for another order at every call, and a load.  What
is loaded is a `Dson` whatever it was before, not parsed, and may be copied as it
came.  A container has the mark of its header and the `order` its size and type are in
beside: `clear()` keeps the header (`dson.h:157`), so a machine may put new contents
behind the mark of what it loaded before.  On a big-endian machine that may be a mark
it cannot read and never converts (`kept`); size and type are then in its own order.  Uploads are of containers without views, as the others cannot be uploaded
(below).  `made`, `asked`, `first` and `abroad` are history for the properties.

### `...Proofs`
Theorems about the module named, with the inductive invariant and the lemmas they
rest on; see below.

### `MC...`
Values of the constants for TLC.

## Runs

| Run | Question | Bounds | Result |
|---|---|---|---|
| `fd_transfer` | Does a connection deliver, also with failing read, write, malloc, and callers that go on?  Is the invariant of the proofs one? | 3 uploads of objects of 0, 2 and 3 bytes, headers of 2, descriptor of 3, limit 2 | holds until a part of an object is lost |
| `container_copy` | Does an upload of a tree emit its image, whenever it is resumed, and what survives a reset, an `emplace` or an error in it? | root with a container with an object, a string and a `VeryBigStruct`; a container with a route object and an empty string to add or to replace others; 2 uploads | holds: no byte repeated or out of place |
| `ipc_messages` | Does the IPC example finish with its states in order? | headers of 4 bytes, pipes of 8 | holds |
| `ipc_messages_order` | Does the server handle what it received? | the same | violated |
| `buf_exchange` | Does the window deliver, whatever wakes the threads, and do both go on after an `Error`? | windows of 2, 3 and 5 bytes, headers of 3: smaller than a header, its size, larger; four Dsons and a route; 3 objects sent; data of up to 3 accepted | holds |
| `star_routing` | Is every request answered once, and does the example end, also when set-up, reads and writes fail? | 3 services, 5 requests, sockets of 4 pieces, objects of 3 | holds; a connection lost before the first answer leaves `main()` waiting |
| `raii_thread` | Is every thread joined or owned, and does every call return? | 2 callers, 3 objects assigned in one direction | holds |
| `dson_object` | Is a Dson a map, and is its memory owned once and never looked into when freed? | 2 Dsons, 2 keys, 3 blocks, 6 calls | holds |
| `dson_object_first` | Does adding to a single object keep it, as commented? | 1 Dson | violated |
| `dson_object_upload` | Can the assertion in the upload of a buffer fail? | 1 Dson | violated |
| `numeric_converters` | Is a number ever turned into another, or refused in range? | 3 and 6 bits, doubles of 4 | holds, with two exceptions |
| `byte_order` | Does every object read back on machines of either endianness, whatever was done to it on the way? | one machine of each kind, 2 objects of seven kinds, 2 copies or uploads | holds, with four exceptions |

The bounds are enough because the code distinguishes only: no byte, some, all
of a part; nothing, the header, or more left; a size of zero, up to the limit,
above it.  Headers of two bytes and objects of zero, two and three have them all, in
every succession of three objects, with an error in any of them, and a descriptor of three bytes fills up
in the middle of a header and of data.  In `ContainerCopy` two levels give a resume
that passes a finished object, enters one under way and goes on to one not
begun, at both levels; two uploads show what the first one leaves behind.  In
`IpcMessages` four bytes may be cut in any way and pipes hold two messages;
pipes below two messages could block the client for ever once the server has
returned without reading, which real pipes (64 KiB) exclude.  In `DsonObject` six
calls are enough to receive a container, look into it, move or emplace it into
another, replace it and clear both, and to use up three blocks, leaked ones
included.  In `NumericConverters` 3 < 4 < 6 bits stand in the order of 32, 53 and
64, which is all the rounding depends on: the proofs are for any.  In `ByteOrder` two copies let an object
travel to the other machine and back, or twice through the same file, and two
objects give an upload in both orders; the conversions of an object never depend
on another object.

CHECK_DEADLOCK is FALSE where the program ends: after the last upload of a tree,
after `main()` closed the pipes, at the bound on calls.  `fd_transfer`,
`buf_exchange` and `byte_order` check for deadlock: a reader goes on polling, and a
loader waiting.

### Fairness
`FdTransfer`: `WriterStep` and `ReaderStep` are weakly fair: callers poll in a
loop until the answer is not `InProcess` (`send_dson`, `load_dson` of the
example and of the tests) and a descriptor with room, or bytes, moves some when
asked.  Nobody need load again after `Error` (`server_loop` does not), so
`ReaderStep` is fair in the other states only.  A step that moves no byte is a stutter, so fairness promises a byte.
`ContainerCopy`: calls and steps of a call are weakly fair; `Progress` (a write
that takes a byte) is strongly fair, since between two calls it is disabled: the
other end keeps draining.  `IpcMessages`: each thread and `main()` are weakly
fair; system calls block until they can move a byte.  `BufExchange`: the steps of
each thread are weakly fair; taking the mutex again after `wait_for`, and the load
that follows, are strongly fair, since the other side holds the mutex now and
then but always gives it back.  `StarRouting`: `main()` and both threads are weakly
fair; they poll, and block only in `accept()`, `wait()` and `join()`.  The connection
is never forced to break.  `RaiiThread`: callers inside a call and the threads being
joined are weakly fair, and the number of calls is bounded.  `DsonObject`,
`NumericConverters` and `ByteOrder` are checked for safety.  No upload is ever
forced to begin.

## Properties

`FdTransfer`: `DeliveredInOrder`, `ReaderAligned`, `AssertsHold`,
`TransferInv`, `EventuallyDelivered`, and the refinement of `FailingChannel`
(`ImplementsChannel`); `OnlyOversizeRefused` is proved.  All hold for callers that go
on after `Error`: whatever is sent before the first torn object is delivered, and a
load that failed before its first byte, or an upload that did, can be repeated
without harm.  `ContainerCopy`: the
refinement of `ObjectUpload` (`ImplementsUpload`), `ParsesBack`, `OnePath`,
`AssertsHold`, `EventuallyReady`.  `IpcMessages`: `NeverBroken`, the refinement of
two `MessageChannel`s (`PipesDeliver`), `Finishes`.  `BufExchange`: `InStep` (the
two sides agree on the byte they are at), `AssertsHold`, `ImplementsChannel`,
`EventuallyLoaded` (which includes that the sender gets every object through the
window after an `Error` of the loader).  `StarRouting`: `ImplementsChannel`, `Ends`.  `RaiiThread`:
`OwnedOrJoined`, `CallsReturn`.  `DsonObject`: `OneOwner` (no double free),
`NoDangling` (no view outlives its buffer), `HeaderTellsKind`, and the refinement
of `KeyMap` (`ImplementsMap`).  `NumericConverters`: `ChainFaithful`,
`DefaultOnlyOutOfRange`.  `ByteOrder`: `MarkTellsOrder` (no sequence of copies and
reads converts data twice, or a header without its data) and `ReadsBack` (on any
machine an object reads as it was made).  `ReadsBack` names what it cannot hold for:

- doubles between machines of different endianness: a big-endian machine's two
  marks are the same, so it never converts to or from mantissa and exponent
  (`dson.h:749`);
- text made as a `Dson` on a little-endian machine and read on a big-endian one:
  types without a converter keep their header as it was, in network order copies
  too (`dson.h:741`), and that machine cannot read it; a `DsonStringObj` converts its
  header;
- copies in the host order of a little-endian machine, which are not for others;
- containers that a big-endian machine filled after it had loaded such a copy in the
  same Dson (`Mismarked`): the old mark goes out with them, in network order copies too,
  and a little-endian machine takes their size for its own order.

## Proofs

Each module below proves its theorems for every value of the constants that its
module's assumption allows: the bounds of the runs do not matter here.

`FdTransferProofs`, for every set of objects, all sizes (zero included), every
header size above zero, every capacity, with and without failures, from
`TransferAssumption` alone:

- `Invariance`: `Spec => []TransferInv`;
- `TypeCorrect`, `InOrder`, `Aligned`, `AssertsDead`: `TypeOK`,
  `DeliveredInOrder`, `ReaderAligned`, `AssertsHold`;
- `RefusesOversize`: `OnlyOversizeRefused`, an invariant on its own given
  `TransferInv`: a complete header is that of the coming object
  (`HeaderComplete`), so the size tested is its sender's;
- `Refinement`: `Spec => ImplementsChannel`, that the connection is a channel of whole
  objects, in order, until it fails, for callers that go on after errors as they like.

`DeliveredInOrder` is not inductive: that the bytes handed over are right
depends on where the reader stands and on what lies there.  `TransferInv` adds
where each object lies in the stream (`LogOrdered`: end to end, up to a torn one),
where the writer stands (`WriterPosition`), that every byte of the stream is the byte
its place calls for (`StreamContent`, up to `Sound`, where the part of the torn
object ends), where the reader stands unless it is lost (`ReaderPosition`), and that
what it has loaded is the beginning of the object it is in (`ReaderContent`).  `BytesComing` is the heart: the bytes from `taken` on are
those of the coming object.  `StreamGrows` carries the invariant over every
write, `StoredPrefix` over every read, `Delivery` over every completed object.
For the refinement, `ReceivedSteps` and `LogSteps` show that deliveries and the
log only append, and `Delivery` that what is appended is the next object.

`BufExchangeProofs`, for windows, headers and objects of any size, from
`ExchangeAssumption`: `TypeCorrect`, `KeepsInStep`, `AssertsDead` (`TypeOK`, `InStep`,
`AssertsHold`) and `Refinement` (`ImplementsChannel`), all from `ExchangeKept`,
`Spec => []ExchangeInv`, for loaders that go on after an `Error`.  `InStep` speaks of the moments when the window changes
hands; `ExchangeInv` says what is true between them.  `ThreadInv` ties the place of
each thread to the turn flag, `SenderInv` and `LoaderInv` give what each has of its
object, and `TurnInv` is the heart: in the sender's turn the two stand at the same
byte, but for what the running call has put into the window; in the loader's turn
the window holds the object from where the loader was, up to where the sender
stands or to the object's end, and what lies behind that end is never asked for.
After an `Error` the two are out of step and the bytes may be anything; what is left
is that the loader stays within what it takes for an object (`AfterErrorInv`).

`IpcMessagesProofs`, for every header size and every capacity of the pipes, from
`IpcAssumption`: `TypeCorrect`, `SequenceNeverBroken` (`NeverBroken`) and `Refinement`
(`PipesDeliver`), from `ScriptKept`, `Spec => []IpcInv`.  That a case finds the
`state_` it wants depends on which message comes next, and that on what the other
thread has sent.  `IpcInv` lists the points each thread comes to with the number of
messages sent and loaded there (`Point`), says what is sent in which order
(`Script`), and counts the bytes under way: at most two messages, the last perhaps
in part (`Count`), each byte that of the message due (`Due`).  `NoThird` shows why
there are never three: each thread waits for the other's answer.  It holds in spite
of the missing `break`s: the server runs ahead, and so it returns while two of the
client's messages are still to be read.

`RaiiThreadProofs`, for any finite sets of objects and callers and any
assignments, cycles included, from `RaiiAssumption`: `TypeCorrect` and
`OneOwnerOrJoined` (`OwnedOrJoined`).  `RaiiInv` adds that a caller has a bundle in its
hand only between the two locks of a move (`HandEmpty`): storing would lose another.
The sets are finite because owners are counted; `CountUpdate` is what one
assignment does to a count.

`ByteOrderProofs`, for any set of machines of either endianness, any keys, objects
and copies, from `ByteOrderAssumption`: `MarksTellTheOrder` (`MarkTellsOrder`) and
`EverythingReadsBack` (`ReadsBack`), from `OrderKept`, `Spec => []OrderInv`.  `Good` is
what is true of an object wherever it is, `Local` what is true on the machine it is
on; a file and an unparsed Dson carry the order that was asked for (`AskedTells`).
`HeaderTells` ties a container's mark to the order of its size: the two agree but for
a mark that was kept on a big-endian machine.
Needed besides are facts of the history: text keeps the mark it had when it became a
`Dson`, and a double of a big-endian machine is untouched until it is abroad.  The
lemma `LeastNat` (a set of numbers has a least one) replaces induction.

`ContainerCopyProofs`, for trees of any depth and width of objects of all classes
and sizes, any number of uploads, emplaces, resets and failures, from
`CopyAssumption` (every object is in one place; a container has no data of its own) and
`FoundedAssumption` (nothing holds itself, directly or through others, which owning
pointers could not do): `OnlyOnePath` (`OnePath`) and `AssertsDead` (`AssertsHold`), from
`PlaceKept`, `Spec => []CopyInv`; `TreeTypeOK` (`TypeOK`) and `HeadersLeadBack`
(`ParsesBack`), from `Spec => []TreeInv`; and `TreeIsUpload` (`ImplementsUpload`), from
`UploadKept`, `Spec => [](TreeInv /\ UploadInv)`.

`OnePath` speaks of undisturbed uploads; to see that an upload
which ends restores it, `PathInv` says what a disturbance leaves: every container but
the root has all objects off its path `Ready` always, and of the root's those before
the iterator are, so all are when the loop ends.  `StackInv` says that the active
calls are the path along the iterators, `UnmadeInv` that every object is in one
place, from which `TopPlace` follows: the object that is changed by a step is the
one its container's iterator points at.  `TopInv` treats all steps
within a call at once.

`data_size` and `Image` are recursive functions over the tree, and what they are equal to
is proved without the library's induction theorems: `LeastOf` (a set of numbers has
a least one) gives sums along a sequence (`Chain`), `IsFounded` the functions over
the tree (`Recursion`), and both say that there is only one.  So a container's size is the
sum over its objects and their headers (`TotalsSolve`), and its image has each
object's image where the sizes before it say (`Layout`).  `SizeInv` keeps the sizes:
those of the objects an upload has entered are those of the tree as it is now, also
when the program changed what the root holds between two uploads; with it the headers
lead from object to object (`LeadsSolve`).

For the refinement the place of an upload must be one number, and it is kept nowhere:
`PastOf` computes it from `state_`, `offset_` and `copy_iter_` of the objects on the path,
each object adding what comes before the one it is at.  `UploadInv` says that what is
written fits that place (`Fits`), exactly, or after a disturbance in order and not
beyond it.  `Lift` carries an object's place in its own image to the root's, so each
step is looked at in one object only (`Advance`): its header or data, the begin of the
next object, whose stale offset must not count, the return to its container, which is
past one more object.  That no byte comes twice (`Once`) rests on nothing being below two
objects of a container (`Apart`).

`DsonObjectProofs`, for any number of Dsons, keys and blocks, any objects received and
runs of any length, from `ObjectAssumption` and `WireAssumption` (what is received is an
object or a container of objects, and data, null and maps are told apart) and for
programs without the two calls that are known to go wrong (`~AnyCall`: with them
`one_object_buf_to_container` makes a view at the header of a block that holds no pieces,
and none of it holds): `ObjectsTypeOK`, `EveryBlockOneOwner`, `NoViewDangles`,
`HeadersTellKind` (`TypeOK`, `OneOwner`, `NoDangling`, `HeaderTellsKind`), from
`StorageKept`, `Spec => []ObjInv`, and `DsonIsMap` (`ImplementsMap`).  None of the
three is inductive: a move carries views and their buffer along, and move assignment and
errors leak buffers, so that "no owner twice" is not enough to see that the next `clear()`
or malloc leaves the views of others alone.  `ObjInv` says of every Dson what its kind
stores (`Storage`), that its views look into its own buffer alone (`ViewsOwn`; in the
state `Error` they may look into a leaked one), that what it holds are single objects or
boxes of them that share no block (`Apart`), that each pointer finds in memory what the
header takes it for (`Backed`), and that no two Dsons use the same block, be it leaked.
For the refinement, `Content` of a Dson is what its map would be if it were parsed now, so
`parse_buf`, which happens in `get()` or `map()`, is a stutter; each call is shown to
change `Content` as `KeyMap` asks, and `map()` to answer all of it.

`NumericConvertersProofs`, for integers and significands of any width in the order the
real ones have (`WidthAssumption`): `NumbersTypeOK`, `NoOtherNumber`, `DefaultsExplained`
(`TypeOK`, `ChainFaithful`, `DefaultOnlyOutOfRange`), from `ChainStays`, `Spec => []ChainInv`,
which adds to the three that text stays text.  The prover knows nothing of powers of
two, so they come as numbers of subsets (`PowCounts`, from the library's `FS_SUBSET`),
and induction is over the set of the numbers shown so far (`LeastOf`, `Induction`).  On
them rest the facts of floating point: rounding goes to a multiple of the distance of
doubles (`RoundBy`), stays within powers of two (`RoundBound`), done twice is done once
(`RoundTwice`), leaves a double that was truncated one (`TruncDouble`), and takes
the bound of `uint64_t` to 2^64 (`LongMax`); mantissa and exponent give back the double
(`ScaleBack`, `NetworkAndBack`); a cast in range wraps nothing (`WrapKeeps`).
`ImagesClosed` puts them together: the images of a number are closed under every
conversion.

Model-checked only:

- liveness (`EventuallyDelivered`, `EventuallyReady`, `Finishes`, `EventuallyLoaded`,
  `Ends`, `CallsReturn`), which the prover cannot treat;
- `DsonObject` with the calls that `AnyCall` allows, which the two violated runs are about;
- `StarRouting`.

## Disagreements between code and documentation

1. The server of `examples/ipc` has no `break` after `AlarmEnemyDetected` and
   `EnemyDestroyed` (`dson_ipc.cpp:105`, `118`), so it handles messages before they
   arrive, in spite of the state that is to guarantee their order (`:68`).  Run
   `ipc_messages_order`.
2. `emplace()` or `map()` on a Dson with one object loses that object:
   `one_object_buf_to_container` (`dson.h:879`) makes a view whose header is the
   data, although the comment (`:867`) wants the object in the map.  Run
   `dson_object_first`.
3. The views that `parse_buf` makes have `buf_size_` 0, so after a `get()` or
   `map()` on a received container its upload fails at the `assert(false)` of
   `dson.h:1180`.  Run `dson_object_upload`.

Met on the way, and not the subject of a run of their own:

- `reset_state()` (`dson.h:687`) leaves the objects of a container in the middle of
  their upload, although `impl/dson_obj.h:95` says that the iteration goes back to
  its beginning: the next upload answers `Ready` with bytes missing, and only the
  one after it is whole.  `ImplementsUpload` has this as `disturbed`;
- network order is "to keep in a file or to send" (`impl/dson_obj.h:29`), but a copy
  in it keeps the mark of what was in the Dson before if a big-endian machine could not
  read that: `clear()`, and a load of an empty container with `emplace()`, leave the
  mark, and `header_to_network` (`dson.h:967`) converts it with `htonl`, which changes
  nothing there.  A little-endian machine reads size and type in the wrong order, and a
  big-endian one, which looks at neither mark, reads them right.  `ReadsBack` has this
  as `Mismarked`;
- a client that cannot send returns without giving `can_finish_promise` a value
  (`dson_network.cpp:149`), and `main()` waits for it for ever; `Ends` names the case;
- `VeryBigStruct::copy_to_fd_host_order` (`advanced.cpp:92`) begins whenever `offset_` is
  0, not when the state is `Ready`: after an upload `offset_` is the end of the text
  and the next one in host order is refused with `Error`, and a write of the whole
  header but no text starts over.  `copy_to_buf_local` (`:258`) has a parameter
  `buf_size` that hides the size of the buffer.  The examples use neither;
- an empty `DsonStringObj` fails the assertion of
  `custom_dson_objs/dson_string_obj.h:224`; `AssertsHold` of `ContainerCopy` leaves
  it out;
- `move_from_other` (`dson.h:982`) asks whether the target, not the source, is a
  view, so that a moved view shares the buffer that `dson.h:36` says is copied;
- move assignment (`dson.h:1017`) loses the buffer of its target, which is what
  keeps the views handed to the source alive;
- a container in a received container is parsed as empty, since its view has
  `buf_size_` 0 (`dson.h:837`);
- `to_int64` of a double compares with the bound of `int32_t`
  (`from_dson_converters.h:234`), and `to_uint64` of the double 2^64 passes its
  check and is undefined (`:183`); both are in `NumericConverters`.

## Not modelled

- Dsons that are views held by the program (`Dson(char *)`), with the move of such a
  view (`dson.h:982`): what goes wrong is the end of a buffer of the caller's, which
  no call of the library reports.
- What a caller does with an object it believes it received after an error: the
  models say only that nothing of it is what was sent.
- Assignments of `RAIIthread` objects to each other in both directions at once: locks
  are taken in opposite order (`raii_thread.h:66`) and the two callers would wait for
  each other.  The example assigns in one direction, and so does the run.
- Containers in received containers, which the code parses as empty, and malformed
  buffers.
- In `ByteOrder`, reading or changing a container while an upload of it is under way;
  `ContainerCopy` has the positions of such an upload, without the order.
- `VeryBigStruct` in host order to a descriptor and to a window (above).
- End of file: `read_from_fd` answers it like `EAGAIN`, a read of no bytes, which is
  a stutter.
- `to_string` and `to_string_view`, the output of the examples, `double_to_network` and
  `double_to_host` (never called).
- The type registry and the headers of the operating systems (no state); those of
  Windows and macOS have no `write_to_fd` that differs in behaviour.
