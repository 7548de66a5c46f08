# Verification of the trusty sample applications

This directory holds TLA+ models of the applications in this repository, the TLC
configurations that check them on small instances, and TLAPS proofs of the safety properties
for instances of every size. The repository is a collection of applications for the Trusty
environment. Each is a process with one thread; they meet through the kernel's
IPC: ports that are connected to, channels with a bounded number of messages, and events
(`HUP`, `MSG`, `SEND_UNBLOCKED`, `READY`) that a process waits for. The kernel and the
libraries (`lib/tipc`, `lib/hwkey`, `lib/spi`, BoringSSL) are not in the repository; they
are modelled from how the code here uses them and marked external in `PROJECT.json`.

## 1. Inventory

| component | state | operations | talks to |
|---|---|---|---|
| hwkey service, `hwcrypto/hwkey_srv.c` | one `hwkey_chan_ctx` per session; the global list `opaque_handles`; the installed table `key_slots`; the request buffer `req_data` | connect, `GET_KEYSLOT`, `DERIVE`, hang up | any allowed application; hwaes redeems handles; draws tokens from the hwrng provider |
| hwkey fake provider, `hwcrypto/hwkey_srv_fake_provider.c` | constant tables: clients, slots, readers | slot handlers, `derive_key_v1`, the handlers of opaque and derived slots | called by hwkey |
| hwrng service, `hwcrypto/hwrng_srv.c` | one `hwrng_chan_ctx` per session (`req_size`, `send_blocked`); the list `hwrng_req_list` | request, split reply, block and unblock, hang up | any application |
| hwrng fake provider, `hwcrypto/hwrng_srv_fake_provider.c` | one counter modulo 256 | draw n bytes | hwrng and hwkey, in one process |
| keybox service, `hwcrypto/keybox/srv.c` | one `keybox_chan_ctx` per session | `UNWRAP`, hang up | provisioning applications |
| keybox unwrapping, `hwcrypto/keybox/keybox.c` | none | `keybox_unwrap` | keybox service |
| event loop, `hwcrypto/main.c` | the handlers behind each handle's cookie | wait for an event, dispatch, start the services | the three services |
| hwaes service, `hwaes/main.c` | one cipher context | `hwaes_aes_op` | a client of hwkey |
| hwbcc service, `hwbcc/main.c` | none of its own | start a library service | hwkey through a library |
| software SPI, `spi/swspi-srv/` | per device a command sequence; per bus an owner | begin, request, commit, abort | an SPI server library |
| app-mgmt-test | a test client with three channels, six small servers with a port each or three, and the queue of every port | start on connect, exit, restart, wait for a port, close and reopen a port | the kernel's application manager |
| memref-test | the lender's page and its three references; the client's mapping | lend, read, write, exit; map and touch | each other; the receiver with an Android program |
| secure_fb mock | frame buffer, its mapping and its handle | init, get, display, release | secure_dpu and secure_fb libraries |
| the other test programs and templates | nothing shared | - | - |

What is hard here, and what the properties are aimed at (`PROJECT.json`, "hazards", has
each with its line):

* **Interleavings of clients.** hwkey keeps one list for all sessions. A handle is created by
  one session, redeemed by another application's session and must go exactly when
  its own session goes. Contexts are freed and their addresses come back for strangers.
* **Failures in the middle of a handler.** The token source fails after the entry is in the list,
  the reply cannot be sent after the entry is complete, `accept` succeeds and `set_cookie` does not.
* **Order within one event.** `HUP` and `MSG`, or `SEND_UNBLOCKED` and `MSG`, come in one event or in
  two; a bit that is handled in the wrong branch is lost.
* **Flow control.** A channel has one buffer. hwrng parks a blocked client and relies on one wake-up;
  hwkey and keybox close the channel instead.
* **State that is shared without a trace of it in the interface**: the buffer `req_data`, which keeps
  what earlier clients sent, and the fake source's counter, which hwrng's clients move.
* **Boundaries**: zero bytes in a token, a claimed length that wraps, an empty keybox.
* **Something must eventually happen**: replies, the end of sessions, the end of the loop that draws a token, and the many
  waits with `INFINITE_TIME` in the tests.
* **Processes that come and go.** A server exits, is started again by a queued connection, or fails to start, while clients
  connect, wait and leave; `leak_creation` reconnects to a lender that is about to exit.
* **Start-up that half fails.** Three services in one process, started one after the other, with results that are not looked at.

## 2. Modules

| module | models | used by |
|---|---|---|
| `IntrusiveList` | `lib/list`: the first match, and deletion while walking | `HwKey`, `HwRng` |
| `HwKey` | the hwkey service | `MCHwKey`, `HwKeyProofs` |
| `OpaqueHandles` | what hwkey promises: a table from slot to (owner, token) | `HwKey` (refinement) |
| `HwKeyFakeProvider` | the fake provider's tables | `MCHwKey` |
| `HwKeyToken` | tokens and `req_data` byte by byte; the fake random source | `MCHwKeyToken` |
| `HwRng` | the hwrng service | `MCHwRng` |
| `Keybox`, `KeyboxUnwrap` | the keybox service; `keybox_unwrap` on bytes | `HwCryptoMain`, `MCKeybox`, `KeyboxProofs` |
| `HwCryptoMain` | `hwcrypto/main.c`: start-up and event loop around the keybox service | `MCKeybox` |
| `HwAes` | hwaes as a client of hwkey: extends `HwKey` with the steps of `hwaes_aes_op` | `MCHwAes`, `HwAesProofs` |
| `SwSpi` | the software SPI driver and the library that calls it | `MCSwSpi`, `SwSpiProofs` |
| `AppManager` | ports, connections and applications as the kernel manages them (external) | `AppMgmt` |
| `AppMgmt` | the servers of app-mgmt-test | `AppMgmtTests` |
| `AppMgmtTests` | the test client, or free clients, composed with the servers | run as it is |
| `Memref` | the lender, and the test client or a free client | run as it is |
| `HwKeyProofs`, `HwKeyRefinement`, `HwKeyTokenProofs`, `HwRngProofs`, `HwAesProofs`, `KeyboxProofs`, `SwSpiProofs`, `MemrefProofs` | theorems | TLAPS |

### Conventions

*A handler is one step.* `main.c` waits for one event, runs its handler to the end and waits
again. Nothing of the process runs in between; what the clients and the kernel
do meanwhile cannot be told from doing it before or after, because a handler looks at each channel's
state once (a reply finds a buffer or not).

*A channel is a handle together with its context.* Both are created by one `accept`, freed by one
`close`, and reused. `st[c]` is `free`, `connecting`, `open` (the service has a
context) or `closed` (the service has closed it, the client still holds its end and can read
what was queued). `hup[c]` says that the client has closed its end and the service has not noticed.

*Events.* `Pending(c)` are the bits that hold for a channel. A handler gets any non-empty subset: an event
was fetched at some earlier moment and bits only come, never go, until the service acts. Fairness
is for the handler with all pending bits, which is what `wait_any` returns once nothing new happens.

*Failures* of `calloc`, `accept`, `set_cookie`, of the random source and of the KDF are
nondeterministic choices at the place where the code tests for them.

*Names* are those of the source. Definitions whose name ends in a suffix such as `_keeps_handles`
and whose comment starts with "Mutant" are wrong variants of the definition that follows them;
they are there to show that each property notices a plausible bug.

### HwKey

State: `st`, `uuid`, `hup`, `inq`, `outq` for the channels, `opaque_handles` (a sequence of slot, owner
and token, in list order), and `await`, the client's own count of unanswered requests.
`hwkey_port_handler`, `hwkey_chan_handler`, `hwkey_chan_handle_msg` and `hwkey_ctx_close` are actions;
`insert_handle_node`, `get_key_handle`, `get_opaque_key`, `handle_slots`, `derive_key_v1` are
operators that return the set of possible results (list, status, payload). A key is represented by
its slot and a derived key by the identity it is salted with: what matters is who gets what. Tokens are
model values here; `HwKeyToken` shows why that is right.

### HwKeyToken

One request at a time, on bytes: `get_key_handle`'s loops step by step (`GetKeyHandleDraws`, then `GetKeyHandleCopies` for each byte
of `random_buf`, which drops zero bytes and writes the others from the start of the token, then `GetKeyHandleRoundEnds`: done, or drawn
again over what the round before has left), the bytes that each kind of request leaves in `req_data`, and the
comparison over the full handle size. A byte of `random_buf` is chosen when the loop looks at it, which it does once. The random source is chosen at the start (`source`): any bytes, or the fake provider's counter, which
the model shares with hwrng's clients as the code does. The counter comes round after as many bytes as there are byte values, so that
tokens from the fake source repeat once hwrng's clients have drawn enough in between; that tokens of two handles differ is
therefore not a property of this repository but something `HwKey` takes from a real source.

### HwRng

State: the channel state, `req_size`, `send_blocked`, `hwrng_req_list`, and `unblock`, the kernel's side of
`SEND_UNBLOCKED`: armed by a send that finds no buffer, raised when the client reads. Every
handler ends with a pass over the list, so `hwrng_chan_handler` includes it. Entries of the list do not
influence each other during a pass, so the pass is one simultaneous update in which any subset may fail.
Sizes are `size_t` (`% SizeMod`).

### Keybox

`keybox_chan_handler` handles the message first and then looks at `HUP`, as the code does;
`keybox_handle_unwrap` has the three checks of the claimed length with 64-bit wrapping. A context
that is shut down twice is recorded in `heap`, after which the service does nothing.

A byte is the set of the bits that are 1 in it, so that `^` is the symmetric difference and what the loops compute can be proved as well as
checked. `XorLoop` is the loop over the bytes. The reference wrapping does without it: bit b of the checksum says whether an
odd number of the bytes have bit b.

### HwCryptoMain

`at` is where `main` stands: `hwrng_start_service`, `hwkey_init_srv_provider`, `keybox_start_service`, the loop, or stopped. Each
start may fail as the code allows: hwrng and keybox end the application, hwkey's failure is only logged, its
self test aborts. hwrng and keybox do not look at `set_cookie`, so a port may be left without a handler ("mute");
`dispatch_event` closes such a handle at the first event. The keybox service runs in full behind the loop;
for hwkey and hwrng there is the port and a client that connects or waits for it. `Stop` is the end of the process
(a failed start, `abort`, `wait_any` failing): the kernel closes all handles.

### HwAes

The composition of two processes. `hwaes_aes_op` is cut into steps where it blocks on hwkey: it opens a session
(`OpOpensSession`), sends the handle once hwkey has accepted (`OpAsks`), gets the reply or finds the channel closed
(`OpGetsReply`), closes the session and finishes (`OpCloses`); a call that fails its checks or brings its own
key is one step (`OpWithoutSession`). Between these steps hwkey serves its other clients, and the owner of the
handle may leave. hwaes acts on its channel with the client actions of `HwKey`; all other channels have any
client that `HwKey` allows. The history variable `named` collects the slots the handle has named since the
operation began, and `missed` records whether at some time since then it named none that hwaes may use. The decisions of the function (`CheckArgs`, `CheckHandle`, `CheckMode`, `RunCipher`)
are operators over the lengths of the arguments; any EVP call may fail, and the last one
does for a tag that is not right. Which clients may use hwaes is decided in a library.

### SwSpi

Driver state as in `swspi.h`: for each device the array of commands with `num_cmds` and `curr_cmd`, for each bus its
owner; and which entries have memory of their own. The five `spi_req_*` functions differ only in
what they store and are one operator; the `exec` functions are the cases of `spi_req_exec`. A failed assertion, or a
write past the end of the array, sets `failed`. `digest` and `rand` are abstract: the test device's answer
is determined by the digest of what was sent, the loopback device's is what was sent.

The caller, `lib/spi/srv`, is external. The model has it do what the driver's assertions require and
`swspi-test.c` expects: it begins a sequence for each batch, refuses a chip select command that does not change chip
select, may refuse any command, refuses to leave chip select asserted on a shared bus, and commits or aborts. Chip select of a
device on a dedicated bus may stay asserted from one batch to the next.

### AppManager, AppMgmt, AppMgmtTests

`AppManager` is the kernel: `ports` that exist, a `queue` of connections for every port (pending if the port exists, waiting
if not), the client's ends `conn`, the servers' accepted channels `chan`, and for every application where it stands (`pc`). It has one operator per call
(`Connect`, `Accept`, `Close`, `Exit`, `Load`). When a start port is closed its pending connections wait again; when another port is closed they
are hung up. An application is started when it is loaded (unless its start is deferred), when somebody
connects to its start port, and at its exit if it is to be restarted or a connection to its start port is left.

`AppMgmt` has one action per server. `port-start-srv`'s main is cut where others can notice: each `prepare_port`, the wait on
`port_hset` with `accept`, each command, and the closes at its end one by one. `faults` bounds how many of its calls fail; `prepare_port` may
fail before its port exists or after, when the port is closed again. `port-waiter-srv`'s closes are steps of their own too. The calls of the other
servers do not fail: these servers run only under the test suite, and a test is right to fail when its server has no memory.

`AppMgmtTests` has the tests as sequences of calls with the result the assertion after each wants, built from the
same helpers as in `client/main.c` (`load_app`, `establish_unhandled_channel`, `wait_and_exit`, ...); `TestStep` makes the next
call. After the last test the first begins again, as in the stress test. The timeouts (`EXPECTED_TIMEOUT_MS`) and
sleeps (`WAIT_FOR_APP_SLEEP_NS`) are chosen by the tests' authors so that the servers settle meanwhile; they end
when no server can take a step (`Quiet`). All other waits have no end of their own, also the few with `UNEXPECTED_TIMEOUT_MS`, so that `TestsEnd`
shows that the timeout is never needed. With `test = 0` the client is replaced by two
free ones that connect to any of the three ports, send any command, read and close at any time.

### Memref

The lender is `off`, in `init`, or serves events in the order they came (`events`), as the tipc library's loop does. `lender_on_message`
has a case for each command; a handler that fails closes the channel. Its manifest does not defer its start, so that it begins in `init`. `LENDER_PORT` is a start port: `Exit` starts
the lender again if a connection is queued. `page` is the page behind the reference: the lender's `bss_page`, which the client
changes by `poke` while it holds the reference. `touched` are the bytes the last request made the lender read or
write; offsets and sizes are `size_t` (`SizeMod`). The client is the two tests that use the lender, in turn, or any sequence of the
same calls with any arguments.

## 3. Runs

Passing runs check for deadlock too, except `keybox_service`: there the application may stop.

| run | instance | shows |
|---|---|---|
| `hwkey_safety` | 2 channels, 4 applications (one not allowed), slots of every kind, 2 tokens that may collide, all failures | the list is consistent with the sessions, keys only reach those who may have them, no request is lost, a handle lasts as long as its session, and hwkey implements `OpaqueHandles` (derived keys are asked for in `hwaes`, and are in the theorem `Authorised`) |
| `hwkey_token` | tokens of 3 bytes over 3 values, the fake source and any source, every request of up to 4 bytes | tokens are strings of full length; stale bytes in `req_data` never decide; the drawing loop ends with the fake source |
| `hwrng` | 2 channels, messages of 2 bytes, requests of 0 to 3, `size_t` of 4 values; one client has at most 2 bytes outstanding, the other 5, so that its `req_size` wraps around | no byte is sent twice or lost but by wrapping, no wake-up is lost, the list is sound, and the first client always gets its bytes |
| `hwrng_large` | the same, with a `size_t` that does not wrap | **violation**: the second client does not get the rest of its request |
| `keybox_service` | the application from its start, every failure; 1 keybox channel, wrapped keyboxes of up to 2 bytes, the same with one byte changed, wrong lengths, headers and commands; one client each of hwkey and hwrng | every reply is right for its request, `keybox_unwrap` inverts the reference wrapping and detects tampering; sessions end; connections to a port are accepted or hung up |
| `keybox_shutdown` | 1 channel, one request | **violation**: a context is shut down twice |
| `hwaes` | 2 channels, the owner of the opaque slot and hwaes, 1 token, operations with a handle, with a slot's name and with an unterminated text; the other clients send every command | hwaes uses the key that the handle names or none, closes its session on every path, is refused only when the handle could not be redeemed at some time of the operation or the key could not be retrieved, and every operation ends; requests are answered or the channel closed; handles of a client that left are dropped |
| `hwaes_args` | no channel; every combination of padding, mode, direction, key, text, iv, aad and tag lengths around their limits | operations are accepted exactly as the reference table says, and no wrong tag is |
| `swspi` | a shared bus with 2 devices, a dedicated one with the loopback device, all batches of up to 3 of 8 commands | no assertion of the driver fails, no memory leaks, batches are all or nothing and received data is in order |
| `appmgmt` | all 20 tests, round after round; or 2 free clients with queues of up to 2 and 1 failing call | no assertion of the tests fails, no test hangs, every connection to the start port is served in the end |
| `appmgmt_shutdown` | the same without failing calls | **violation**: a connection to `SHUTDOWN_PORT` is not noticed |
| `memref` | a page of 3 bytes, `size_t` of 4 values, writes of 1 byte, 1 failing start; the 2 tests in any number of rounds, or a free client | the mapping and the lender see the same bytes, nothing outside the page is touched, the client never waits for ever |

Why the bounds are enough. Two channels give every pair of sessions: owner and reader, two sessions of one
owner, a stranger; for more sessions the invariants and the refinement are theorems, while liveness is checked for two. A queue holds one message because the ports are
created with one buffer. Two tokens allow both a collision and two distinct handles. For hwrng the message
size is two so that requests below, at and above it are small; two channels are enough for liveness because
entries of the list do not interact except through their order and removal; the invariants are theorems for any number. Sessions of keybox share nothing at
all, so one is enough; its buffers are on the stack. Token bytes: zero, and two
values that are not, tell apart everything the loop and the comparison tell apart; the theorems cover every size and every range of bytes. For hwaes one channel is the
owner's and one is hwaes's, and each can become the other's when it is reused; the theorems cover any number.
The tests of app-mgmt have at most three connections and end each round with no server running, so their part of the state space is finite without a bound.
Two free clients are enough for one that is served and one that waits behind it, or two that wait, one of them closed. A page of three bytes and sizes below four have regions inside, at the
end of, past the end of the page, and ones whose end wraps. Three
SPI commands are enough to assert, transfer and deassert, and to fail at the first, a middle and the last one; longer
batches are covered by the theorems. `swspi-srv.c` says that its shared bus only pretends to have a second device;
the run gives it one, so that the devices of a bus could get in each other's way.

Fairness. Only the service is assumed to make progress, by weak fairness of each channel's handler:
`main.c` loops over `wait_any` for ever, a bit stays set until its channel is handled, and the kernel returns
the ready handles in turn. Clients are never assumed to read, send or hang up. In `HwKeyToken` the
steps of the drawing loop are fair because nothing else runs. In `hwaes` the steps of an operation that has begun
are fair as well: hwaes is a process of its own that is scheduled, and each step waits for hwkey and nothing else. In `HwCryptoMain`
each call of the start-up is fair (the process is scheduled) but nothing says how it ends. In `AppMgmtTests` and `Memref` every server and the test
program are processes and fair one by one; free clients are not. `ConnectionsServed` is stated for runs in which the server does not serve
one channel for ever and in which `CTRL_PORT` is left alone from some time on: it takes one connection at a time, and of two ready
ports `wait` may return either. `ShutdownObeyed` likewise leaves out clients that never stop sending commands.

### Findings

* `keybox_shutdown`. `keybox_chan_handler` calls `keybox_shutdown` for `HUP` and again when the message
  failed. An event with both bits has a reply that cannot be sent, so both happen and a freed context is
  used and freed again. (`keybox_service` shows what does hold of the same handler; that it takes a client which leaves with
  replies unread is the theorem `PatientClientsSafe`.)
* `hwrng_large`. `hwrng_kick_req_queue` drops the result by which `hwrng_handle_req_queue` says
  that something is left to send. The rest of a request larger than one message waits until another event
  happens. To a client with at most one message outstanding the service keeps its promise (`hwrng`).
* `appmgmt_shutdown`. `client/main.c` says of port-start-srv that it exits on a connection to `SHUTDOWN_PORT`, and the fixture's `SetUp` waits
  for that without a timeout. The port is only in `mixed_hset`, which is not waited on before a channel has been accepted. A client that
  connects to `START_PORT` and leaves before the port exists starts a server that then waits for another
  connection there; one to `SHUTDOWN_PORT` stays pending. The tests themselves always leave the server stopped (`appmgmt`).

## 4. Proofs

### hwkey

`HwKeyProofs` proves, for every set of channels, every table of slots, every set of requests and of tokens:

| theorem | says |
|---|---|
| `Invariance` | `Spec => []Inv`, the inductive invariant |
| `TypeCorrect` | `TypeOK` |
| `OnlyClients` | only listed applications have sessions; a reused channel starts empty |
| `LiveOwners` | no handle outlives its session |
| `ListWellFormed` | one entry for each slot, no empty token: `get_opaque_key`'s assertion holds |
| `LiveTokens` | no client reads the token of a dead handle while its session is open |
| `Authorised` | keys are sent only to the applications their slot is meant for |
| `HandleLifetime` | the action property `HandleEndsWithItsSession` |
| `RequestsKept` | `NoLostRequest`: what the client waits for is queued as a request or as an answer |

Assumptions, all in `HwKey` and evaluated by TLC in every run: the slot table is a sequence of slot records,
requests are well formed, the allowed clients are identities, and a token is neither empty nor the name
of a slot (31 non-zero bytes; no name in the provider has exactly 31).

The argument. `Inv` is the conjunction of the type invariant and the five invariants, with one addition: every entry's slot has
the handler `get_key_handle`. None of the parts is inductive alone. That a token in flight is
live needs that handles go only with their owner's session; that owners are live needs that a slot's entry is
found again rather than added twice, which is the list's well-formedness; that a key goes to the right
application needs the slots of entries to be opaque slots. The proof first shows what a
request can do (`RequestIsGood`: the list stays well formed, is extended only by the requesting session, and
the payload is one the caller may have), from a lemma about each operator, and then treats the
kinds of step: a step that leaves the list alone (`QuietStep`), an answer (`AnswerStep`), a close
(`CloseStep`). What deletion from an intrusive list leaves is the lemma `KeepingEnumerates`. The same step lemmas give the action property.
`RequestsKept` needs one thing more (`Owes`): a channel that is free or connecting owes no answer, so that a
session starts with an even account.

### hwkey implements its table

`HwKeyRefinement` proves `Refinement`, `Spec => ImplementsOpaqueHandles`: every step of hwkey's handlers and clients is a step of `OpaqueHandles`
or leaves it alone. The mapping takes an open channel to a session, the replies to their data (errors are not seen), and the
list to a function from slot to owner and token, which it is only because of `Inv`. `Explained` says in full what one request may do:
issue a handle for a slot that has none, redeem a token, send the client's own key, derive one, or nothing (`RequestExplained`).
`TableWith` and `TableWithout` carry the two changes of the list over to the table, whatever the order of its entries. `SessionEnds`
is the interesting step: one pass over the list with deletion while walking is one step of the table that takes back all handles of the session.

### Tokens

`HwKeyTokenProofs` proves, for every handle size, payload size, range of bytes, set of requests and random source:

| theorem | says |
|---|---|
| `AllTokensAreStrings` | `TokensAreStrings`: no zero byte before the terminator, after any number of rounds that fell short |
| `LookupsByText` | `HandlesFoundByText`: a request finds exactly the handles whose text it carries |

Assumptions, in `HwKeyToken`: a handle is not longer than a payload may be (`MaxPayload`), which is what keeps the comparison inside the buffer, and
requests are sequences of at most `MaxPayload` bytes. `TokenInv` says that one token at most is being written, that the current round has filled
its first `token_offset` bytes, and that the terminator is untouched; a token that is only partly overwritten keeps bytes of the round
before, so nothing can be said of the rest until the round is complete. `ComparesText` is the lemma for the lookup: a request shorter than the
text of the token differs at its own terminator, one that is as long has the terminator where the token has it, and a longer one is
compared on its own bytes; so no byte from an earlier request is ever the one that decides.

### hwrng

`HwRngProofs` covers any number of sessions, any message size, any width of `size_t` and any requests.

| theorem | says |
|---|---|
| `Invariance`, `TypeCorrect` | the inductive invariant `Inv` and the types |
| `ListConsistent` | `ReqListConsistent`: no context twice in the list, none that was freed, none idle |
| `WakeupsKept` | `NoLostWakeup` |
| `ModestServed` | `OnlyBlockedRequestsWait` |
| `AllBytesConserved` | `BytesConserved`: no byte is sent twice or unasked; what is lost is a multiple of `SizeMod` |
| `OwnBytesConserved` | a client with less than `SizeMod` bytes outstanding gets exactly what it asks for, whatever the others do |

That bytes may be lost is not a convenience: `req_size += req.len` is not checked, so a client with 2^32 bytes outstanding on a
32-bit build loses some. The two theorems say how far that goes: it harms that client only, and never sends too much. The run `hwrng` reaches such states.

The argument. Every handler changes something and then makes a pass over the list (`hwrng_handle_req_queue` for each entry), in which
any entry may be sent to, blocked, or fail and be closed. `Ready` is what holds between the two: the invariant for all sessions but those the handler has
closed, stated of the values that the pass is given. `PassStep` shows once that a pass from `Ready` restores `Inv` (and what only
a pass can establish, that modest clients in the list are blocked); `CloseStep`, `MessageStep` and `ChanHandlerStep` show that
each way through the handler ends in `Ready`. The parts depend on one another: that a wake-up is coming for a blocked session needs that the
buffer is occupied exactly then, which needs that each queue holds one message; the account of bytes needs that contexts outside the list have `req_size` zero, and that what wrapping loses adds up (`Wraps`, `WrapsAddUp`).

### hwaes with hwkey

`HwAesProofs` is about the composition, again for any number of channels, slots, tokens and operations.

| theorem | says |
|---|---|
| `HandlesUnderHwAes` | a handle still lasts exactly as long as its session when hwaes is a client; likewise every other theorem above, by the lemma `HwKeyWithAes` |
| `TableUnderHwAes` | and hwkey still implements `OpaqueHandles` |
| `RefusedForAReason` | `RefusalsAreDue`: once hwkey has accepted the session, an operation is refused only if the handle was not redeemable at some time since it began or a named slot's key could not be retrieved, and hwkey never hangs up on its request |
| `SessionsGivenBack` | hwaes holds a session only during an operation |
| `RightKey` | an operation with a handle is run with a key that the handle named meanwhile and that is meant for hwaes |
| `ResultsRight` | `ResultMatchesReference`, for every length of key, text, iv, aad and tag |

Added assumptions, in `HwAes`: hwaes owns no slot of the provider's table (true of `_keys`; otherwise the text of a handle
could be taken for a slot's name), the operations are well formed, and what they pass as a handle is a request that
clients may send.

The argument. `AesInv` says that the channel of an operation in progress is held by hwaes and not hung up, and
that no other channel is; with it each step of hwaes is a client step of `HwKey` (`StepIsClients`), so that
`Inv` is kept by `NextInv` of `HwKeyProofs` without looking at hwkey again. `KeyInv` follows the request: hwkey leaves the session
open once it has accepted it (`AcceptsAes`); on the channel there is the one request, with the operation's handle, or the one reply to it, and
nothing else; the reply is a key of a slot in `named`, or an error that `missed` or a failed retrieval accounts for
(`HandleAnswer`, `AnswersAes`, `ReplyStaysGood`); and `named` and `missed` cover what the handle names at present. Others cannot touch these queues (`OthersQueues`). That the queues are empty
when the session is opened is `OnlyClientsServed` of hwkey: without it a reply meant for the
channel's former user could be taken for the key. `ResultInv` carries the outcome of the early checks over the steps in which hwaes waits for hwkey;
`ArgsChecked`, `ModeChecked` and `CryptRight` compare the checks, in the order in which the code makes them, with the reference table.

### keybox

`KeyboxProofs` is about the whole application, `MainSpec`, for any number of sessions, any messages and keyboxes of every length.

| theorem | says |
|---|---|
| `UnwrapInvertsWrapping` | `keybox_unwrap` succeeds exactly on what the reference wrapping gives, and returns what was wrapped |
| `WrappedKeyboxUnwraps` | every keybox that fits the buffer comes back from being wrapped |
| `Invariance` | `MainSpec => []Inv`, the inductive invariant |
| `RepliesInStep` | `RepliesMatchRequests` |
| `TamperingNoticed` | `TamperDetected`: no plaintext for a keybox of which one byte was changed, whichever and however |
| `PatientClientsSafe` | with clients that hang up only when they have read all their replies, no context is freed twice |

Assumptions, in `Keybox`: a request of the greatest size is smaller than 2^64 (`SizesAssumption`), and the port takes no message longer
than its buffer (`MessagesAssumption`).

The argument. That the loop computes the parity of each bit is an induction over the bytes. The prover cannot use the library's induction
rule, but it can use that a set of natural numbers has a least element (`LeastNatural`, from the library's facts on well-founded relations, which take sets):
the least round at which the checksum is not the parity so far cannot be zero, and cannot follow a round at which it is (`LoopComputesParity`). `RoundsExist`
shows in the same way that the recursive definition of the loop defines something. From there bytes are no longer looked at:
a keybox is wrapped if and only if its last byte is its checksum (`WrappingHasChecksum`), and one changed byte changes the parity of some bit, or
the last byte alone (`OneChangeBreaksWrapping`).

`Inv` says of every session what each of its states means (`Session`); the core is `Matched`: the client's outstanding requests are those with a
reply in the queue followed by those not yet received. It is kept by a send, a reply and a read (`MatchedSend`, `MatchedReply`, `MatchedRecv`), and must
not be claimed for a client that has hung up or was closed, for which replies are dropped. A channel that is reused starts
with nothing queued, which is why `Session` speaks of free and connecting channels too; the end of the process and a port without handler are steps like the others (`StopStep`, `MutePortStep`).

`PatientClientsSafe` delimits the finding of `keybox_shutdown`. Its hypothesis is about clients alone; that then no message is left when a client hangs up needs
`Matched`, and with no message left `MSG` and `HUP` are never in one event.

### SPI

`SwSpiProofs` covers any buses and devices, and batches of any length.

| theorem | says |
|---|---|
| `SpiInvariance` | the inductive invariant `SpiInv` |
| `SpiTypeCorrect` | `TypeOK`: the index of the next entry stays within the array |
| `NoAssertionFails` | `DriverAssertionsHold` |
| `BusFree` | `BusFreeBetweenBatches` |
| `NothingLeaks` | `NoLeak` |
| `BatchesAreAtomic` | `AllOrNothing` |
| `AnswersInOrder` | `ReceivedInOrder`: each receiving transfer of a batch got its answer, in order |

Assumptions, in `SwSpi`: two devices are on one bus only if its `num_devs` says that it is shared; batches are sequences
of commands.

The argument. The library checks chip select while it requests commands, the driver asserts the owner while it
executes them; what connects the two is the reference `CsAfter`, chip select after the first k commands. It is defined
by the last chip select command, without recursion, and `CsStep` gives its value command by command. `FillingInv` says that the
library's view is `CsAfter` of what was requested and that the commands are in order, `ExecutingInv` that the owner
of the bus is `CsAfter` of what was executed, and `OwnersInv` that the owners are the devices left asserted, none of them on a
shared bus. From the last, with the assumption about `num_devs`, no other device can hold the
bus of a batch's device (`OwnOrFree`). `RxInv` says that what was received after k commands are the answers to the receiving transfers among
them; order is stated by an increasing function from answers to commands (`AnswersTo`), which one more transfer extends, so that no
induction over the batch is needed.

### memref-test

`MemrefProofs` proves two theorems for every page size, every width of `size_t` and every number of failing starts, from the
assumption in `Memref` that a page has two bytes at least and is smaller than `size_t` can count.

`LenderInPage`, `MemSpec => []RegionsInPage`, holds for every client. The step is `CheckedRegion`: a region that passes
`lender_check_region` is in the page. It needs that what is in the queue has an offset and a size that are natural numbers,
which is the inductive part (`RegionInv`): free clients send nothing else, and neither do the tests (`ScriptSends`). The run
`memref` shows the same for a page of three bytes, where the mutant whose sum wraps is caught.

`TestsAlwaysPass`, `MemSpec => []MemrefTestsPass`. The invariant `TestInv` gives for each position in a test how far the lender can be: `Idle`,
`Connecting`, `Quiet`, `Pending` with a message and its answer, or `Told` to exit; and from the first store on, what is in the page. Each call of a test
leads from one to the next (`Connects`, `Sends`, `Receives`, ...), and each step of the lender stays within one (`IdleKept`, `ConnectingKept`, `Reads`,
`Writes`, ...). `ConnectingKept` is where a connection overtakes the exit of the lender before: it is behind the old lender's last message in the
order of events, so that the lender exits first, and is started again for it.

### Only model-checked

* Liveness, everywhere: `HandleRequestsEnd`, `ModestClientGetsData`, `OperationsEnd`, `RequestsAnswered`, `HungUpHandlesReclaimed`, `HungUpSessionsEnd`,
  `ConnectionsResolved`, `TestsEnd`, `ConnectionsServed`, `ClientNeverStuck`. The prover has no rules for fairness.
* `TestsPass` (`AppMgmtTests`): a timeout of the tests ends when no server can move, which is `ENABLED`. The tests have no parameter, so the run
  `appmgmt` has seen all states of that part already.

## 5. Not modelled

* Key bytes, HKDF, AES and the self test of the KDF: what the cryptography computes is BoringSSL's. Keys are kept apart by the slot
  or the identity they are bound to.
* `hwbcc`, `timer`, `spinner`, `storage-test`, `manifest-test`, the other small tests and the templates: a `main` around a library,
  or a sequential program that shares nothing.
* `hwcrypto-unittest` and `swspi-test`: read for what they expect; several properties are stated after them.
* `UnsignedApp` and `UnlockedDevLoad` of app-mgmt-test, which test that the application loader refuses a signature; `self_map` and `creation` of
  memref-test, one kernel call after another on memory nobody shares.
* The receiver of memref-test: it keeps nothing between two messages, and its peer is an Android program. (It does not close
  the handle it was sent when `mmap` fails.)
* `secure_fb_mock_impl`: a table of one entry between two libraries that are not here. That its destructor runs on members that were
  never set when `Init` fails is listed under "hazards".
* Tokens that repeat: see `HwKeyToken`.
* A client of SPI that disconnects with chip select asserted: what happens then is decided in `lib/spi/srv`.
* `hexdump_ram` and all logging.

## 6. What could be added

Every invariant that a passing run checks is a theorem too, but for `TestsPass`. Beyond that:

1. Requests of hwrng are served in the order of the list. It makes no difference to a client as long as a pass serves every entry.
2. The safety part of `ConnectionsResolved` (a queued connection has a port, and main is in its loop) could be an invariant of its own in `KeyboxProofs`.
3. `AppManager` could be given an abstract specification (a connection is pending, waiting, accepted or hung up) that the servers' view is shown to implement.
