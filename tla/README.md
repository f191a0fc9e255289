# A TLA+ model of node-db2fori

node-db2fori is a client for Db2 for i written in JavaScript. It talks to the
host servers of an IBM i over plain sockets: a signon server, then a database
server. This directory holds TLA+ modules that model the client, TLC
configurations that check them on small instances, and theorems about them that
TLAPS checks. Paths below are relative to `src/`.

## Inventory

| component | source | state | operations | what is hard about it | what makes it correct |
|---|---|---|---|---|---|
| Host server socket | `lib/api/HostServerConnection.js` | `internalBuffer`, the 'data' listeners | connect, wait, flush, reads, writes, close | `wait()` wakes with the first chunk; every waiter gets every chunk; a chunk nobody waits for is lost; no timeout; short reads that do not throw | replies reach the calls they are for; a call settles while the connection lives |
| Database connection | `lib/api/DatabaseConnection.js` | `correlationID`, `currentRPB` | setServerAttributes, createRequestParameterBlock, prepareAndDescribe, close | callers overlap at every `await`; replies are not matched to requests; a request may be abandoned after its header | a resolved call was carried out; requests stay framed; IDs are distinct; `currentRPB` exists |
| Login | `lib/api/SignonConnection.js`, `DatabaseConnection.getConnection`, `driver/Connection.getConnection` | step, seeds, password level | six exchanges on two sockets | seeds that replace each other; refusals, cut replies, lost connections half-way; limits on names | a login resolves only if both servers accept; it rejects only for a cause |
| Driver connection, statements | `lib/driver/*.js` | name counters, block table | createStatement, execute, getCatalog | counters that wrap twice; a table that is never updated | names and blocks in use are distinct |
| Request encoding | `DatabaseConnection.sendSetServerAttributesRequest`, `data/DatabaseRequestAttributes.js`, `api/DataBuffer.js` | a length and a buffer | one case per attribute | declared and written lengths are computed apart | they agree |
| Reply parsing | the loops of `getInfo`, `authenticate`, `initialConnect`, `setServerAttributes`, `readReplyHeader` | a count of its own in each; one text buffer in `setServerAttributes` | one case per code point | lengths counted twice or not at all, negative skips, reads beyond the buffer that do not throw, a buffer that keeps earlier texts | nothing looked for is missed; a reply is consumed exactly; what a cut reply tears is what was read last |
| Password substitution | `api/EncryptPassword.js`, `api/DES.js` | buffers and bit arrays | tokens, sum of the seed, chain of encryptions; subkeys and rounds of DES | carries, shifts that lose bits, folding with masks, sixteen unrolled rounds | nothing of a name or password is lost; agreement with another implementation |
| Conversions | `api/Conv.js` | none | EBCDIC, packed decimal | where a name ends; odd digits, signs | round trips |
| Result set metadata | `api/Column.js`, `api/ResultSetMetaData.js` | columns | getters | unused so far | - |

Components interact by promises. `driver/Connection` and `Statement` call
`DatabaseConnection`, which writes fields to its `HostServerConnection` one
awaited write at a time, waits for a 'data' event and reads the reply from the
shared `internalBuffer`. Nothing serialises the calls on one connection. There
is no persistent state, so there is no crash recovery, and there are no timers.

## Modules

| module | models | extends |
|---|---|---|
| `Exchange` | request/reply exchanges of one `DatabaseConnection` with any number of callers, the socket, the network and the server | |
| `RemoteCall` | what such a connection promises: the abstract specification `Exchange` implements | |
| `Login` | `Connection.getConnection()` from the first connect to the point where it settles | |
| `SignOn` | what a login promises: the abstract specification `Login` implements | |
| `Statements` | the allocators of `driver/Connection` and the life of a `Statement` | |
| `RequestEncoding` | the lengths of a request, as both encoders compute them | |
| `ReplyParsing` | one reply, taken apart by one of the six readers | |
| `DES` | `DES.encrypt()` for one block, round by round | |
| `PasswordSubstitute` | `EncryptPassword.encryptDES()` | `DES` |
| `MCExchange`, `MCLogin`, `MCSubstitute` | instances for TLC | `Exchange`, `Login`, `PasswordSubstitute` |
| `ModularCounter` | lemmas about remainders | |
| `ExchangeProofs`, `StatementsProofs`, `RequestEncodingProofs`, `ReplyParsingProofs`, `SubstituteProofs`, `LoginProofs` | theorems | their model |
| `RemoteCallProofs` | `Exchange` implements `RemoteCall` | `ExchangeProofs` |

`Login` and `Exchange` treat a reply as a few parts and take for granted what
its reader makes of it; `ReplyParsing` models one reply byte by byte instead,
with the same readers. In the same way `Login` follows the number of the seed
that a substitute is made from, and `PasswordSubstitute` how it is made.

### Exchange

A call is one invocation of one of the three methods; `Calls` is any set of
them. A step of the model is a piece of code that runs without giving way:

* `SetServerAttributes`, `CreateRequestParameterBlock`, `PrepareAndDescribe`:
  the method up to its first write, with the `flush()`. `Start` is `Begin`, or
  `EncoderThrows`: the request is encoded before its header is written, and a
  call whose encoder throws settles without having written anything;
* `WriteField`, `WriteRejected`: one awaited write and its callback. A request
  is three units, its header, template and parameters. They are six, seven and
  one writes in the code; at this grain two writers already mix their fields,
  and a finer one adds interleavings but no outcome;
* `PrepareThrows`: `sendPrepareAndDescribeRequest` evaluates
  `EXTENDED_COLUMN_DESCRIPTORS`, which is not defined, after its header;
* `Deliver(n)`: one 'data' event with the next `n` parts of the stream. Each
  waiting call has its own `once('data')` listener: each appends the chunk to
  the shared buffer and resolves one promise. With no listener the chunk is
  lost, since a socket that has had one keeps flowing;
* `ReadReplyHeader`, `MisreadReplyHeader`: the microtask of a woken call.
  `readReplyHeader` is awaited, so what follows it is a microtask of its own,
  queued behind those of the other woken calls: `FinishCreate`,
  `FinishAttributes`. The sequence `jobs` is the microtask queue, and every
  other step needs it empty. `FinishAttributes` succeeds on the payload of the
  reply whose header it has heard, if that answers a call of this method; with
  any other payload it throws or not, as the bytes may be;
* `Close`, `PeerClose`, and the server: `ServerAnswers` and `ServerRefuses`.

A reply is three parts, the halves of its header and its payload, so that a
chunk can end inside a header, between header and payload, and between two
replies. A buffer that does not start with a header is misread: the readers
throw, or the bytes happen to pass, and the model lets both happen.

`issued`, `clean` and `garbled` are history variables: no action reads them
except to update them. `clean[c]` says that the call had the connection to
itself, began when nothing was in flight, and heard no chunk that ended inside
a reply. `garbled` says that two calls have been writing at once, or one gave up
in the middle of a request.

Callers that overlap do get each other's replies, two creations do race for
`currentRPB`, and two writers do mix their requests: nothing in the code
prevents it, and no property says otherwise. The properties say what holds
nevertheless, for any interleaving (`CorrelationIDsDistinct`, `NoWakeupMissed`,
`EachResumedOnce`, `CallSettles`), for a clean call whatever went on before it
(`CleanCallAgrees`), and for a connection when its clean calls have settled
(`NothingLeftBehind`); `SerialCallsAgree` in `ExchangeProofs` says how a caller
must behave for all of it to hold.

### RemoteCall

Each call starts once, or fails before anything reaches the server, is carried
out at most once, settles at most once, and the outcome of a *reliable* call is
the server's. `ImplementsRemoteCall` in `Exchange` maps `pc` to its phases,
`verdict` to its answers and `clean` to `reliable`. `RemoteCallProofs` proves
it.

### Login

One caller, six exchanges: `getInfo(false)`, `getInfo(true)`, signon
information, random seeds, start server, set server attributes. The caller is
alone on both sockets, so a request is one step (`Send`), and the network still
cuts replies anywhere: the tail of one may be lost or wake the next `wait()`.
Each seed has a number; the server takes a substitute only if it was made with
the last seed it gave out. A seed may be cut in the middle, which `readFully()`
does not notice. The password level the server reports and the lengths of user
name and password are chosen at the start. `ConnectRefused` and `PeerClose`
leave the caller pending: `connectSocket()` never rejects and `wait()` listens
to nothing but 'data' (the 'error' event that has no listener may end the
process; then nothing happens any more either).

### SignOn

Two servers are asked in turn. Each decides at most once on a substitute of this
login, whatever happens to its replies; and as long as the login is *reliable*
the second is asked only after the first has agreed, the login resolves only
when both have, and nobody decides after it has settled. `ImplementsSignOn` in
`Login` maps `pc` to the outcome, `granted` to itself and `~cut` to `reliable`: a
login is reliable until a chunk ends inside a reply.

### Statements

A statement is its place in the order of creation. `CreateStatement` is
`createStatement()` up to its first await: both names and the block are taken
together. `InitialRequest` and `InitialRequestFails` are the two ways its
promise settles, at any time and in any order, which covers every behaviour of
`Exchange`. The `free` lists are left out because nothing is ever put in them.

### RequestEncoding

`sendSetServerAttributesRequest` and `DatabaseRequestAttributes.getDataBuffer`
each run one loop over the attributes of an object. `Encode(kind, n)` is one
pass of it for an attribute that is set: what the loop adds to `length`
(`Declares`), the length the parameter starts with (`LL`) and what is appended
to the buffer (`Writes`) are three operators, because the code states them
apart. A kind is one way the switches treat an attribute, and `n` the length of
its text. `EncodeThrows` stands for every way an encoder can throw, all of
them before the first byte of the request is written. `SendRequest` adds what a
request sends beyond its header's length to `skew`, the number of bytes by which
the server's idea of the stream is behind the client's. `Exchange` takes for
granted that requests are framed when they are written whole: `InStep` says for
which attributes they are.

### ReplyParsing

`reader` is one of the six loops over the parameters of a reply: `getInfo()`
without and with seeds, `authenticate()`, `initialConnect()`,
`setServerAttributes()` and the one of `readReplyHeader()` for errors. `read` is
what has left the buffer, `count` what the code believes has: `Counted` gives
what each case of each switch adds. A step is a header or one pass of the loop
(`ReadParameter`, or one of the ways it throws: `UnexpectedParameter`, for
instance, is `setServerAttributes()` at a code point it does not take first, or
at a length under 122); `Finish` is the `skipBytes()`
behind the loop, with the negative argument that some counts lead to. Only
`have` bytes of the reply have arrived: `readInt()` and its like throw beyond
them (`HeaderTorn`, `ParameterTorn`, `NumbersTorn`), while `readFully()` and
`skipBytes()` go on, and `torn` records whose value is then part zeros. The
order and the lengths of the parameters are the server's choice.

The one parameter of `setServerAttributes()` takes several steps: `BeginTexts`
is its numbers, `CopyText` one `readFullyExtra()`, `EndTexts` the skip of what is
behind the last text. All texts go through one buffer of 32 bytes that is never
cleared, so that a short copy leaves what an earlier text put there. `texts` keeps
the buffer as it is when each text is taken from it, and a byte of it is the place
in the reply it was copied from, 0 if there is none. `OnlyLastTorn` says that the
texts behind a torn one have no byte of their own, and `TextsInPlace` what stands
there instead.

### DES and PasswordSubstitute

`DES` has one step for the rotation of the halves and the subkey made of them,
and one for a round of `cipher()`; the code has sixteen copies of either. Bits
are functions from 1 to 64, which is how the code stores them, a byte each. The
tables are those of the source. `PasswordSubstitute` adds the stages of
`encryptDES()`: the token of the first eight characters, the token of the
others and their combination when the password is long, the loop of
`addBuffer()` one byte at a time, and the chain of five encryptions, each of
which runs `DES` before the next one starts. `Folded` and `Xor55AndLshift` state
per bit what the masks and shifts of the source do to bytes.

Two properties state what the bits are for. `Decrypted` is the standard's
decryption, with a key schedule written down from the standard (`Schedule`) and
the rounds in reverse; `Decrypts` says that it undoes every call of `encrypt()`.
`SubstituteUnwinds` takes a finished substitute back through its five links, as
a server can that knows the token, with what the comments of
`generatePasswordSubstitute()` say each link is combined with.

User names and passwords are names of the system: not empty, no blank within,
and of an alphabet whose low seven bits tell its characters apart
(`AlphabetAssumption`), as those of A to Z, 0 to 9, # @ $ and _ do. The first
bit of a character never gets into a key: of two letters that differ in nothing
else, such as the national letter 0x63 and T, 0xE3, the keys are the same.

## Runs

| run | instance | shows |
|---|---|---|
| `exchange_overlap` | 3 calls, 2 at once, create and prepare, 1.2 million states | types, distinct correlation IDs, framing, that no call waits in vain, that each is resumed once, and that a clean call agrees with the server, with every interleaving of two calls, before and after a third |
| `exchange_recovery` | 3 calls one after the other, every method, 1.6 million states | what earlier exchanges leave in the buffer and in the network does not reach a later clean call; clean calls leave nothing there themselves; `currentRPB` exists |
| `exchange_methods` | 2 calls of every method, at once, fair, 0.2 million states | calls settle, and their steps run out; `Exchange` implements `RemoteCall` |
| `login` | levels absent, 0 to 3; names at 10 and 11 characters | substitutes are fresh, a resolved login was accepted twice, a rejected one has a cause, no socket is open but that of the exchange under way, no login waits in vain, every login settles, in a bounded number of steps; `Login` implements `SignOn` |
| `login_levels` | the same | violated: a login at level 2 or 3 always rejects |
| `statements` | 7 statements, 4 names, counters up to 7 | names are distinct within their window, through both wraps |
| `statements_blocks` | the same | violated: statements share block 1 |
| `encoding` | 2 requests, up to 4 parameters each, texts of 1 to 40 characters, `MaxShort` 20, 0.5 million states | the server is in step, and finds every parameter, exactly when none is misdeclared |
| `encoding_length` | the same | violated: a request is longer than its header tells |
| `replies` | six readers, up to 50 bytes of parameters (and a block of attributes or a SQLCA), cut at every byte, 0.36 million states | nothing looked for is missed, what is left over, when padding makes `getInfo()` throw, that what is torn was read last, and what stands in the place of missing bytes of the server's texts |
| `replies_error` | the same | violated: an error reply with a SQLCA ends in a TypeError |
| `substitute` | 4 names, 4 passwords, 3 server seeds, 11000 states | the key schedule of DES, that its results can be decrypted and substitutes taken apart, the sum of the seed, keys and folded names that differ, and three substitutes that OpenSSL and 64 bit arithmetic gave |

Bounds. `MaxActive` limits the calls under way at once, in `exchange_overlap` to
two: three calls at once add no new pair of writers or waiters. `MaxID` is 2, so
that the counter wraps while a third request is sent. Calls are
interchangeable, hence the symmetry in the two runs that check no temporal
property. In `Statements`, `MaxStatements` is 7: with four names and counters up
to 7, the seventh statement is the first after the restart, and its name is the
one the fourth had. In
`RequestEncoding`, text lengths lie on both sides of the fields of 3 and 10
characters and of `MaxShort`; lengths add up, so that two requests show whether
the errors of one can be made up for by another. In `ReplyParsing` a reply has
room for up to eight short parameters, each of the least length, three bytes
more, or all that is left: each case can come first, last, behind
any other, with and without padding. In `MCSubstitute`, names and passwords have
5, 8, 9 and 10 characters, pairs of them differ in the last one only, and the
seeds carry not at all, out of one byte and out of all eight; each run of the
cipher is deterministic, so that inputs are all there is to choose. The proofs
have none of these bounds.

Deadlock is not checked: calls settle and then nothing need happen, and a
connection that is gone leaves its callers waiting.

Fairness. The event loop runs every callback and microtask that is ready, the
network delivers what was sent, and the server answers a complete request: weak
fairness of the writes, the microtasks, `Deliver` and the server's actions.
Nobody has to make a call, close, or disconnect. What the code cannot promise is
in the properties: `CallSettles` and `LoginSettles` exclude lost connections,
since nothing in the code times out, and `CallSettles` excludes a stream that
was spoiled, where the server may wait for ever for the rest of a request.

## Findings

1. From password level 2 on no login succeeds: `Buffer.from(..., 'utf16be')`
   throws (`HostServerConnection.js:185`; `EncryptPassword.js:7` says passwords
   are encrypted by level).
2. `getNextRPBID()` never marks a block (`driver/Connection.js:118`), so the
   "free request parameter block" of line 114 is always block 1. Two blocks in use
   differ in no reachable state, as `BlocksNeverDistinct` proves for every table.
3. A `languageFeatureCode` (`DatabaseConnection.js:175`) and a relative
   `fetchScrollOption` (`DatabaseRequestAttributes.js:240`) make a request longer
   than the length in its header; the rest is read as the next request.
4. `packedDecimalToString()` assigns to a constant (`Conv.js:103`, `Conv.js:120`),
   so that an error reply with a SQLCA ends in a TypeError
   (`DatabaseConnection.js:586`) instead of the server's message.

Two things are plain enough to need no run: `writeByte()` writes 1 whatever it is
given (`HostServerConnection.js:77`), so the "2 means return job info" of
`DatabaseConnection.js:771` is not sent; and `execute()` resolves with
`undefined` for everything but a query (`driver/Statement.js:69`), where line 57
says it returns a boolean.

What the models show and no document denies: `getInfo()` throws at a reply whose
numbers have bytes behind them, and `initialConnect()` leaves four bytes behind
when a parameter follows the job name (`PaddingRejects` and `NothingLeft` say
exactly when); the next `flush()` throws them away.

## Proofs

TLAPS proves, for every value of the constants that the `ASSUME`s admit:

* `ExchangeProofs`. Assumed: `MaxID` is a positive number, `NoRPB` is no
  handle. `TypeCorrect` is inductive by itself. `CorrelationIDsNeverCollide`
  rests on `CounterInv`: the i-th ID issued is `(i % MaxID) + 1`, and two
  numbers less than `MaxID` apart have different remainders
  (`ModularCounter`). `CleanCallsAgree` rests on `IInv`: while a clean call is
  under way no other is, and each stage of it determines the whole state of the
  transport: what it writes is all that is outbound, then the request or its
  whole reply is all that is in flight, then the buffer holds that reply and
  nothing else. It is not inductive without the other conjuncts, which say that
  listeners are waiting calls, that a call that never began has nothing on the
  wire, and that the server holds the blocks it said it created.
  `CurrentRPBExists` follows by the same invariant. `NothingIsLeftBehind` is
  inductive with it: a clean call that settles has taken its whole reply out of
  the buffer, and one whose encoder throws has written nothing.
  `RequestsStayFramed` rests
  on `FrameInv`: one writer at most, and what it has written is at the end of
  the stream. `WakeupsNeverMissed` uses it too: the server takes whole requests
  only, so that a call that waits has the last unit of its request on the wire
  (`Asked`) or a part of its reply on its way (`Answered`), and a chunk that takes
  the last such part wakes it, as each waiting call has a listener.
  `ResumedOnce` says that listeners and microtasks list each call once: it is
  inductive with `TypeOK`, since a chunk turns the whole list of listeners into
  microtasks (`DeliverListed`) and `readReplyHeader()` queues a call behind those
  that still have their header to read (`ResumeListed`). `CallsNeverStuck` puts these
  together: while the stream is framed and the connection lives, calls under way
  always leave the guard of a fair action true (`CanProceed`).
  `ExchangeStepsRunOut` adds that there are at most `14 * n + 1` steps, for `n`
  calls; it assumes that `Calls` is finite, without which there is no number to
  lower. `SerialCallsAgree` is about callers that begin no call while another is under
  way (`Serial`): if they never call `prepareAndDescribe()` and no reply is cut, each call settles
  as the server decided on its own request, and `currentRPB` exists. It rests on
  `SerialInv`: every call is clean but those that began when the connection was
  gone already, which never write. Neither hypothesis can be left out: with
  `prepareAndDescribe()`, or with a cut reply, TLC finds behaviours in which the
  conclusion fails.
* `StatementsProofs`. Assumed: `IntMax + 1` is a multiple of `NameSpace`, as
  2^31 is of 16^7. The invariant gives both counters and all names as a function
  of the number of statements, `Name((s % IntMax) + 1)`; `NearNamesDiffer` is
  the arithmetic, with a case for the restart of the counter, where 0 is
  skipped and the window is one shorter. `BlocksNeverDistinct` needs a table that
  is not empty: every statement has the first block (`FirstOnly`), so that the
  property which `statements_blocks` refutes holds exactly as long as no two
  statements are ready.
* `RequestEncodingProofs`. Assumed: texts are not empty (an empty one is
  skipped). `LengthTable` gives the three lengths kind by kind; no kind declares
  more than it writes, so errors only add up. The invariant keeps
  `length <= buffered` and `walked <= buffered`, with equality exactly when
  nothing is misdeclared, and `skew >= 0`: without the inequalities the
  equivalences are not inductive.

* `RemoteCallProofs`. `RemoteCallImplemented` is the refinement. A method entry
  is a call that makes every call under way unreliable, a 'data' event that cuts
  a reply a disturbance, an answer of the server an execution; a call that
  settles returns what it should because the invariant of `ExchangeProofs` holds
  in the next state. That a request is not carried out twice needs `HeaderInv`:
  the header of a request is on the wire at most once, and not any more when its
  call has been answered.
* `LoginProofs`. Assumed: levels and accounts are of their types. `Sockets`,
  which holds whatever becomes of the replies, ties the sockets to the exchange
  under way and gives `OneSocketOnly`: no socket is open but the one of that exchange, which a
  login that settles leaves behind. `Uncut` describes a login of which no
  reply has been cut: either nothing is on its way, or this exchange's request,
  or its whole reply, which has a verdict that matches `refused` (`Conversation`);
  and the seed in hand and the verdicts so far are those of the stage
  (`Stages`). Then nothing is misread, so that a login that was never cut rejects
  for its own name, its level, or a refusal. `LoginNeverLeftWaiting` needs
  `Sockets` only; with it, `LoginNeverStuck` says that a login which has not
  settled leaves the guard of a fair action true unless its host has gone, and
  `LoginStepsRunOut` that it takes at most 196 steps. `UnfitNeverResolves` is the other
  side of `RejectedHasCause`: no substitute is sent, and no login resolves, for
  a name or password that is too long or from level 2 on, however replies are
  misread. `SignOnImplemented` is the refinement. That a server decides once
  must hold for cut logins too, where a login may be ahead of the servers, with
  several requests on the wire: `Attempts` says that these are of different
  exchanges, none later than the caller's own (`NotAhead`, `AskedOnce`), and that
  the server of a substitute that is on the wire or still to be sent has not
  decided (`Undecided`, `NotAsked`).
* `ReplyParsingProofs`. Assumed: a parameter has a length and a code point. The
  invariant relates the two counts: `count = read + 4` once `initialConnect()` has
  its job name, `count = read - padding` in `getInfo()`, `count = read` elsewhere.
  All that a reader leaves or misses follows from these equations and the
  conditions of the loops, one case per reader (`LoopTable`, `FinishTable`).
  For the texts, `BlockInv` gives `read` as the place of the next one, and `Held`
  what every byte of the buffer is, also behind the end of the text that was
  copied last, where the next one may reach (`TextsInv`). `TextsAlwaysInPlace` is
  `Held` within the texts; `OnlyTheLastIsTorn` adds that the bytes of one text
  are in places before those of the next (`PlacesFollow`).
* `SubstituteProofs`. Assumed: the alphabet, as above. `KeyHalvesRotate`
  holds for every key, as `ShiftsAdd` composes rotations. `SeedAlwaysCounted` rests on `Summed`: behind the byte that is added,
  either all bytes have wrapped and there is a carry, or they are those of the
  successor already. `KeysAlwaysTell` and `FoldAlwaysTells` argue bit by bit: a
  key holds seven bits of each character (`KeyTellsCharacters`), and each bit of
  the ninth and tenth character is added to one bit of the first eight, which are
  given (`FoldedBits`, `ShortAndLong`). `AlwaysDecrypts` rests on `Traced`: the
  subkeys so far are those of the schedule (by `HalvesRotate`), and there is a
  sequence of blocks, each one round from the one before it, from the permuted
  data to the halves in hand. A round undoes itself on the block with its halves
  swapped (`RoundUndone`), so that the blocks in reverse and swapped are those of the
  decryption; `UnroundsAre` shows, in sixteen steps, that the recursive function that
  defines them has no other value, and `OutputRestores` that the permutations
  cancel, as `OUTPERM` is the inverse of `INITPERM`. `SubstituteAlwaysUnwinds` rests on `Unwound`: at each link the key is the
  token, and the data of the call leads back to the count through the links
  before it.

Only model-checked: that calls and logins settle (`CallSettles`, `LoginSettles`),
as fairness and `ENABLED` are out of the prover's reach. Both halves of the argument
on safety are proved: there is always a step to take (`CallsNeverStuck`,
`LoginNeverStuck`), and steps run out (`ExchangeStepsRunOut`, `LoginStepsRunOut`).
What remains with TLC is that fairness makes such a step happen, and that
`CanProceed`, which lists the guards by hand, is what the fair actions need.
`KnownSubstitutes` is about three inputs, which the run evaluates.

## Not modelled

* Composition of `Statements` with `Exchange`: what the server's block 1 holds when
  several statements are created, executed and overlap. `Statements` lets a
  creation settle either way at any time, which covers what `Exchange` can do to
  one, but no property relates the two states. This is what is left of the plan.
* The attribute object across calls: `setServerAttributes()` reads 25 values back
  into its argument (`DatabaseConnection.js:270`), and an object that is sent
  again carries them.
* What becomes of the sockets of failed logins, which nobody destroys
  (`SignonConnection.js:143`): `Login` is one login, and `OneSocket` says that each
  that settles leaves exactly one socket, unless the host closed it.
* `encryptSHA1()`: no login reaches it. From password level 2 on the encoding of
  the name throws first (finding 1).
* `api/Column.js` and `api/ResultSetMetaData.js`: nothing constructs them, the
  array of columns is never initialised, and `Column.js` uses names that it does
  not define.
* The two tables of 256 characters in `Conv.js`, the constants and texts under
  `lib/data`, and the example program `index.js`: data, or calls that the models
  make too.
* What `prepareAndDescribe()` does behind the line where it always throws.
