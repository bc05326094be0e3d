# TLA+ models of 1ScURL

1ScURL (`src/curl1c`) is a native add-in for 1C:Enterprise 7.7: an MFC DLL that
gives scripts an object "cURL1C" over libcurl 8.6.0 (vendored in
`src/curl-8.6.0`). It is built on a small library for such add-ins,
`src/_1Common`. The component is single-threaded: all interleaving comes from
the order in which scripts call the methods of several objects, from the
callbacks libcurl makes inside a call, and from the network. A release build
defines `NDEBUG`, so the ASSERTs of the code are not checked at run time.

## 1. Inventory

| Part | State it keeps | Operations | What is hard | What makes it correct |
|---|---|---|---|---|
| Share (`1ScURL.cpp`, `StdAfx.cpp`, `Context.cpp` 81-123, 180-198, `Context.h` 195-252, 337-350) | one global `CURLSH*`, four cache settings, the in-use count and the kinds of data of each share, the easy handle of each object, pooled connections | load and unload the DLL, construct, destroy, `easy_cleanup`, `AssignCurlCache`, `UseCache` | libcurl refuses to free or reconfigure a share in use and the component ignores the refusal; several objects share one global | no handle or connection is left with a freed share, the settings asked for are in force |
| Requests (`Context.cpp` 200-408) | the options of the handle, source, destination, `PostFildsData`, four flags | `easy_setopt`, `mime_init`, `easy_perform`, `StatusLine` | options survive a request, and many are pointers to locals; any step may raise | this request sends this source and writes to this destination, whatever came before |
| Transfer (`Context.cpp` 238-255, `Common.cpp` 40-52, libcurl `transfer.c`, `multi.c`) | the reader's position, the upload buffer, the retry count, the response stored so far | `read_callback`, `curl_swrite`, `curl_fwrite`, retry, rewind | every size of read, write and response chunk; a pooled connection that is already dead | nothing is lost, doubled or reordered, and the transfer ends |
| Named collections (`BLColl/istrmap.cpp`) | an array of items and a table from names to indexes | add, insert, remove, clear, move, rename | two structures changed one after the other; a rename to a name in use; keys kept by reference | the name of an item finds that item |
| String map (`BLColl/istrmap.h`) | chained buckets, a pool of cells, a free list | set, remove, clear, resize, iterate | the table is rebuilt at its limits; values are set during an iteration | it is a dictionary, and no cell is lost or used twice |
| Base64 (`base64.h`, `Context.h` 405-452) | two static strings | `ToBase64`, `FromBase64` | output sized by a formula and written unchecked, for any text of the script; tails of one and two bytes | writes stay inside, the encoding is Base64, and decoding undoes it |
| Script dispatch (`contextimpl.hpp` 319-920, 987-1099) | a hash table of names for each class with more than three methods or properties, made by its first object | find by name, answer by number, call as function or procedure | two names per method in any case, colliding hashes, answers by the rarer kind | a name runs its own method and no other |
| Header and recipient lists (`Context.cpp` 125-157, 180-221, `Context.h` 205-208, 235-241, libcurl `slist.c`) | two linked lists, two options of the handle that point to them | `easy_setopt`, `easy_cleanup`, `GetHeaders`, `easy_perform`, construct, destroy | memory that runs out or is reused; a list freed under its pointers; the object's own header at the head | the script's headers and recipients, and only they, are listed and sent |
| Trace dump (`Context.cpp` 42-74, `Common.cpp` 70-104) | two counters of type `size_t` and a line | `my_trace`, two nested loops | a counter that goes below zero and is expected to come back | every byte is shown once, and the callback returns |
| `nocasemap.hpp` | a second hash table | set, find, erase | not instantiated in this component | as for the string map |
| Multipart parts, statistics, option table | a `curl_mime` | thin wrappers and getters | parts are never taken out again | see `EasyPerform` |
| Plumbing of other add-ins (`addin.hpp`, `traps.hpp`, `ctxtree.h`, `proppage.hpp`, `V7*`, `CtrlEvents`, `ParamDefs`, `BLCollection`) | | | not in this build, or not used by it | |
| Vendored libraries | | | third-party | |

A request goes through all of the first three parts: `easy_perform` fills the
options of the easy handle (Requests), libcurl takes a connection from the pool
of the share (Share) and moves the bytes through the callbacks (Transfer). The
collections rest on the string map: `CIStringMapToIndex` is a `CIStringMap` from
names to integers. Every method is reached through the dispatch; the lists of
headers and recipients are what a request finds through its handle.

## 2. Modules

| Module | Role |
|---|---|
| `CurlShare` / `CurlShareProofs` / `MCCurlShare` | the share, its handles and connections; proofs; instance |
| `EasyPerform` / `EasyPerformProofs` / `MCEasyPerform` | one object through any number of requests; proofs; instance |
| `Transfer` / `TransferProofs` / `MCTransfer` | the inside of one `curl_easy_perform`; proofs; instance |
| `Collection` / `NamedList` / `CollectionProofs` / `MCCollection` | `CCollection`; the abstract list of names it implements; proofs; instance |
| `StringMap` / `Dictionary` / `StringMapProofs` / `MCStringMap` | `CIStringMap`; the abstract dictionary it implements; proofs; instance |
| `Dispatch` | names, numbers and answers of `CContextImpl` |
| `RequestLists` / `RequestHeaders` | headers and recipients in linked lists; the two plain sequences they stand for |
| `ScriptObject` / `ScriptObjectProofs` / `MCScriptObject` | composition of `Dispatch` and `RequestLists` that implements `RequestHeaders`; proofs; instance |
| `Base64` | `ToBase64` and `FromBase64` |
| `TraceDump` | `my_trace` and `my_trace_dump` |
| `Conversions` / `ConversionsProofs` / `MCConversions` | `Base64` and `TraceDump` in one program; proofs about both; instance |
| `Induction` | induction, least elements and recursion over the natural numbers, for the proofs |

Definitions keep the names of the source where they can. A definition that
begins with the comment "Mutant:" is a plausible error in the definition after
it. No specification uses one; each shows that some property would notice.

### CurlShare

`CurlShare`, `useCache` are the globals of `StdAfx.cpp`; `shareState`, `dirty`
and `specifier` are libcurl's view of every share; `handleState`,
`handleShare` and `borrowed` that of every easy handle; `m_curl` is the handle
of each script object; `conn` is the pool each connection is in, "closed", or
"lost" when its pool was initialised again over it. `AssignCurlCache` is the
whole of `Context.cpp` 81-123: the refusals of libcurl (`dirty > 0`) are in
`curl_share_cleanup`, `curl_share_setopt` and `Curl_conncache_init`, and no
answer is looked at, as in the code. Data kinds are shared one by one; PSL is
left out because the library is built without it. Handles, shares and
connections are allocated from finite sets and never reused: the sets are the
bound.

### EasyPerform

`opt` holds the options that one request can leave to the next, with what each
pointer points to: a local of the running call ("&wt", "&data", "fd", "fp",
"&prog"), a buffer of the object, or "dead". `LocalsGone` and `BufferGone` turn
pointers dead when `easy_perform` returns or a string is replaced. `pc` walks
through `easy_perform`: source, destination, transfer, closing the files, end,
with the exits of `RuntimeError`, which raises and skips everything after it.
`isPosting` and `m_StatusLine` start with any value, since the constructor does
not set them. A text is opaque and carries its encoding, so that a body sent
without conversion differs from one converted. A multipart body is the number
of its parts and the handle it is attached to: `AddPart` only ever adds, and
libcurl refuses a body that another handle holds. A transfer is one step that
records what it sent and where the response went.

`used` is history: whether a message, a file or a destination was set in the
current handle before. The properties are equalities in terms of it, so that
they say what is sent and where the response goes in every case, the ones where
an earlier request interferes included: `SizedAsFile` is a message that goes
out with the size of an earlier file (`Transfer` shows what becomes of it),
`Garbage` a file read through the `read_callback` of an earlier message.

### Transfer

That step taken apart: `readwrite_upload` refills the upload buffer from
`read_callback` (or `fread`) and writes any number of bytes; the response
arrives in any chunks; a request on a reused connection that dies unanswered is
repeated by `Curl_retry_request`, which rewinds the source if bytes were
written and if it can. A byte is opaque except for NUL. `Fails` is any failure
of the network.

`infilesize` is what the handle holds: for a file its own size; for a message -1,
or one of `OldSizes`, which an earlier file request left there, since nothing
resets the option. `uploadDone` is set when that many bytes are written, and
reading stops; a size of 0 starts no upload at all. A server that was promised
more bytes than come is `Fails` or an answer, as libcurl itself goes by what the
callback returns. Left out are the doubling of dots at the start of a line in
SMTP (bodies have no such line), and scripts that set
`CURLOPT_INFILESIZE` or `CURLOPT_POSTFIELDSIZE` by themselves.

### Collection and NamedList

`m_Items` is the array, `m_ItemsHash` the table, `m_pCollection` the back
pointer of each item. The guards are the calls that the ASSERTs allow, the
effects those of a release build. `Move` has to satisfy two ASSERTs, since
`CCollection::Move` (`istrmap.cpp:278`, which allows the size of the array as the
new index) calls `Move` of the table (line 83, which does not). `SetName` has none
and takes any name.

`condition` is history. A rename to the name of another item makes it "clashed":
the entry of the other item is taken over, and what the table says of names and
indexes holds again only after `Clear`; every operation goes on from there as in the
code. The table refers to its keys: after `SetName` the key is the caller's
string (`lent`), and `realloc` may move the item's own name while its result is
dropped. When such a string goes, the next lookup reads freed memory;
`condition` is then "undefined" and the model stops. `NamedList` has the same three
conditions: it is a list of names while "intact", and promises nothing else.

### StringMap and Dictionary

A chain is the sequence of its cells, a cell its number in the order of
allocation. `InitHashTable` rebuilds every chain in the order the code visits
the cells. The full hash is a constant function with collisions; sizes and
thresholds are those of the code, with smaller constants. `GetNextAssoc` is one
step of an iteration, during which values may be set (as `ShiftIndexes` and
`Move` of the index table do) but no key is added or removed. The map that
`Lookup` sees implements `Dictionary`.

### Dispatch

`endmeths` and `endprops` are the declarations of the classes, `Policy` the
strategy the templates choose by their number: none, one comparison, a few
comparisons from the last to the first, or a hash table. A name is a pair of a
word and a way to write it, and `Lower` is the table of lower-case letters. The
value `GetHash` computes is chosen at the start from a set of functions, so that
names collide in every way: same hash, same chain with another hash, another
chain. `toInsert` counts down while the constructor of the first object fills
the table. The templates that choose the rarer kind are `HasRetVal` and
`MinorityAnswer`, `Called` is what `CallAsFunc` and `CallAsProc` run.

### RequestLists, RequestHeaders and ScriptObject

`heap` maps the nodes in use to their data and successor; a freed node can be
given out again, so that a pointer which outlives its list would show another
one. An allocation may fail at any call; the code then takes the NULL of
`curl_slist_append` for the list, and the old nodes go to `lost`. `m_curl` holds
the two options of the current handle. `easy_perform` is the reader of these
options; all else about it is in `EasyPerform`.

`ScriptObject` joins the two: a call by name finds a number, `HasRetVal` says
how to call it, and the method that runs acts on the lists. Its abstract
specification `RequestHeaders` knows what the script meant by the name and keeps
two sequences, the object's own header apart. `ImplementsRequestHeaders` says
that lookup, lists, memory and handle options together do what was meant. The
mapping takes the sequences from the nodes reachable from `headers` and
`recipients`. `GetHeaders` is abstracted as it is: it leaves out the first
header when the object's own is gone, and fails when there is no list.

### TraceDump and Conversions

Both counters are `size_t` and all sums are modulo `SizeT`. One step is one turn
of the inner loop with the way it leaves it: the line is full, CR LF is next, CR
LF follows the byte just shown. `DumpReference` defines the result without
loops: CR LF cuts the message into pieces, a piece is cut into lines of `Width`
bytes. The two conversions share no state and run to completion inside a call,
so `Conversions` takes dumps before the first Base64 call only.

### Base64

Each round of the loops is a step. The static strings keep the bytes of the
previous call below their new size, as `resize` does: these are marked `Stale`
until overwritten, and the two functions are called over and over. `coded` is
the text given to `FromBase64`: what `ToBase64` gave, as it is or without its
padding, or any text at all. `EqSeen` is the number of `=` that `DecodedLength`
counts from the end; of a text of nothing else it reads the byte before the
beginning, which is any byte. A length below zero is an enormous `size_t`:
`resize` throws, and the stage is "thrown". A write past the end makes `out` longer
than `reserved`, so that it can be seen.

## 3. Runs

| Run | What it checks | Distinct states |
|---|---|---|
| `share` | type, exact in-use count, no dangling share, settings in force, no shared handle, every pooled connection owned | 121 337, with symmetry |
| `perform` | the source of this request is sent, a text as UTF-8, a file, or the multipart body with all its parts; the response reaches the destination of this request, the progress record is live; each with the exact exceptions for what earlier requests left | 2 000 322, with symmetry |
| `transfer` | the body is accounted for and unbroken, the first attempt sends all unless an old size cuts a message, the response is stored exactly, and the transfer ends | 103 748 |
| `collection` | names find items and indexes are right until a rename takes a used name, back pointers are right, and the table refines `NamedList` | 38 753, with symmetry |
| `stringmap` | cells accounted for, keys found, load bounded, iterations complete, and the table refines `Dictionary` | 11 491 |
| `script` | a name runs its own method under every kind of collision and while the tables are filled, the answers by number fit, no option points to a freed list, no node is lost or shared, and names and lists together refine `RequestHeaders` | 16 455, with symmetry |
| `conversions` | Base64: writes fit for every properly padded text, the encoding is the bit-level definition, decoding undoes it; trace dump: the lines are those of the definition, and the dump returns | 129 404 |
| `share_handle_leak`, `perform_pointers`, `transfer_retry`, `transfer_nul`, `conversions_any_text` | one property each that the documentation of libcurl or a comment states and the code does not keep (section 6) | stop at the violation |

### Bounds, and why they are enough

- `share`: two objects, three handles, three shares, one connection. Two objects
  are needed for one to be attached while the other replaces the share; three
  handles allow an `easy_cleanup` besides; three shares allow the share to be
  replaced twice, or the DLL to be loaded twice. When the sets are used up the
  model stops, hence `CHECK_DEADLOCK FALSE`. The theorems hold for all sizes.
- `perform`: two texts and one response, so that an old text can be told from
  the new one, and two multipart parts, so that one can be added between two
  requests. The number of requests is not bounded.
- `transfer`: a body of four bytes with a buffer of three and a watermark of
  two (code: 64 KB and a 32nd of it), so that the buffer is topped up, used up
  and refilled; responses with and without NUL; two retries (code: 5). Old sizes
  of zero, of less than the body and of more than it.
- `collection`: three items, three names and an array of four: a move over
  another element in both directions, a free name for a rename, a used one with a
  third item beside it, and after a clash an item that is in the array twice.
- `stringmap`: three keys, two of which collide on the full hash, and a table
  that starts with two buckets (code: 32): it grows at the third key, shrinks
  when keys leave, and grows again; blocks of one to three cells run out in
  between.
- `script`: five of the 21 methods of `CcURL`, enough for the hash table, among
  them all that touch the lists; all of `CCurlMime` and `CCurlValue`, which get
  the other two strategies. Every name in two spellings, and a name nobody
  declares. Five hash functions: all names collide, or all but one, which is a
  declared name or the unknown one, in the same chain or another. Two headers,
  one recipient and four nodes: a full list of the object's own header with two
  of the script beside a recipient; the next allocation fails, and freed nodes
  are used again.
- `conversions`, dump: messages of up to seven bytes over CR, LF and a
  letter, in lines of three (code: 128): CR LF at the start, in the
  middle, at the end and across the end of a line, twice in a row, and cut off
  at the end of the message. `SizeT` is 2^16; only that it is larger than any
  sum matters.
- `conversions`, Base64: texts of up to five bytes over three values with bits in all parts
  of a group, and NUL: every tail, with and without a full group before it. Any texts of up to
  five characters over NUL, `!`, `=` and a letter: `=` at every place, up to five
  of them, and characters that are not Base64.

### Fairness

Two properties need it. `DumpReturns` assumes that the loop of the dump takes
its steps (`WF` of `DumpStep`): it is a call on the only thread, which libcurl
waits for. `TransferEnds` is checked under `LiveSpec`. `PeerMakesProgress` says that the
socket takes bytes, that a new connection is answered, that a pooled one is
answered or found dead, and that what arrives is processed: this is what a peer
that is not silent for ever gives, and the component sets no timeout of its own
that would end a transfer with a silent one. Nothing is assumed of the cache:
every retry may be handed a dead connection, and the limit on retries is what
ends the transfer.

## 4. Proofs

`CurlShareProofs` proves, for any sets of objects, handles (finite), shares and
connections, that every invariant of the run `share` always holds. No one of
them is inductive alone: a share may be freed safely only because its count is
exact, the count is exact only because handles attached to a share are live and
are attached to one share, and the settings take effect only because a new
share has no handle attached. `IInv` is their conjunction with
`ObjectsNeedTheDll`. The central lemmas are `MoveKeepsCount` (moving a handle
keeps all counts equal to the cardinalities) and `AssignKeeps` (the whole of
`AssignCurlCache`). The assumptions are that handles are finitely many and that
`NULL`, handles, shares and the two words of `conn` are different things.

`TransferProofs` proves, for every body, set of responses, buffer size,
watermark and retry limit, that the upload buffer never overflows (`TypeOK`),
that wire and buffer are always an unbroken run of the body that ends at the
reader's position (`UploadUnbroken`), that an upload that was not repeated sends
everything, a message that meets the size of an earlier file being the only
exception (`FirstAttemptSendsAll`), and that the response is stored exactly
(`ResponseExact`). The inductive invariant adds `BodyAccounted`, which ties the
reader's position and its remaining size to the length of the body; without it
the copy in `read_callback` could run past the body; and `SizeInHandle`, which
says that a file runs with its own size and that `upload_done` means that this
many bytes are written: hence a file is never cut. The lemmas on pieces of
sequences (`CutAndJoin`, `PieceOfSeq`) carry the argument that reading into the
back of the buffer and writing from its front moves one window over the body.

`EasyPerformProofs` proves every invariant of the run `perform`, for all texts,
responses and numbers of parts: what a request sends (`SourceIsSent`), where the
response goes, and that the progress record is live. These properties speak of the state after the transfer, and what the transfer does
depends on options set several steps earlier. The inductive invariant therefore
says for each place of `easy_perform` which options are this call's own
(`OptionsReady`: `MultipartReady`, `VariableReady`, `FileReady`,
`DestinationReady`). Two facts span the whole life of a handle:
`HandleRemembers`, that each thing in `used` is an option that has kept its value
ever since, and `NoDestinationYet`, that between calls no option points to a
place where a response could be written.

`CollectionProofs` proves the invariants of the run `collection` and that
`Collection` implements `NamedList`, for any items and names. The invariant `Inv`
is stated from three sides: each element of the array is found under its name
(`ItemsFound`), each entry of the table leads to an element of that name
(`KeysUsed`), and the back pointer of an item says that it is a member that is
found (`MembersFound`). Each side alone is lost by `Move` or `SetName`. After a
clash none of them holds, so the inductive invariant is `Base /\ (Intact => Inv)`:
`Base` is what holds whatever the names are, that an item which points back is in
the array (`Held`) and that each key is the name of such an item (`KeysHeld`).
`IndexContiguous` follows because looking up and reading the array are inverse
to each other.

`StringMapProofs` proves the invariants of the run `stringmap` and that
`StringMap` implements `Dictionary`, for all keys, values, hash functions and
sizes (`DEFAULT_HASH_TABLE_SIZE >= DEFAULT_BLOCK_SIZE_RATIO` is all that is
assumed of these). The centre of the invariant is `ChainsHold`: in a table of
that size each cell in use is in the chain of its bucket, once, and nowhere else.
`RehashOnce` shows that `Rehash` establishes it for any new size, `CellLinked`
and `CellUnlinked` that a new and a removed cell keep it; `PowerIsAbove` and
`NewSizes` that the loop of `InitHashTable` gives more buckets than keys and a
block that is not empty, so that `NewAssoc` always finds a cell. `IterationOK`
adds what an iteration has returned so far: the keys of the cells before its
position, in the order of buckets and chains (`Before`); `Successor` shows that
`GetNextAssoc` goes to the next cell in this order. Numbers are unbounded, so
tables of more than 2^31 buckets, where the doubling of a `UINT` overflows, are
outside.

`ScriptObjectProofs` proves the invariants of the run `script` and that
`ScriptObject` implements `RequestHeaders`, for all classes, declarations,
spellings and hash functions and any finite memory. `Filled` says which
declarations a table holds while it is filled from the last to the first;
from it `hashfnd` finds a name exactly when it is declared, and a declaration
whose name collides with others' is not hidden by them. `Owned` says of the
memory that the two lists and the forgotten nodes are disjoint, that each list
ends, and that they are all of `heap`. `OptionsFollow` gives the two options of the
handle by the lists: without it the option could be an old head after
`curl_slist_append`. Assumed of the declarations is what the compiler and the
macros ensure (`DeclarationsAreLists`, `MethodsAreTyped`, `PropertiesAreTyped`),
that no two names of a class agree (`NamesDistinct`), that lowering twice is
lowering once (`LowerIsLower`), that hashes are numbers, that `NULL` is no node,
that the object's own header is not one of the script's, and that "CcURL" is a
class.

`ConversionsProofs` proves every invariant of the run `conversions`, for all sets
of bytes and all lengths. Both halves compare a loop with a definition that has
no loop, so the invariants say how much of the reference is already there.

- Base64: `EncodedSoFar(g)` and `DecodedSoFar(g)` say that after `g` whole groups
  the string holds the first `4 * g` characters of the reference, or the first
  `3 * g` bytes of the text, that `a` holds the group that was begun, and that
  `input` is the rest. The steps rest on `DigitsOfGroup` and `BytesOfDigits`, which relate the shifts and
  masks of `a3_to_a4` and `a4_to_a3` to the six bits of a digit, on
  `LookupOfAlphabet`, and on `DigitCount` and `WholeGroups` for the lengths;
  `WhereDecodeEnds` shows that decoding stops at the padding or at the end of a
  text without padding, and nowhere before. For a text that was not encoded
  here there is no reference: `Reading(g)` says only that `g` groups without a `=`
  were read and `3 * g` bytes written. `RoomForText` shows that `DecodedLength`
  leaves room for them and for the tail when the text is `WellPadded`, whatever its
  characters, and that is why every write fits.
- Trace dump: `LinesShown` says that the lines so far are the first ones of the
  reference, `LineSoFar` that the line at hand is the part of its reference up
  to the counter. `StartAfterFullLine`, `StartAfterBreak` and `NoStartInside`
  say where the next line of the definition starts for each way of leaving the
  inner loop, and `LineOfNumber` that the definition's count of the starts
  picks exactly one. `WrapBack` is the reason why the counter may go below zero: a
  width back and a width forth again are the identity modulo `SizeT`.
  `DumpAdvances` adds that every step makes `Remaining` smaller, a natural
  number; fairness of the call is then all that its return needs.

Assumed are that bytes and characters are below 256 (`BytesAreBytes`, `TraceBytesAreBytes`),
that a line is not empty and that a message with a line and a CR LF behind it
is still counted by `size_t` (`WidthAndSize`).

The recursive definitions of these models (the walk along a list, the rebuilding
of a table, the loop that doubles a number) are recursive functions. `Induction`
states induction with sets in place of predicates, which the provers can
instantiate, and that a recursion over `0 .. N` has a solution; with both, what
these functions compute is proved for every input.

All inductive invariants were checked with TLC on the instances of the runs
before they were proved. Some leaves name a prover and a time limit; that is
only to keep them from depending on the speed of the machine.

Only model-checked: the liveness properties `TransferEnds` and `DumpReturns`,
since the prover has no rule for fairness. Every invariant, action property and
refinement of the passing runs is proved.

## 5. What the code gets right

Although the component ignores every answer of `curl_share_cleanup` and
`curl_share_setopt`, no order of calls leaves a handle with a freed share, and
the settings of `UseCache` are always in force: each call makes a new share, and
libcurl's count protects the old one. A request with a source text sends that
text and no other, whatever was left in the handle, with one exception: the size
of an earlier file. Chunking never changes what is sent or stored, except at NUL
bytes. The string map keeps its structures in step, the collection too until a
rename takes a used name. The loops of Base64 stay inside their strings for
every text with proper padding or none. A method name always reaches its method, however the
hashes collide. `easy_cleanup` frees the lists under the old handle's options,
and that is safe because it takes a new handle in the same call. The counter of
the trace dump goes below zero and always comes back to the right byte.

## 6. Departures

Shown by runs:

- `easy_cleanup` loses the old easy handle (`Context.cpp:188`).
- Requests leave pointers in the handle that outlive their target
  (`Context.cpp:216`, 311, 328, 336, 344) and later requests use them.
- A repeated request may send only the rest of its body
  (`transfer.c:1579`, `multi.c:1830`).
- A response with a NUL byte is cut in a variable (`Common.cpp:41`).
- `FromBase64` of a text with too much padding writes past the string it sized
  (`base64.h:122`): "QUJD====" is sized 2, and 3 bytes are written. The test of the
  length comes after the loop.

Seen while modelling, without a run of their own:

- A share that is in use when it is replaced is never freed (`Context.cpp:84`).
- A new object on an idle share initialises the connection cache over the
  pooled connections (`Context.cpp:96`, `share.c:122`).
- A request with an empty source sends what an earlier one left
  (`Context.cpp:315`); a file after a message is read through `read_callback`
  (328-330). `SourceIsSent` states the second exactly.
- After `easy_cleanup` libcurl refuses the multipart body (`Context.cpp:290`),
  and the request posts the last text instead; before it, every request sends
  all parts ever added (`Context.h:152`). The part
  `MultipartIsSent` of `SourceIsSent` states both.
- A message after a file keeps the size of the file and is cut there
  (`Context.cpp:312`, 329; `transfer.c:808`, 1109), although the manual of the option
  says that it does not limit what is sent (`CURLOPT_INFILESIZE_LARGE.md:40`).
  `SourceIsSent` and `FirstAttemptSendsAll` have this as their exception.
- A download to a file closes the file twice (`Context.cpp:377`, 395): "closed twice"
  in `fault`.
- `RuntimeError` leaves the source file open (`Context.cpp:326`, 342).
- `GetHeaders` leaves out the head of the list (`Context.cpp:149`), which is
  right only while the head is the component's own header: after `easy_cleanup`
  it drops the first header of the script. `RequestHeaders` states exactly this.
- When memory runs out, `easy_setopt` forgets all headers (`Context.cpp:212`).
- An option name that is not in the table is compared with the NULL key of its
  terminator (`Common.cpp:57`, `Common.h:357`).
- `CIStringMapToIndex::Add` of a name that is present overwrites its index,
  where `istrmap.h:672` promises -1.
- `SetName` to the name of another item takes its entry over (`istrmap.cpp:144`): that
  item is not found any more, and the indexes, which `istrmap.h:664` calls
  contiguous, get a gap. With items a, b, c a rename of the first to "b" leaves the
  table {b: 0, c: 2}.
- The key `SetName` makes is the string of its caller (144), where the comment at 171
  calls keys by reference safe, and the result of `realloc` is dropped (151).
  `Collection` follows both up to the undefined state.
- `DecodedLength` of a text of nothing but `=` reads the byte before the string
  (`base64.h:211`), and a length that comes out below zero makes `resize` throw an
  exception that `FromBase64` does not catch.

## 7. Not modelled, and the plan

The repository is about a million lines, nearly all of them vendored: OpenSSL,
libcurl, libssh2, zlib, brotli and the headers of 1C:Enterprise. The component
itself has some 2 300 lines and the add-in library 5 500, a good part of which
this component does not build or instantiate. The models cover the component's
own logic and those functions of libcurl it depends on; the rest of the vendored
code is the work of its own projects and is not modelled.

Also not modelled:

- The plumbing of other add-ins (`addin.hpp`, `traps.hpp`, `ctxtree.h`,
  `proppage.hpp`, `V7*`, `CtrlEvents`, `ParamDefs`, `BLCollection`): not in this
  build, or used by no class of it. The same holds for `nocasemap.hpp`.
- Of the dispatch: default values of parameters and the names by number, which
  only copy a declaration, and the classes for module variables, which are not
  instantiated.
- The table of option names: a constant with a linear search.
- What a multipart part carries, and read-only getters: arguments and answers
  are passed on unchanged.
- The reference counts of the host, which decide when script objects die
  (`Context.h:259`).
- Calls that the ASSERTs of the collections forbid: no caller in the repository
  makes them. Renames have no ASSERT, and all of them are modelled.
- What happens after a use of freed memory in the collections, or after a write
  past a string in `FromBase64`.

Of the plan nothing is open: all invariants of the passing runs are proved for
every value of the constants, and the two liveness properties stay with TLC.
