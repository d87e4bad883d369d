# 115drive-webdav in TLA+

115drive-webdav serves a 115 cloud drive over WebDAV: HTTP requests come in on
`webdav.Handler`, are guarded by temporary locks of an in-memory lock system,
and become calls of the drive client, which talks to the web API of 115 and
keeps the listings of directories in a cache for two minutes. Requests and answers are XML, read
and written by a fork of `encoding/xml`. The modules here model these parts, the
configurations check them with TLC on small instances, and the proof modules prove for
every instance, with TLAPS, what matters most about the locks, the handler, the drive
client, the traversal, and the tokens of XML that are written and read back.

Line numbers refer to the files under `src/`.

## The system

| Component | State | Operations | Talks to |
|---|---|---|---|
| WebDAV handler (`webdav/webdav.go`) | none of its own; the locals of each request's goroutine: `srcToken`, `dstToken`, `status` | `ServeHTTP` and the `handleXxx` methods, `confirmLocks` and the release it returns, `lock` | lock system and drive client, by direct calls |
| Lock system (`webdav/lock.go`) | `memLS`: `byName`, `byToken`, `gen`, `byExpiry`, all under one mutex | `Create`, `Confirm` and its release closure, `Refresh`, `Unlock`; each but the release collects expired locks first | called by the handler; reads the time it is given |
| Drive client (`115/client.go`) | the cache: listings by directory, download addresses by pick code; a rate limiter | `GetFiles`, `GetFile`, `GetFileURL`, `RemoveFile`, `MakeDir`, `MoveFile`, `flushDir`, `ServeContent`, `Proxy` | 115's web API, over HTTP; called by many goroutines at once |
| Web API calls (`115/api.go`, `115/types.go`) | none | one function per request: `APIGetFiles`, `APIGetDirID`, `APIDeleteFile`, `APIAddDir`, `APIMoveFile`, `APIRenameFile`, `APIGetDownloadURL`, `APILoginCheck` | the 115 service (external), which other clients of the account change too |
| If header (`webdav/if.go`) | none | `parseIfHeader`, the lexer and the parser of lists | called by `confirmLocks` |
| Traversal (`webdav/file.go`), multistatus (`webdav/xml.go`) | `multistatusWriter`: its encoder, whether the header is written | `walkFS`, `write`, `close` | drive client; `handlePropfind` |
| Properties (`webdav/prop.go`), XML bodies (`webdav/xml.go`) | none | `props`, `propnames`, `allprop`, `makePropstats`, `readPropfind` | `handlePropfind` |
| encoding/xml fork (`webdav/internal/xml`) | the decoder's stack of elements and name spaces, the printer's prefixes, the cache of type infos | tokens, elements, marshalling, unmarshalling | XML bodies |
| Request encryption (`115/crypto.go`) | none | key derivation, the xor passes, RSA blocks | `APIGetDownloadURL` |
| Start-up (`main.go`, `common/config`) | the configuration | reads flags and the file, sets up the routes | once, before anything else |

### What is hard about it

* **Concurrency.** Every request is a goroutine. The lock table is guarded by a
  mutex, but a request uses it several times (two `Create`s, a call of the
  drive client, two `Unlock`s), and the release returned by `Confirm` runs
  under a later hold of the mutex with pointers it took earlier. The drive
  client has no lock at all: between its cache lookups, its API calls and its
  flushes, other calls run.
* **Time.** Locks expire, lazily, at the next call; a request passes the time
  it started at, which may be behind the time other requests pass. Listings
  expire after two minutes, or earlier by eviction.
* **Failure.** API calls fail, or succeed and lose their answer, or are
  answered `state: false`, which not every function looks at. `Unlock`'s
  errors are ignored.
* **Missing answers as values.** `files/getid` answers 0, the root's id, for a
  directory that is not there.
* **Nesting and order.** The decoder undoes name-space declarations from a
  stack that also holds its elements and marks; the printer takes prefixes back
  in the order it gave them, and gives up one when another element needs it; a
  field may shadow one that is deeper, or lie on another's path. Each is right
  for simple documents and can be wrong for a sequence of them.
* **Lengths.** The xor passes and the blocks of the encryption, and the places
  where the lexer and the escaping look ahead, have cases at the borders only.

### What makes each part correct

* Lock system: no two locks protect the same name; the counts, the token index
  and the expiry heap agree with the locks; what is confirmed stays as it is
  until released; no release or hold panics.
* Handler: a request's temporary locks end with it, on every path; two requests
  never change the same name at once, unless an If header was taken for a claim of nothing;
  423 only when the name is in use; every request is answered.
* Drive client: a call changes only what its path named; an answered change is
  seen by the next reader; a listing misses nothing and reading it ends.
* Traversal and answers: every entry at most once and within the depth, and a
  well-formed answer whatever fails midway.
* Drive client, downloads: a file's path is served the file that was listed
  under it.
* Requests: a body or an If header is taken for exactly what it says, or refused.
* XML: what is written reads back as what was meant, in the name spaces and
  with the values it had; the reader and the writer agree on the scope.
* Encryption: either side reads what the other wrote, for every length.
* The heap of locks: indexes point back, and the first to expire is in front.

## The modules

| Module | Models | Used by |
|---|---|---|
| `Paths` | cleaned paths as sequences of elements; `walkToRoot`, the prefix test of `lookup`, `path.Split` | all that has names |
| `MemLS` | `memLS`, method by method | `MemLSProofs`, `MemLSRefinement` |
| `LockSystem` | the locks alone: what the interface promises | `MemLSRefinement`, `DavHandler` |
| `MemLSRefinement` | the mapping from `MemLS` to `LockSystem` | `MCMemLS` |
| `DavHandler` | requests, `confirmLocks`, release, composed with `LockSystem` | `DavHandlerProofs`, `MCDavHandler` |
| `Drive115` | the external service: trees of entries, and what its answers are taken to mean | `DriveClient`, `WalkFS` |
| `DriveClient` | the cache of listings and addresses, lookups, page loop, downloads, removals, moves, new directories | `MCDriveClient` |
| `WalkFS` | one PROPFIND: lookup, walk, multistatus answer, on a drive that changes | `MCWalkFS` |
| `XmlTokens` | names, tokens and the items of a document | the XML modules |
| `XmlDecoder` | `Decoder.Token`: elements, name spaces, the stack | `XmlReader`, `XmlRoundTrip` |
| `XmlPrinter` | `Encoder.EncodeToken`: prefixes and their scopes | `XmlMarshal`, `XmlRoundTrip` |
| `XmlRoundTrip` | the printer and a decoder that reads what it wrote; `TokenSpec` is the two by themselves | `XmlRoundTripProofs`, `SequentialParts` |
| `XmlMarshal` | from a struct's values to items | `XmlTypeInfo`, `Propfind` |
| `XmlReader` | from items to a struct's values | `XmlTypeInfo`, `Propfind` |
| `XmlTypeInfo` | from a struct's declaration to the fields that are written and read | `SequentialParts` |
| `XmlText` | escaping and reading text; `escapeXML` | `SequentialParts` |
| `Propfind` | the body of a PROPFIND and its answer, composed of the reader, the properties and the writer | `MCPropfind` |
| `IfHeader` | the lexer and parser of the If header | `SequentialParts` |
| `ExpiryHeap` | `byExpiry` in a `container/heap` | `SequentialParts` |
| `Crypto` | the encoding of the download call | `SequentialParts` |
| `SequentialParts` | every part that runs by itself, for all its small inputs | `MCSequentialParts` |
| `MemLSProofs`, `MemLSRefinementProofs`, `DavHandlerProofs`, `Drive115Proofs`, `DriveClientProofs`, `WalkFSProofs`, `XmlPrinterProofs`, `XmlRoundTripProofs` | proofs | |
| `MC*` | small instances for TLC | |

**MemLS.** The struct is one record `m` with the code's fields; a node is a
record under its name, without the `n.details.Root` the key repeats, the
owner's XML, and the index into the heap: `byExpiry` is the set of nodes in the
heap, whose order `CollectExpiredNodes` needs only as "due or not" (that the heap
is such a set is `ExpiryHeap`). The helper
methods are operators from the struct to the struct (`Remove`, `Insert`,
`Hold`, `Unhold`, ...), the methods are actions, and each action starts with
`CollectExpiredNodes` as the code does. `claims[c]` are the nodes captured by
the release closure of `c`'s `Confirm`, so that a stale closure would be seen.
Every method takes a time `now` that may be anything up to the present,
because `confirmLocks` reads the clock before it waits for the mutex and
`Unlock`s with the time of the request's start.

**LockSystem.** `locks` maps tokens to `[root, zeroDepth, duration, expiry]`;
there are no nodes. `Create` is refused exactly when the new lock would
conflict with a live one; `Confirm` claims a free live lock for each name that is not empty.
`MemLSRefinement` reads `locks` off `byToken` and the nodes, and `holds` off
the claims.

**DavHandler.** A request is cut at every call of the lock system and around
its call of the drive client, since other goroutines run there: `Arrive`,
`LockSrc`, `LockDst`, `GiveUp` (the `Unlock` of the first lock when the second
is refused), `Confirm` (one list of the If header, by the name it is for: the request's own,
its tag's path, or `NoName` for a tag without a path) and `NoList` (412 when all have
failed), `Reject` (415 and 400 after the locks are taken), `Return` (the client's answer), `ReleaseDst`,
`ReleaseSrc`. `Refuse` is what is answered before any lock is taken.

**DriveClient.** One call is one record of locals; `pc` names the next access
to the cache or the API. `hist` is the sequence of trees the drive has been,
so that a property can ask what a stale listing was once right about. Each API
call may fail before or after its effect, or be refused. `Expire` drops any
listing at any time, which covers the timeout, the eviction and the flush of
nothing. `key` is the cache key, `cid` the directory id, `offset`/`files` the
page loop, `flush` the directories still to flush. A download goes on from the
entry that was found with `LookupURL`, `GetAddress`, `SetURL` and `Proxy`; `urls` is
the part of the cache with addresses, `ExpireURL` its expiry. An address is taken
for the file it leads to, and an empty answer of the service ends the call in a
panic, as the code does. MKCOL of the root asks for an entry with no name.

**WalkFS.** `node` is the resource `walkFS` was called for, `stack` the listings
whose loops are not over (the recursion of `walkFS`), `out` what was sent in
order, `status` the calls of `WriteHeader`. `Visit` is `walkFn` with
`multistatusWriter.write`, `List` the call of `GetFiles` and the `walkFn` that
passes its error on, `NextFile` one turn of the loop, `Close` the writer's
`close`, the status handlePropfind returns and what `ServeHTTP` does with it. Every
lookup, listing and write may fail, and a listing may be any that the drive client's page loop
could have read (`Files`, `Loops`): its pages from one tree after another, now or
earlier (its cache), of the root (a directory that is gone), empty (a refused lookup), or cut short
at a page that was refused, which `GetFiles` does not take for an error
(`client.go:97-116`). `whole` keeps whether a lookup or a page was refused. Which properties a response holds is in
`Propfind`; finding them does not fail (`prop.go`).

**The XML modules.** A document is a sequence of items: start tags with names cut
at their colons, end tags, text. `XmlDecoder` has the decoder's record with the
code's fields (`stk`, `ns`, `needClose`, `toClose`, `err`); `rawToken` makes a token of
an item and `Token` does what the code does around it: `pushElement`, `pushNs`,
`translate`, `popElement` with the check of names, `pushEOF` and `popEOF`. `XmlPrinter`
has the printer's record (`attrNS`, `attrPrefix`, `prefixes`, `defaultNS`, `seq`, `tags`);
`EncodeToken` gives the item that is written, with the prefixes `writeStart` defines,
creates and takes back. What reflection finds is an input: `XmlMarshal` is given values
(a text, a struct with its fields, a Marshaler) and does what `marshalValue`
and `marshalStruct` do with them, the parents of fields on a stack as in the code.
`XmlReader` turns the recursion of `unmarshal` into a stack of frames, because
the document is chosen one item at a time while calls are open. `XmlTypeInfo` goes from
declarations with tags to fields, conflicts and shadowing included, and states what all
three are for: a struct is read back as it was written. `XmlText` has strings
of characters, with those that the rules of XML are about, and references.

**Propfind.** `Read*` gives the decoder one more item of the body, with
`UnmarshalXML` of `propfindProps` and of its names as frames; `Finish` is what
`readPropfind` makes of it; `Answer` writes the multistatus header, a response for
a directory and one for a file, and the end, with `props`, `propnames` or `allprop` and
`makePropstats`, through the marshalling and the printer of the fork, to a client that
has a decoder of its own. What a body says (`Asked`) is defined by the whole
document, by depths and ancestors, and shares nothing with the reader's stack.

**IfHeader, ExpiryHeap, Crypto.** `lex` and the parsers are operators on sequences of
characters; what a header means is defined by the tokens it is composed of.
The heap is a sequence with the nodes' `byExpiryIndex`; `up` and `down` are those of
`container/heap`. Bytes are numbers below 256, xor is bitwise, and a block that is encrypted is
a record of what comes out when it is decrypted.

**SequentialParts.** These parts have no concurrency: each behaviour is of one part,
whose input grows piece by piece (`Grow`), or which takes its steps (tokens
encoded; locks queued and taken out of the heap).

### Assumptions about what is not in the repository

* 115's service (`Drive115`): ids are never reused; `files/getid` gives the id
  of some directory with the path, 0 for none; two entries of a directory may
  have the same name; `files` is sorted newest first; an answer to `files` names the offset
  it was asked for (the loop goes on from the answer's, `client.go:107`). These are what
  `client.go` takes the answers to mean. `ListingComplete`, `EveryCallReturns` and
  `AnswerExact` rest on the last one.
* gcache's expiry and eviction may take any listing at any time.
* Clients of the WebDAV server put no tokens into an If header but ones a
  server gave them. This server gives none (LOCK is answered 405,
  `webdav.go:60-61`), so no condition names a live lock. What else a header says is not
  limited: a list may be for any name, or for none.
* The calls of the drive client return (the HTTP client has no timeout of its
  own; the service or the connection ends them). A PROPFIND that does not come
  to its end (`walk_miss`, below) holds no lock, so it keeps nobody else from
  being answered.

## The runs

Each run is a question. The runs of the findings (`..._miss`, `handler_if`, `propfind_include`,
`propfind_empty`) are violated, the others pass.

| Run | Instance | Shows |
|---|---|---|
| `locks` | names `/`, `/a`, `/a/b`; 2 callers; durations infinite and 1; 2 tokens; clock to 1 | the table's indexes agree, no locks conflict, claims are exact, confirmed locks stay; `memLS` implements `LockSystem`, and a confirmed claim is exclusive |
| `handler` | 2 requests of 9 kinds on `/a`, `/a/b`, `/c`, three of them with If headers; 3 tokens; clock to 1; fairness | temporary locks end, writers exclude each other (but for an If header that claims nothing), 423 has a reason, `Unlock` succeeds, opposite moves do not deadlock |
| `handler_if` | the same, without fairness | **finding**, below |
| `walk` | a drive of 3 levels that changes twice, pages of 2; 12 requests: root, directories, file, each depth; fairness | answers are exact, within the depth and well-formed, whatever fails; the walk ends |
| `client_calls` | `/a/x`, `/b/x`; lists, downloads, removals, moves, MKCOL of `/b`, `/b/b` and the root; 2 calls at a time, 3 in all; 3 trees | answered changes are seen; which entry a call changes or serves, and where MKCOL makes one |
| `client_pages` | a directory of 3, pages of 1, other clients adding and removing; fairness | listings miss nothing, the page loop ends |
| `client_miss` | no directory `/b`, DELETE of `/b/x` | **finding**, below |
| `walk_miss` | PROPFIND of `/b/a`, with `/a` and no `/b` | **finding**, below |
| `propfind` | every body of up to 5 items over 9 start tags, text, comment, end of file; then a directory and a file answered | a body is taken or refused for exactly what it says, and the client reads the names it asked for |
| `propfind_include` | the same | **finding**, below |
| `propfind_empty` | the same, up to 4 items | **finding**, below |
| `sequential_parts` | tokens of 2 levels in 3 name spaces; structs of up to 3 of 38 fields; texts of 4, headers of up to 8 tokens, messages up to 17 bytes; heap of 6 nodes, 2 times | tokens, structs and texts read back; prefixes and scopes agree; headers and messages are taken for what they are; the heap keeps its order |

**Bounds.** `MaxGen` bounds the tokens given out, `MaxClock` the clock,
`MaxHist` the changes of the drive, `MaxStart` the calls started. For the locks, the chain
of the root, a name and a name below it reaches every case of `canCreate` and
`walkToRoot` (self, above, below; that ancestors shared by branches are counted
right is proved for every tree); two tokens reach the reuse of a name after its
lock is gone; one tick tells "due" from "not due", with times of the past passed
as `now`. Two requests are what the handler's properties relate, and the
theorems cover any number; with three tokens both can have all the locks they
ask for at once. Two
calls of the client at a time are enough for each race in question (a reader
and a writer, or two writers); three trees of the drive for a change under a
stale listing and one after it. `MaxVisits` bounds a walk: 6 is one more than
the drive has below its root, so that every walk of an unchanged drive ends below
the bound, and a walk that goes astray is cut off. With `PageSize` 2 there is a
directory of several pages, and listings that are whole, of two trees, or cut short.

`MaxItems` bounds a body; five items hold a root with a `prop` or `include` of two
names next to another child, declarations that are shadowed and undone, and every
way to break off. For tokens, two levels reach a declaration that is redefined
inside the element that made it and restored after it, and `MaxSeq` bounds the
numbers in prefixes: the second is used where the name of the first is taken
(all name spaces ask for the same prefix, `MCHint`). `createNSPrefix` tries numbers without
end; the printer here tries them up to `MaxNumber`, 20, which `MaxSeq`, 2, never lets it
reach. Three fields reach parents that are shared by the
first two and not by the third, and a shadowed field between two others; the fields to choose from
are texts, attributes, pointers, embedded structs and structs inside an element of their own, some with a name
of their type (`XMLName`), some left out when empty, some with tags that are in error. `MaxMore` bounds what is added to each
input: four characters hold `]]>` with one before or after it, CR LF with a neighbour, and a
reference in each place; headers are extended from nothing, from a list and from a tagged list. Messages reach
every length modulo 4, the key's 12, and, with blocks of 16 (5 bytes of data), one to
several blocks. Six nodes are the
least for which `heap.Remove` may have to move an element up, not down.

`CHECK_DEADLOCK FALSE` is set where the bounds stop the system (`MaxGen`,
`MaxStart`, `MaxVisits`, `MaxItems`, `MaxMore`, `MaxDepth`) or where its one request is over
(`WalkFS`, `Propfind`); the handler run checks deadlock.

**Fairness.** `FairSpec` of `DavHandler` and `DriveClient` has weak fairness of
each goroutine's next step (`WalkFS`: of its one): Go runs every goroutine, the mutex of `memLS` is
held for a bounded time, `limiter.Wait` gives out tokens in turn, and calls of
the service return. Nothing makes a client send another request, a listing
expire, or the clock tick. `EveryCallReturns` rests on the bound of the drive's
changes: a directory that grew by a page for each page read would never be read
to its end.

### Findings

* **DELETE of a path below a directory that does not exist** (`client_miss`).
  `GetFiles` takes the id 0 of a missing directory for the root's
  (`client.go:88-92`), so `DELETE /b/x` without `/b` removes `/x` and answers
  204, while the comment at `webdav.go:146-148` wants 404. `MakeDir` does make the check
  (`client.go:225-228`).
* **An If header whose tag has no path** (`handler_if`). A list of `If: <http://host> (<x>)`
  is for the name "" (`webdav.go:371`); without a destination `memLS.Confirm` then looks up
  neither name and succeeds whatever the conditions are (`lock.go:153-184`), and a DELETE or MKCOL goes on with
  no lock of its own, while the comment at `webdav.go:385-388` says that a request whose
  lists all fail is answered 412. Beside such a request another one may change the same
  name, which is the one exception of `OneWriterPerName` (`NamesNothing`). A MOVE is not taken
  so: its destination is looked up.
* **PROPFIND below a directory that does not exist** (`walk_miss`). The same
  answer 0 makes `walkFS` list the root at every directory it visits, so with
  infinite depth it never ends: `/b/a`, `/b/a/a`, `/b/a/a/a`, ... The comment
  at `file.go:25` promises a traversal of the file system. A directory that is
  removed while it is walked starts the same.
* **PROPFIND with `allprop` and `include`** (`propfind_include`). `handlePropfind` calls
  `allprop` without the names of the include element (`webdav.go:279`): what it
  names and is not a live property is not in the answer, while the comment
  at `prop.go:215-216` says that `allprop` returns "the properties named in include" too.
* **PROPFIND with an empty `prop` after one with names** (`propfind_empty`). `UnmarshalXML` judges
  an element empty by the names of all that came before it as well (`xml.go:100`), so
  `<prop><x/></prop><prop/>` is taken, while the comment at `xml.go:90-91` says that it
  "returns an error if start does not contain any properties". `PropfindExact` says what
  the code does with such bodies: the first `prop` and the first `include` must name something.

A MOVE to another directory under another name makes no API call and is answered 204
(`client.go:300-303`). `DriveClient` has it as the code does; no run is about it.

`AnswerWellFormed` allows a plain text after the end tag because the code sends it: when a
listing fails after the first response, `handlePropfind` returns 500
(`webdav.go:295-296`) and `ServeHTTP` writes the text behind the closed body
(`webdav.go:69-74`).

## The proofs

Each proof module extends its component's module; the instance's sets of names,
callers, requests, jobs, tokens and durations, the drive at the start, the page size
and the bounds are arbitrary, under the named assumptions of the modules:

* `NameAssumption`: names are sequences of components, closed under taking the parent;
  the lock system also needs finitely many of them (`MemLSAssumption`).
* `MemLSAssumption`, `DavHandlerAssumption`: the empty name and token are none of the
  others, durations are integers, a job has a destination exactly when it is a MOVE; the lists
  of an If header are any sequence of names and `NoName`.
* `DriveClientAssumption`, `WalkFSAssumption`: the jobs are of the operations there are,
  and the drive starts as one (`IsDrive`): finitely many entries, each known by a
  number above 0, with a name, a parent's number and a kind. Nothing is assumed of
  the tree's shape: parents may be missing or in a circle, and names occur twice.
  The size of a page is any positive number.
* `Regular`, for `AnswersAreExact` alone, as its hypothesis: the drive at the start is a tree
  (`IsTree`: every entry in a directory and nearer to the root than it, no two entries of
  a directory with one name), and the directory of each request's path is in it. Where two
  entries have one name, both are told of under one path; where the directory is missing,
  `walk_miss` shows what happens. TLC finds the drive and the requests of `walk` regular
  (`MCRegular`).
* `TokensAssumption`: what is encoded is XML's. Names of elements and attributes have
  a local part of one piece, which is not "xmlns"; declared prefixes are not those XML keeps to
  itself (`Reserved`), nor are the ones that `createNSPrefix` makes of a name space, with
  or without a number; an attribute `xmlns` is in no reserved name space; and numbers in prefixes
  do not run out (`MaxSeq <= MaxNumber`). Any names, name spaces, attributes and nesting are allowed
  within that. `StringsAssumption` says that the reserved prefixes are strings.

| Module | Proves |
|---|---|
| `MemLSProofs` | `TypeOK`, `RefCountExact`, `LocksIndexed`, `ExpiryQueueExact`, `NoConflictingLocks`, `ClaimsAreHeld`, `ConfirmedLockStays` |
| `MemLSRefinementProofs` | `ImplementsLockSystem`, `ExclusiveAccess` |
| `DavHandlerProofs` | `TypeOK`, `LocksEndWithRequest`, `OneWriterPerName`, `UnlocksSucceed`, `RefusedOnlyIfContended` |
| `Drive115Proofs` | lemmas: listings and pages are exact, changes of a drive leave a drive, and what paths are in a tree |
| `DriveClientProofs` | `TypeOK`, `AnsweredChangesAreSeen`, `ServedAsListed`, `ListingComplete`, `TargetWasListed`, `NewDirWhereAsked` |
| `WalkFSProofs` | `TypeOK`, `DepthRespected`, `AnswerWellFormed`, `AnswerExact` |
| `XmlPrinterProofs` | lemmas: folds as loops, the printer's scopes, what undo records take back |
| `XmlRoundTripProofs` | `TypeOK`, `ReadsBack`, `PrefixesBijective`, `ScopesAgree`, of `TokenSpec` |

**MemLSProofs.** The invariant is `IInv == TypeOK /\ Good(m) /\ ClaimsAreHeld`.
`Good` is a predicate of the struct, because a method takes the struct through
several stages and each stage has to keep it: exact reference counts,
inverse indexes, exact heap, no conflicts, only locks are held. One lemma per
helper (`RemoveGood`, `InsertGood`, `HoldGood`, `UnholdGood`, `RestartGood`,
`CollectGood`) and one per method; the counts need `RemoveCounts` and the
cardinality of the locks below a name with one more or one less. The conflict
rule is not inductive without the counts: `canCreate` takes the presence of a
node for the presence of a lock at or below the name, which is what
`RefsExact` says.

**MemLSRefinementProofs.** `LocksOf` reads the abstract locks off any struct, so that
each stage of a method has its image: collecting expired locks is `LS!Live`
(`CollectIsLive`), inserting, removing and restarting are the abstract changes, and hold
and unhold change no lock. A claim of a node is a claim of its token because tokens
and nodes are one to one, and a token is free exactly when its node is not held
(`FreeNotHeld`, from `ClaimsAreHeld`). `canCreate` agrees with the abstract
conflict test because of `RefsExact`: this is where the interface rests on the
reference counts. `StepImplements` is the step of the refinement, and the temporal
theorem follows from it and the invariant of `MemLSProofs`. `ExclusiveAccess`
follows from `NoConflictingLocks` and disjoint claims.

**DavHandlerProofs.** The invariant is
`IInv == TypeOK /\ LocksEndWithRequest /\ OnlyTemporary /\ OneLockPerName`. The
properties of the handler are not inductive alone: that `Unlock` succeeds needs
that the lock is still there, hence that it does not expire and is held by no
`Confirm` (`OnlyTemporary`), and that two writers exclude each other needs that
a name has one lock (`OneLockPerName`), which `Create`'s conflict test gives.
That two writers exclude each other also needs the stages of a request (`StageOK`): which of them
have which tokens, and that a request with an If header gets past `Confirm` only when its
list names nothing and it has no destination (no condition names a lock, `LockSystem`'s `Confirm`
has nothing else to succeed with). This is where the exception `NamesNothing` comes from, and why there is no
other. That a 423 has a reason (`RefusalStep`) needs both directions of `LocksEndWithRequest`:
the lock in the way has an owner in flight, and it is on that owner's name.

**Drive115Proofs.** A listing shows the entries of a directory by their ranks, the
newest first. `RankBijection` says that ranks number a finite set of ids without gap,
from which `ListingFacts` and `PageFacts` follow: a listing shows every entry
once, and a page those whose ranks are its numbers. The paths of a tree are a recursive function
over parents: `PathFacts` shows that there is such a function, by induction over how far
an entry is from the root, `PathsDiffer` that no two entries have the same path, and
`BelowChild` that what is below a directory is below one of its entries. The
induction is `Induction`, about the set of numbers for which something holds, because
the library's theorems about predicates cannot be used. `DirOfName`, `DirIDsFacts` and
`ChangesKeepDrive` are about lookups and changes; `LargestId` makes the id of a new
entry one that was never used.

**DriveClientProofs.** The invariant is
`HistInv /\ CacheInv /\ UrlInv /\ CallsInv /\ SeenInv`: what a call's locals are worth at
each place of its code.

* `FoundInv` and `CacheInv`: an entry in hand was listed, in some tree the drive has
  been, under a directory that some earlier tree had at the path; every listing in the
  cache and every page read consists of such entries. `TargetWasListed`,
  `NewDirWhereAsked` and `ServedAsListed` follow. "Some tree" cannot be sharpened to
  one tree: the directory's id and its pages are asked for one after the other.
* `PageInv`: while nothing leaves the directory, every entry it had when the loop
  began has been read or has a rank above the offset. New entries only raise the ranks
  (`PageGrows`), so an entry may be read twice, and is never skipped: this is why
  `ListingComplete` holds for the order that the code asks for (newest first) and
  only while nothing is removed.
* `SeenInv`: a directory that a finished change has flushed has no listing in the cache that
  began before the change, unless its reader was already reading when the flush came;
  and the same of the readers themselves, which is what makes it inductive.

**WalkFSProofs.** The invariant is `HistInv /\ Types /\ DepthInv /\ AnswerInv`.
`DepthInv` says of the resource in hand and of every listing on the stack that the depth
that is left, and the length of the path, add up to no more than was asked for; infinite
depth stays infinite, which counting down would not. `AnswerInv` says where the
answer has been opened: not before the first visit, and always by the time a
listing is asked for, so that an error of the walk finds the header sent. Both hold
whatever the drive becomes meanwhile.

`AnswersAreExact` has an invariant of its own, `ExactInv`, which says something only
of walks that nothing kept from the whole drive (`Plain`): one tree, and no lookup or page refused. That the
listings of such a walk are exact is by the places of the loop: as long as nothing is
refused every page is of the one tree (`LoopFacts`), the page that a place falls on reaches it
and shows its entry (`PlaceFacts`), and the last one reaches the count, so that what was read is the listing
(`FilesOf`). Of such a walk it keeps account
(`Accounts`): what was asked for is what has been told of, what is at hand, and what
each listing on the stack still owes (`Owed`: its entries that are left, and everything
below them within the depth), and no two of these have a path in common. That an entry
is told of once is this disjointness; that none is missing is the sum, with
nothing at hand and no stack at the end. `SubSplit` is where it rests on
the tree: what is below a directory is what its listing owes. That a directory is told of
before its entries is not inductive by the order of the answer alone; it needs that the
directory of every path told of has been told of already, if it is asked for (`Orderly`).

**XmlPrinterProofs.** The printer loops over attributes, prefixes and tags with folds.
`IsFold` gives a fold the equations of its loop, by `Induction`. `SetBijective` is
`setAttrPrefix` on the printer's two maps: a prefix that is in use gives up its old name
space, and they stay inverse because `defineNS` declares no second prefix for a name space
that has one.
`SetUndone` is what `popPrefix` does: an undo record takes its declaration back, so
that the maps are what they were before it. `History` says that the whole stack of records
leads back to the empty scope, and `PopHistory` that the end of an element leads
back to the scope of its start.

**XmlRoundTripProofs.** The invariant is `Faithful == Paired(p, d) /\ ReadAs(sent, got) /\
WrittenOnce(sent, item)`. That the two sides agree on the scope (`ScopesAgree`) is not
inductive: an end tag brings back earlier scopes, on the printer's side from its undo records and
on the decoder's from the name spaces on its stack. So `Paired` follows both stacks
element by element: `Past` says which scope the decoder's stack leads back to, `Framed` that for each
open element the printer's mark and the decoder's element have the same scopes below
them, and the same name. A start tag is read as it was encoded (`ReadAs`) because the scope it is
read in is the one the printer had after writing its declarations; for the names of attributes
this takes that a prefix an attribute was given is not given up to another in the same tag. That
no attribute is written twice (`WrittenOnce`) follows for a token whose attributes are
different: one declaration for each prefix (`Single`), and each attribute's prefix stands
for its name space. `SequentialParts` takes the steps of `TokenSpec`, up to `MaxDepth` levels,
when the part it runs is the tokens, and leaves the two alone when it is another.

**Model-checked only**, and why:

* `EveryRequestAnswered`, `EveryCallReturns` and `WalkEnds`: liveness, whose fairness needs
  `ENABLED`, is beyond the proof system.
* `Propfind`'s `TypeOK`, `PropfindExact`, `AskedNamesAnswered`, `IncludedNamesAnswered` and `EmptyElementsRefused`, and
  `StructsReadBack`, `TextsReadBack`, `HeadersExact`, `MessagesReadBack` and `HeapExact` of
  `SequentialParts`: `IfHeader`, `ExpiryHeap` and `XmlMarshal` (which `Propfind` and `XmlTypeInfo`
  extend) have `RECURSIVE` operators, as their code is recursive, and `Crypto` needs
  `Bitwise`; the provers handle neither.

## What is not modelled

* `parseTimeout` (`lock.go:419-445`) and `readProppatch` (`xml.go:445-468`) have no
  caller here: LOCK and PROPPATCH are answered 405.
* The bytes that `Proxy` copies, and the headers it sets.
* `stripPrefix` and the headers `handleOptions` sets: `main.go` leaves `Prefix`
  empty.
* Of the fork: what no code here uses (`Strict` false with `AutoClose` and HTML
  entities, `DefaultSpace`, `CharsetReader`, `RawToken`, indentation, fields with the modes comment
  and any); how comments, directives and processing instructions are scanned
  (each is one item, or an error); reflection, whose findings are inputs.
* Names with no local part, with several colons or with a prefix nobody declared are only
  read, not written. In the structs that are written, no attribute without a name space has
  the name of a prefix the printer makes up, and there is at most one field for text
  (`StructsReadBack`). A field's tag that repeats the name of its type's `XMLName` is not among them:
  the two may have different name spaces.
* `propnames` goes over a map; the order here is one of those it may have, and
  no property depends on it.
* In texts, a reference is one symbol: its spelling (decimal, hexadecimal, names) is left out.
* The values of live properties, which are formatting (a file's name is in `XmlText`).
  No resource of this program has dead properties.
* RSA's arithmetic and base64 are external. `Decode` panics on an answer that is too short;
  the model has that outcome, and no property of it.
* `DavHandler` knows the drive client by its answers, and `handlePropfind` as one call;
  the composition of the two is planned.
* Flags, configuration file, login check, routes, logging.

## Plan

Done: the locks (`Paths`, `MemLS`, `LockSystem`, `MemLSRefinement`, `ExpiryHeap`), the handler
(`DavHandler`, `IfHeader`), the drive (`Drive115`, `DriveClient`, `Crypto`), PROPFIND (`WalkFS`,
`Propfind`), the fork (`Xml*`), and the proofs about `MemLS` and its refinement, `DavHandler`,
`DriveClient`, `WalkFS` and the tokens of the fork.

Next, in this order:

1. `DavDrive`: `DavHandler` composed with `DriveClient`: what the temporary
   locks protect the client's check-then-act sequences from, and what they do
   not.
2. `ExpiryHeap` with `up` and `down` as recursive functions, so that `HeapExact` can be proved for
   heaps of any size.
3. `AnswerExact` for a drive with two entries of one name: what the answer is then.
