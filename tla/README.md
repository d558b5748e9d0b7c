# Verification of wexus

wexus is a web application server in C++: a pool of threads that answer HTTP
requests, applications mounted on an engine, and libraries for sessions, database
access, templates, forms and mail, with a preprocessor that makes C++ of pages.
These TLA+ modules model it as the code has it.  TLC checks them on small instances,
TLAPS proves the safety properties of eighteen of them for all instances.  Paths below are
relative to `src/wexus.src/wexus/`.  `scopira`, the library with the threads, locks,
sockets and counted pointers, ODBC, browsers, mail servers, make and the compiler are
not in the repository and are modelled from how the code uses them.

## The system

| part | files | state | operations | interacts with |
|---|---|---|---|---|
| http_front, http_worker | core/httpfront | client queue, alive flag, one condition | run of acceptor and worker, start, notify_stop, wait_stop | the engine calls start and stop; workers call handle_front_event |
| engine | core/engine, app/mainline | shutdown flag with mutex and condition, fronts, applications | start, notify_stop, wait_stop, handle_shutdown, dispatch | fronts and applications, main |
| file_quitfront, script_front | core/quitfront, core/scriptfront | alive flag | run, notify_stop | ask the engine to shut down |
| connection pool | db/pool | stack of connections, index of the next free one | pop, push | the three kinds of event |
| query cache | core/datacache | rows, dirty flag, reader-writer lock | get, flush, set_dirty, flush_dirty | pool (get for an event), database |
| sessions | core/sessionmanager | id -> counted object, file store, reader-writer lock | get_session, set_session, clear_session, prune | turbo, handler and form reactors |
| template cache | core/recmanager | file name -> token tree, reader-writer lock | merge_template, flush | tokenizer |
| tick manager | core/tickmanager | list of tickers, alive flag | add_ticker, run, notify_stop | applications |
| request reading | core/httpfront, core/http | the block being read | process_event, parsers | worker, http_event |
| reply | core/httpevent | status, headers, buffers, two sent-once flags | set_*, send_headers, send_file | reactors |
| reactors | core/listreactor, default, redirect, file, rec, filemanager | chain, search directories | handle_app_event, find_file | event |
| turbo | turbo/turboreactor, session, register | notes, errors, thread-local event | handlers, add_next_note, set_session | sessions, pool |
| statements, records | turbo/turbostatement, db/statement, db/dbrec | query text, cursor, columns read so far; transactions of a connection | operator<<, execute, fetch_next, get_string, turbo_xtion | pool, ODBC, templates |
| form pages | turbo/widgets, turbo/validators, rec/html | the event's form cache | widgets, db_to_form, check_form | browser, turbo |
| element forms | ui/* | element tree, push/pop pairs | handle_form_event | sessions, pool |
| templates | rec/rec, basetoken, memrec | token tree, scopes | tokenize, run | template cache |
| markup | turbo/formatters | place in the text, level of lists and quotes | format_markup | users' texts |
| wxmake | turbo/wxmake | generated sources, Makefile | process_wx, mkapp, mkmakefile | make, the compiler |
| mail | core/smtp | connection, receive buffer | send_mail | a mail server |

What is hard.  Every request runs on its own worker thread and meets the others in the
pool, the caches, the session map and the shutdown; three locking idioms (mutex with
condition, notify outside the mutex, reader-writer lock given up between check and act)
are used; locks are nested (cache over pool, engine over jobs); pointers outlive the
lock that protected them; sessions are stored in files that a restart reads back.
Handlers end by exceptions with transactions open on a connection that others get next.
And much of the library is text that must come back: values through three encodings and
a browser, rows through a driver that hands out a column once, pages through a parser
with one buffer and three flags.  `PROJECT.json` lists the hazards at their lines with
the properties that cover them.

Correct means, per part: no connection lent twice, lost or handed on in a transaction,
nobody asleep beside a free one; no stale rows after a flush; no client lost, served
twice or left beside an idle worker; every job started before it is told to stop, and
the program ended by one request; a session logged out of stays away and another
survives a restart; a request judged and answered by its content, whatever the network
does to it; a note shown once; a page that says what its author wrote, and a form that
shows and stores what its user meant.

## Modules

The concurrent core:

* `ConnectionPool` - `db/pool.cpp` with the events that draw from it.  pop and push run
  with the mutex held, so each stretch between taking and giving it up is one action;
  `waiting` is the set of threads inside `condition.wait`, which `Push` (notify_all)
  empties.  A woken thread runs the test again, in competition with newcomers.  The
  slots at and above `next` are the free ones, those below hold stale pointers.
  `EndEvent` is the destructor of an event.  `init_pool` is `PoolInit`.
* `DataCache` - `core/datacache.cpp`.  Rows are the version of the database they were read
  from.  A section under `m_qlock` that only assigns is one action; the write section of
  `get` runs a statement, so it has a beginning (`GetLock`), the statement, and an end, and
  `writer` is the lock.  `announced` and `floor` are history: the version at the last
  set_dirty, and what a thread may rely on since its flush_dirty.
* `CachedEvents` composes both: events call `db()`, which may sleep in pop, and cache
  methods, and `get(handler_event&)` calls `db()` inside the write section.
* `TurboEvents` extends `ConnectionPool`: handle_app_event from the flush of the notes
  to the end of the event, the handler as calls in any order (notes, sessions, errors,
  updates, transactions within each other) that returns or throws anywhere, and the
  catch in `turbo/register.h`.  `pending`, `visible` and `fate` say what became of a
  transaction's work; flush_notes is two steps, since it takes no lock.
* `HttpFront` - the acceptor and workers of `core/httpfront.cpp` around one `event_area`.
  `notify` comes after the mutex is released and is a step of its own; it wakes any one
  sleeper, the acceptor included.  One connection, `Probe`, is followed by name.
* `Job` - what the engine expects of a front or application: it ends once told, and never
  untold.  `HttpFront` is shown to implement it, `Engine` relies on it.
* `Engine` - `core/engine.cpp` as main and the jobs' threads run it.  The mutex is a
  variable because start, notify_stop and wait_stop call into the jobs with it held.
  A caller of handle_shutdown is an http worker that serves `/quit/` or a file_quitfront,
  which may be past its test of `m_alive` when it is told to stop.
* `SessionManager` - `core/sessionmanager.cpp` and the reactors.  get_session is a look-up
  under the read lock and, after a load from a file, an insertion under the write lock.
  Objects are counted: `Collect` deletes those that neither the map, an event's count_ptr
  nor get_session's own holds.  `raw` is the pointer an event keeps.
* `TemplateCache` - `cache_rec_manager`: the look-up under the read lock, which a hit
  keeps for the merge, the second look-up, load and merge under the write lock, `Flush`,
  and files that come and go in the directories meanwhile.
* `TickManager` - the ticker thread: a minute is cut into sleeps with a look at the
  alive flag after each, then each ticker has its turn.

The connection to a client:

* `RequestReader` - `http_worker::process_event` and parse_request.  The client writes the
  symbols of a request and may stop or close anywhere; `Read(n)` is a read_short that
  returned n of them and the whole turn of the loop that follows, with its early exits.
  Text is reduced to line ends, the separators of a form and one other symbol; what the
  line and header parsers make of the text are fields of the request.
* `HttpEvent` - the reply half of `core/httpevent.cpp` and the end of send_to_engine: the
  handler's calls in any order, check_headers, check_status and send_headers, and `out`,
  what has been written to the connection.  Bodies are lengths, dates numbers.
* `HttpExchange` composes both for one connection: the status the reader leaves decides
  in `SendToEngine` if a handler sees the event.
* `SmtpSession` - `core/smtp.cpp` as client and a mail server that answers with one line
  or several, refuses, or goes away; `Script` is what send_mail has still to do.

Machines of one thread:

* `Statement` - a statement's streamed text, variables and cursor, row_load's pieces of
  a column on demand, and the two kinds of record made of it, over a driver that hands
  out each column once and from left to right.
* `Forms` - a form_session: the element tree, the commands of a browser by tag, replace,
  push and pop.  The session's lock makes an event one step.
* `FormPages` - a row edited through a form as turbo's handlers do it, over `Widgets`:
  every widget of `turbo/widgets.cpp` and `rec/html.cpp`, as what a browser shows and
  posts of its tag, and the checks of `turbo/validators.cpp`.
* `WxProject` - a directory with sources that are edited, wxmake's skeletons and
  Makefile, and make, one target at a time, which ends where a command fails.

Algorithms, as operators on texts:

* `HttpText`, `Upload` (`core/http.cpp`), `Routing` and `Files` (the way of a request
  through engine, application and reactors down to a file); `RequestText` says what each
  owes to a text of its kind.
* `Template` (`rec/`: tokenizer, token tree, records), `WxMake` (process_wx, byte by
  byte), `Markup` (format_markup, token by token); `PageText` has, for each, a second
  definition of what a text means that goes by whole tags instead of the code's buffers
  and flags, and compares.

`Parts` puts side by side what shares nothing: a behaviour of it is one of the machines
or the growth of a text, by the pieces that mean something to its algorithm.
It extends the modules that theorems are about, so that the runs and the proofs speak of
the same definitions, and instantiates the others.
`*Proofs` hold the theorems of a module; `MC*` give the constants for TLC.

Definitions called "Mutant" are slips of the code that are not there; they stand beside
the definition they vary and no specification uses them.  Every property checked below
fails when a mutant replaces its definition.

## Runs

| run | instance | shows |
|---|---|---|
| `pool` | 3 threads, 2 connections | connections neither lost nor lent twice and no lost wakeup (`PoolSafe`), pop returns once arrivals cease |
| `cached` | 2 events, 1 connection, 3 versions | lock discipline (`CacheSafe`), freshness after flush_dirty, reads never go back, get returns if the cache is only locked with a connection in hand |
| `cached_deadlock` | same | **violated**: get(handler_event&) waits for a connection under the lock |
| `httpfront` | 2 workers, 1 pending connection | bounded queue and no client beside a sleeping worker (`QueueSafe`), each served once and taken in the end, implements `Job` |
| `engine` | 3 jobs, 3 callers | order of start, told and flag (`ShutdownOrder`), main waits for all jobs, one request ends the program |
| `engine_stuck` | same | **violated**: two requests never end |
| `engine_early` | same | **violated**: main leaves while jobs run |
| `session` | 2 events, 2 ids, 4 objects | map consistent (`SessionsSafe`), logout final, login durable, one object per session |
| `session_dangling` | same, no housekeeping | **violated**: a session deleted under an event |
| `request` | 16 requests, buffer of 3, limit 5, 2 calls of the handler | the verdict and body do not depend on how the network cuts the request, a request written whole is answered, one header first and nothing where nothing may follow (`ReplyWellFormed`), announced length is sent |
| `request_throttled` | same | **violated**: a file sent with a throttle has no body |
| `parts` | 7 kinds of text of 4 to 7 pieces, 8 machines | what `Parts` is made of, below; 809 440 states, about three minutes with TLC's coverage on |

What `parts` shows, kind by kind:

| property | part | says |
|---|---|---|
| `ValuesReturn`, `QuotesReturn` | `HttpText` | encoders and decoders are inverse to each other |
| `UploadArrives` | `Upload` | a multipart body's fields arrive as sent |
| `RequestRouted` | `Routing`, `Files` | a request reaches the first reactor that wants it, and the file it names |
| `TemplateMeans` | `Template` | a merge prints what the tags say, nested ones too |
| `WxMeans` | `WxMake` | the generated functions print the page and hold its code, with its lines |
| `MarkupNests` | `Markup` | what is written is properly nested, whatever users type |
| `RowsReadAsStored` | `Statement` | a column reads as stored, in whatever order columns are asked for |
| `PagesReturn` | `Forms` | a pop brings back the element that was there, as it was |
| `FormReturns` | `FormPages` | a form posts again what it shows, and only what passes is stored |
| `NotesOnNextPage` | `TurboEvents` | a note is shown on the next page of its session, once |
| `XtionIsAtomic` | `TurboEvents` | a transaction's work is seen whole or not at all |
| `PooledConnectionsAreClean` | `TurboEvents` | a connection in the pool is in no transaction |
| `ProgramFollowsSources` | `WxProject` | what make has finished by the Makefile is what the sources say |
| `MailArrives` | `SmtpSession` | a server that refuses nothing gets every mail as meant |
| `TemplatesStay` | `TemplateCache` | a tree stays while it is merged and is read once between flushes |
| `TicksOnTime` | `TickManager` | tickers run in their minutes, and the thread stops soon |

The bounds.  Three threads and two connections give a full pool, two sleepers, a
newcomer that overtakes and returns out of order.  Every conflict of cache and pool takes
two events; three versions let one change be announced with a second under way.  Two
workers give a queue of up to five, an idle worker beside a busy one and a notification
that may go to anyone.  In the engine one job has two threads that ask, one has one and
one none.  Two events and two sessions give every overlap of a load, a login, a logout
and a prune of one session, and another that must be spared; four objects suffice for
each event to load while the map holds two others.  `MaxBacklog`, `MaxVersion`, `Ids` and
`Objs` are the bounds on data.  `Housekeeping` lets prune and clear_session(id) happen:
no code in the repository calls them, so the run that looks for a dangling pointer does
without.  `MCEngine` switches deadlock checking off because main and the jobs do end.

The buffer of `request` is shorter than the four symbols between header and body, so that
the marker is met over two and three blocks, and a body continues behind it in the same
block or the next.  The requests have each method and each flaw once, a body longer than
announced, one that looks like an end of header, and one above `MaxPost`.  Two calls give
every pair of a handler's calls.

The pieces of `parts` are the characters that mean something to the algorithm, whole tags
where a tag is several characters, halves of tags, and one or two that mean nothing
(`MCParts` lists them).  Texts of that length hold an escape with neighbours, a delimiter
of an upload but for its end, the longest string to match with a rest, an if with its
branches in a foreach, code between two texts, a list in a list.  Of templates only those
that go on to well-formed ones grow (`Begins`), so that they may have seven tags: an if
whose elseif or else comes after an if within it, and the text that tells whose it is,
take six, in a foreach eight.  `SizeWidth` is 8 bits:
sums with npos wrap around as with 64.  `BufSize` 3 makes a value of 2 fit, one of 4
come in two pieces, one of 5 in three.  Two turbo threads share one connection, so that
each finds what the other left; `MaxDepth` 2 has a transaction within another; two notes
let one be shown while one is queued.  A project of one controller and one page, six
moments: an edit before, during and after each command of a make.  Two mails over one
session have the second start in what the first left.  Three changes and two flushes have
a file change before, between and after loads; a minute of three sleeps has each of its
sleeps be first, last and neither, and six minutes are twice the longest frequency.
Texts end at their bound and threads when they stop, so deadlock is not checked in
`request` and `parts`.

### Disagreements with the documentation

1. `core/datacache.cpp:97` waits for a connection while the cache is locked
   (`cached_deadlock`).  `GetReturnsGivenConnection` shows that taking the connection first,
   as the other overload of get makes its caller do, is enough.
2. `core/engine.cpp:208/231`: wait_stop joins the jobs with the mutex held that a second
   handle_shutdown needs (`engine_stuck`); a file_quitfront that wakes from its sleep
   during a shutdown is such a second one.  `LoneShutdownReturns` shows one is fine.
3. `core/engine.cpp:224`: wait_stop returns without waiting for anyone if the shutdown is
   complete before main comes to it (`engine_early`).
4. `core/sessionmanager.cpp:168`: the pointer get_session returns is not counted
   (`session_dangling`).
5. `core/httpevent.cpp:80`: the loop for a throttle is the "else" of the wrong "if", so that a
   file sent with "the speed to throttle the upload at" (`core/front.h:80`) has no body
   (`request_throttled`), and without a throttle the second loop takes over after a block.

### Premises

What the code does otherwise than its properties say, excluded by a premise or an
exception of the property and not by a run of its own.

Sessions and requests:

* A session logged out of while another event is loading it returns: get_session inserts
  what it has read without another look (`core/sessionmanager.cpp:180`), though
  clear_session is to "remove the given session" (`core/sessionmanager.h:110`).
  `LogoutSticks` excepts it.  With a file store two events may have two objects of one
  session, of which the map keeps the second: `OneObjectPerSession` is stated without one,
  and that the first may be deleted under its event is a case of `SessionOutlivesEvent`.
* `pm_content_size` is not initialised (`core/httpevent.h:87`): `InitialSizes` has a value
  that is not 0, and `LengthIsSent` speaks of the other case or of send_file, which sets
  it.  A reply that is held back (302, 412) announces the length of what is held back;
  `LengthIsSent` excepts it.  set_modified_time is called nowhere in the repository, and
  the dates timestamp_to_httptime writes are none that httptime_to_timestamp reads.
* A POST cut short by a client that closes is handled as if it were complete;
  `VerdictOfTheWhole` and `BodyIntact` speak of requests that were written whole.
* A suffix match takes a request one shorter than its string, since npos + size wraps
  around to the request's size (`core/listreactor.cpp:104`, otherwise than "> is suffix",
  `core/listreactor.h:91`); and a negated match with an empty string is not negated.
  `RequestRouted` excepts both (`Excepted`).  The operator character of an encoded match
  is read at index 1 and stays in the string (`core/listreactor.cpp:71`, otherwise than
  "[!] {<>=} string", `core/listreactor.h:89`), so the reactor of "=abc" looks for "=abc"
  anywhere; `Decoded` does what the code does.
* The answer of a default_reactor's reactor is ignored, so a reply may be blank; the first
  directory that has a directory of a name but no index in it hides files in later ones.
* url_encode writes codes below 16 with one digit and codes above 127 as negative numbers,
  so only printable ASCII comes back; with `form`, url_decode keeps the escape "%3D" but
  not "%3d", which url_encode itself writes (`core/http.cpp:58`).
* decode_and_parse_upload looks for the delimiter anywhere in a line: `UploadArrives` is
  about contents that do not hold it.

Turbo and the database:

* `Overlap` is FALSE in the run: of two requests of one session at a time, one may clear a
  note the other has queued since it copied them (`turbo/session.cpp:97`), and the note is
  not shown on "the NEXT page" (`turbo/turboreactor.h:171`); `NotesOnNextPage` fails with
  `Overlap` TRUE.  Notes do not survive a restart.
* The end of a nested transaction commits or rolls back the outer one's work and turns
  autocommit on for the rest of it: `XtionIsAtomic` is about those that are not nested.
* Only a controller's method has a catch around it; a plain function page does not.
* A value that fills the widest column loses its last character in a db_rec; what is read
  between execute and the first fetch_next is the row of before; close drops the bound
  parameters.  `RowsReadAsStored` excepts the first two.

Pages and forms:

* A replaced element's pair stays, and a pop takes the first pair of its element
  (`ui/formreactor.cpp:60`), which is no "stack, for later retrieval with pop"
  (`ui/element.h:101`) for an element that is pushed again after it was replaced:
  `PagesReturn` is about handlers that do not push it again (`Spare`).
* An empty posted field gives way to its default and an unchecked box whose default is
  checked comes back checked; a drop-down with a value it lacks shows its first; an empty
  option or radio button that was chosen gives way to a default; a textarea_hrec does not
  encode its text.  `FormReturns` excepts what of these a user of
  the page cannot tell from his own choice.
* `"??>"` does not close a tag of a .wx file and `"<<?"` opens none, a backslash goes into
  the literal as it is, blank text of up to ten characters is dropped, and code whose end
  is missing is printed as text.  `WxMeans` excepts what is not `Regular`, that is where
  tags are not seen, and says the rest as the code does it.
* A text that ends in a mark leaves the tokenizer of markup with the mark's type, and a
  bare mark of a list counts as level -1: excepted from `MarkupNests`.
* No rule of the Makefile names included files or headers, a page that is removed stays
  listed, and an include that fails leaves a .cpp file that the next make compiles.
  `ProgramFollowsSources` is about sources that are edited and added, with commands that
  read and write in one moment.
* The mail client ignores reply codes (send_mail is true for a refused mail, whose text
  is then read as commands), reads one line per reply, drops empty lines and names copies
  in the header only.  `MailArrives` is about a server that refuses nothing.
* Tickers are added before the thread starts: run keeps the end of the vector it saw, so what
  becomes of a later one depends on whether the vector moves, and is undefined if it does.

## Fairness

Threads that can run do run: weak fairness per thread.  A sleeper is only woken by a
notification; where the wait has a timeout (the acceptor's), waking is fair too.
Locks under contention (the engine's mutex, `m_qlock`) are granted in the end, strong
fairness of the section.  Handlers return and clients finish sending or go away:
no read of the server has a timeout, so this is a premise about clients.  accept does not
fail for ever: the loop in `http_front::run` does not look at alive after a failure.  No
fairness on requests, shutdown requests or spurious wakeups.  In `HttpExchange` only
the worker is fair: `Answered` does not rely on the client writing on or closing.
Pop gives no turn to the one who waited longest: `PopReturns` therefore says that
sleepers are served once arrivals cease, and in `CachedEvents` `PopTake` has strong
fairness so that only the deadlock, and no starvation, can defeat `GetReturns`.
`Parts` states no fairness: its properties are invariants.

## Proofs

Each proof module defines an inductive invariant, proves that it holds initially and is
preserved by each action, and derives the properties.

* `TurboEventsProofs` has the pool first (any finite set of threads, any positive pool
  size).  The invariant says that loans and free slots together are a bijection to the connections:
  no two places have the same one, none is missing, and `next` counts the holders.  The
  three need each other: that push hits `next > 0` comes from the count, that the pushed
  connection is not already free from the first.
  Events (any threads, connections, sessions and notes, any depth and number of calls)
  build on it.  `EventsUseThePool` is a refinement: each step of an event is a
  step of the pool or leaves it alone, so all that is proved of the pool holds here.
  `ConnectionsComeBackClean` needs that transactions are open in handlers only and that
  all that is not clean belongs to one (`XtionsInHandler`, `DirtyInXtion`); it holds for
  nested transactions too, because the inner one's end cleans more than its own.
  `XtionsAreAtomic` follows the work of the outermost transaction through its stack.
  `NotesShownOnce`, for requests that do not overlap, needs that a note is in one place:
  queued, or shown by one event, and in both only between the copy and the clearing.
* `DataCacheProofs` (any threads, any number of versions).  `CleanMeansFresh` alone is not
  inductive: the rows a refresh has fetched are newer than anything announced before it took
  the lock, which needs that set_dirty cannot run while it holds it.  Events that use
  cache and pool together refine both (`EventsKeepCacheProtocol`,
  `EventsKeepPoolProtocol`): each step is one of the cache's or leaves it alone, and the
  same of the pool, so what is proved of the cache alone holds in them
  (`CacheSafeInEvents`, `ReadsCorrectInEvents`).  That they may wait for each other for
  ever is no step's fault and stays with `deadlock`.
* `HttpExchangeProofs` (any set of requests, size of buffer, limit of posts, and number of
  calls of a handler).  `JudgedByTheWhole` and `BodyArrivesIntact` rest on what the reader
  has taken being a prefix of what the client writes (`ReadSoFar`): in the head, it is all
  kept and ends before the marker does; in the body, what is stored is what follows the
  marker up to the bytes read.  The lemmas under it say where the marker is first found in
  such a prefix, and what a piece cut out of joined sequences is.  The reply's properties need
  which calls are possible when: the header is out exactly if the phase says so
  (`HeaderOnce`, `Phases`), a file under way has announced what it has left to send
  (`FileUnderWay`), and `received`, a history variable that counts the bytes behind the
  header, is the length announced less that.  Requests are as `RequestsAssumption` says: a
  text without the marker that does not end in part of it, then the marker, then the body.
* `HttpFrontProofs` (any finite set of workers, any backlog).  That no client waits beside
  a sleeping worker is a count: clients in the queue against workers awake and a push
  that is about to notify.  `ServedOnce` is inductive once it is spelt as three parts:
  one thread, one place in a queue, and never both.  `FrontStaysAJob` is the safety half
  of the refinement to `Job`.
* `EngineProofs` (any number of jobs, callers and spurious wakeups).  That a told job was
  started needs that only threads of started jobs ask, and that start holds the mutex
  until all are started; the rest is how far each loop over the jobs has come.
* `SessionManagerProofs` (any events, ids, objects).  `LogoutSticks` needs that whatever
  carries an id - object, file or pending load - carries one that was issued, since a login
  takes an unissued one, and that a load in progress has the id it was asked for.
* `PartsProofs` (each for any value of its constants) has five parts that share nothing.
  Of the template cache: a tree stays because whoever merges it has the lock
  (`LockedWhileMerging`), as reader or writer, and a flush needs it; it is new enough
  because all that is cached was read after the last flush.  Of the ticker: its calls are
  the quotient of the minutes by its frequency, rounded up; a lemma says that it grows in
  the ticker's minutes and in no others.  Of wxmake's directories: a target that is not
  older than what it is made from was made from what that still says (`MadeFrom`), and the
  program has every object not newer than itself (`LinkedLast`).  That no object is
  forgotten needs that the Makefile make goes by, and the one that has replaced it since,
  know every object (`RulesRight`, `MadeInOrder`): the latter follows from sources not
  vanishing and make reading its Makefile once.  Of statements and their records: what
  is cached of a row is the current row's (`RowRead`), read up to the column the driver is
  at; the names are the open cursor's or will be asked for again (`CursorKnown`); a query
  that is streamed has a variable for each mark (`Streamed`); and what a record shows was
  copied from its rows (`RecordOK`).  That blocks make up the whole value is an induction:
  a set of numbers that is not empty has a least one (`LeastNumber`), and a recursive
  function exists because its first n values do for each n (`AllNumbers`, `Iterates`).
  Of mails: the lines on their way are those of the mails from the one that the server is
  at to the one that the client is at (`InStep`), so it reads each as what it was sent
  for, and what it has collected of a text is the beginning of what was meant; that a true
  result stands for a mail that is taken needs that, with replies of one line, no reply is
  left over when the next is waited for (`Lockstep`).
* `TextProofs` is about texts of any length.  Each encoder is a text of codes, one for each
  character, so it goes on with one more code when a text grows by a character
  (`CodedAppend`), and each decoder is a fold or a reading from the end, of which a lemma
  says what one more character does to it (`QuoteFoldAppend`, `FormFoldAppend`,
  `ReadsBlock`).  What is proved of a longer text from a shorter one then holds of all
  (`AllTexts`): that a number is in every set that has 0 and is closed under + 1 stands in
  for the induction that the provers cannot be given.  `QuotesComeBack` needs that the
  decoder is outside an entity between two codes; `ValuesComeBack` that a code is read as
  its character with its escape (`ReadsEncoded`), that escaped separators do not separate
  (`FormText`) and that no code has a separator of cookies in it (`UrlWritten`).
  `FormsComeBack` goes from there to forms.  A widget of each kind keeps a value that it can
  show (`WidgetKept`): a page has it back from what was encoded (`QuotedReturns`), or as it
  is where nothing is (`PlainDecoded`).  Of a page the browser posts it for the field
  (`RenderedPosts`), one control at least being on with it, of radio buttons the last
  (`GreatestNumber`), and none with another.  The invariant (`FormPagesInv`) says that the
  page as it came is what the last request made of the row as it still is, and that a row
  stored is what that request posted.  The proof found `ShownBy` short of a case: of an
  empty value a radio button, and of an empty option a drop-down, is as its default has it.
  `UploadsArrive` reads an upload from where each of its parts stands (`IsUpload`).  The
  first delimiter behind the file is the one the browser put there (`DelimiterFound`): one
  that began earlier would be in the file, or run into the line end that follows it, which
  a boundary has none of (`UploadAssumption`).  The two loops over lines and blocks are
  functions that look ahead (`RecursionExists`), so each block is what its first line and
  the rest of it are (`LineRead`, `BlockBefore`, `LastBlock`).
  `RequestsRouted` takes the way of a request step by step: a search through a list finds
  its least index (`LeastIs`), in the applications (`Dispatched`), the reactors
  (`FirstIsAsked`) and the directories (`FoundIs`).  That an ifmatch asks its list as it
  should (`AsksAsSaid`) is where the sums that wrap around come in: npos plus the length of
  a string is one less than that (`WrapIs`), which no place of a match is, but for the
  requests that are excepted.  A second slash is never asked for, since the manager asks for
  one only where there is none (`SlashOnce`).  A file's extension is read backwards from the
  end of its path and its last name forwards from the start; both are what is behind the
  last slash (`LastPiece`).  A listing's links are read as names behind the directory's
  (`NameBehind`, `DirectoryLink`), and no directory before has one of these, for it would
  have had the directory, too (`EntryIsThere`).  It rests on `RoutingAssumption`: a string
  is shorter than npos, a redirection's address does not end in two slashes (else it could
  be mistaken for one for the sake of a slash), and a search directory is a tree
  (`IsTree`), with names url_encode can write.  The proof found two case distinctions of
  `FoundIn` and `Look` to overlap, which TLC reads in order and TLA+ does not; they are in
  the order of the code now.

The constants' assumptions are those named in the modules; TLC evaluates them in the
runs (`PartsAssumption` has those of the modules in `Parts`).  Model-checked only: all
liveness, which with ENABLED is out of the prover's reach, hence the liveness half of
`Job`, `Answered` and the like; those of the algorithms on texts that use RECURSIVE
operators, which the provers do not take (`TemplateMeans`, `WxMeans`, `MarkupNests`); and
one machine, `PagesReturn` (the elements under an element are a recursion).

## Not modelled

* `db/dbtypes`, `db/connection`: conversions between ODBC's structs and C++ types and
  one-to-one calls, without state.  (A dbdate of a timestamp takes the month as tm has
  it, one less than the date's.)
* `ui/dbwidgets`: one widget that copies a field to a buffer and back.  Of `ui/`, also
  element_matrix, and what the widgets look like.
* `core/scriptfront`: its run is `assert(false)`.  `core/checkers` is called by nobody.
  `core/mimetypemanager` is a look-up in a table.
* Of `core/http`, header lines and dates; of `rec/`, the saved form of token trees and
  reports; of `turbo/`, exceptions of plain function pages, whose effect on the worker's
  thread is scopira's; of `core/sessionmanager`, set_session(ses), called by nobody,
  and failures of the file system.
* Registries, start-up, interfaces without code (`core/loop`, `core/reg_types`,
  `core/handler.h`, `turbo/controller`, `turbo/exception`).
