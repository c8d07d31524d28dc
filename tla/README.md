# A TLA+ development of scrud

scrud is a Go library over `database/sql` that maps structs to tables: it
inserts, selects, updates and deletes structs by primary key, manages the join
tables of many to many fields, reads query results into structs, slices and
maps, and builds SQL from query expressions.  This directory holds TLA+ models
of the parts of it where concurrency, failure and ordering matter, the TLC
configurations that check them on small instances, and TLAPS proofs that carry
most of what is checked over to every instance.

Model checking: `tlc -config X.cfg M`.  Proofs: `tlapm P.tla` for each module
`...Proofs`.
Every property and theorem has a comment that says what it states of the code.

## 1. The system

| Component | Source | State it keeps | Operations |
| --- | --- | --- | --- |
| table registry | `internal/table/table.go` | process-wide map `tables` under `tmutex`; per call a private map `x`; the `Table` and `Column` structs under construction | `TableOf`, `tableOf`, `Column.init`, `ColumnMap`, `Find` |
| column values | `internal/table/table.go` | none of its own: it reads and writes fields of the caller's struct | `GetValue`, `SetValue`, `Scan`, the encodings, getters and setters |
| insert, select, update, delete | `scrud.go` | none of its own: one row of a table and the caller's struct | `Insert`, `Load`, `Select`, `Update`, `Delete` |
| relation select | `scrud.go` | none of its own | `SelectRelation` |
| many to many manager | `many_to_many.go` | the key of one object and the names of the join table; the rows are the database's | `Empty`, `Has`, `Set`, `Add`, `Remove` |
| rows | `rows.go`, `fetch` in `scrud.go` | an open `sql.Rows`, that is a connection of the pool, or an error | `One`, `All`, `MapOne`, `MapAll`, `Row`, `Scan`, `MapScan`, `Next`, `Close` |
| DB and Tx | `scrud.go` | a `sql.DB` or `sql.Tx` and the driver's starter | thin wrappers of the above |
| query expressions | `query/query.go`, `expr.go`, `cond.go`, `util.go` | a template, its arguments, an error; the starter's marker counter | `Expr`, `Expand`, `Cond`, `And`, `Or`, `Not`, `In`, `Eq` and the like |
| statement generators | `query/create.go`, `retrieve.go`, `update.go`, `delete.go` | the clauses of one statement, in a builder | `Insert`, `Select`, `Update`, `Delete`, their clauses and `Expand` |
| snapshot | `snapshot.go` | none of its own: rows of a struct's snapshot table | `Insert`, `Select`, `Delete` |
| struct maps | `map.go` | none | `StructToMap`, `MapToStruct` |
| zero types | `zero.go` | a value | `Scan`, `Value` |
| naming | `format/format.go` | replaceable functions | `TableName`, `ColumnName`, `ManyToManyTableName`, `SnapshotName`, `CamelToUnderline` |

How they interact:

- Every operation on a struct starts with `TableOf` on its type.  Its result is
  shared by all goroutines for the life of the process and read without a lock.
- `insert`, `retrieve`, `update`, `delete`, `selectRelation` and the manager
  read the table, call `GetValue` on the struct's columns, build a statement
  with the generators, expand it with the driver's starter (which chooses the
  markers), and run it on a `DB` or `Tx`.  Each is a single statement, except
  `Set`, which is two.
- Selecting goes through `fetch`, which returns a `Rows`; the readers of a
  `Rows` that return one result close it.
- All state that several goroutines share is the map `tables` (under a lock),
  the connection pool and the database.  A struct passed to an operation
  belongs to the caller.

### What is hard, and what makes each part correct

**Table registry.**  The recursion through relation columns meets types that
are still under construction, in the same call and in other calls; it may fail
halfway after having published some types.  Correct means: whatever is in
`tables` is complete and never written to again; a call that succeeds leaves
nothing unfinished behind; the recursion ends on every schema; columns are
named after the keys they refer to, although keys are named during the same
recursion; and the readers of a table, who follow its keys without a test of
their own, arrive at a key that is there.

**Insert, select, update, delete.**  An operation reads the clock and the
struct, and changes the struct, before its statement runs; others run in
between; the statement, or only its answer, may be lost.  Correct means: after
a success the struct and its row agree in what the operation was about; added
times are never rewritten; a nil relation is stored as NULL; keys appear in a
struct only through a single insert.

**Many to many manager.**  `Set` is a DELETE and an INSERT.  Correct means:
each operation does exactly what it was asked on the rows of its own object; a
failure leaves a state the caller can reason about; inside a transaction it is
atomic.

**Rows.**  A `Rows` holds a connection until it is closed, and `database/sql`
has `Next` return false both at the end and on a failure.  Correct means: every
way out of a reader releases the connection, success is never reported for a
part of a result, and an error leaves the destination as it was, or with the
rows, or the part of a row, that were read before it.

**Query expressions and statement generators.**  Sequential, but used in any
order: conditions are values that share slices, statements nest, and one starter
may expand several of them.  Correct means: a format is read as its comment says;
names reach the text as they were given; the text means what was connected, under
the precedences of SQL; markers and arguments correspond in number and order,
whatever is nested; no operand's error is lost; a condition never changes.

**Relation select.**  It puts a query inside another by name, operator and
marker.  Correct means: the statement is one that a database can parse.

**Snapshot.**  The time and the values are taken before the statement runs; the
statement, or only its answer, may be lost; the generated key comes back in two
ways; columns are scanned one by one, and others write to the rows.  Correct
means: an insert that reports success has stored what the struct held; a select
gives what the row holds and can read every row that an insert wrote.

**Struct maps.**  Correct means: a map made from a struct restores the chosen
columns in another and touches nothing else.

**Zero types.**  A driver may give a column as a number, a text, a truth value or
NULL.  Correct means: the value that arrives is the one that was stored, and
what the type cannot hold is refused, not cut.

## 2. The modules

| Module | Models | Extends or uses |
| --- | --- | --- |
| `TableRegistry` | the table registry | |
| `KeyChains` | how readers of a table follow its primary keys | `TableRegistry` |
| `ClosedRegistry` | what the registry promises for types that lead into no cycle of relations | |
| `TableRegistryAcyclic` | the registry for such types, and the refinement | `TableRegistry`, `ClosedRegistry` |
| `TableRegistryProofs` | theorems about the registry and its readers | `KeyChains` |
| `TableRegistryAcyclicProofs` | theorems about it for types that lead into no cycle | `TableRegistryAcyclic`, `TableRegistryProofs` |
| `ManyToMany` | the many to many manager on a shared join table | `ManyToManyRelation` |
| `ManyToManyRelation` | what the manager promises inside transactions | |
| `ManyToManyProofs` | theorems about the manager, the refinement among them | `ManyToMany` |
| `Crud` | `Insert`, `Load`, `Select`, `Update`, `Delete` on a shared table | |
| `CrudProofs` | theorems about them | `Crud` |
| `Rows` | `Fetch` and the readers of its result, on a connection pool | |
| `RowsProofs` | theorems about the readers and the pool | `Rows` |
| `Template` | the scanner `newExpr`, symbol by symbol | |
| `TemplateProofs` | theorems about the scanner, called again and again | `Template` |
| `Query` | conditions, connectives and statements, and what each of them expands to | `Template` |
| `QueryProgram` | a program that makes and combines them | `Query` |
| `SelectRelation` | the statement of `SelectRelation`, one more such program | `QueryProgram` |
| `QueryText` | the text and the arguments of an expansion, and how SQL reads it | `SelectRelation` |
| `QueryProofs` | theorems about such programs, `SelectRelation` included | `SelectRelation`, `TemplateProofs` |
| `Zero` | the conversions of the zero types, as operators | |
| `StructColumns` | reading and writing the columns of a struct one by one; struct maps | `Zero` |
| `Snapshot` | the snapshot manager on a shared table | `StructColumns` |
| `SnapshotProofs` | theorems about it, the zero types and struct maps | `Snapshot` |
| `MCTableRegistry`, `MCRegistry`, `MCManyToMany`, `MCCrud`, `MCRows`, `MCQuery`, `MCSnapshot` | constants for TLC | the above |

Definitions whose comment starts with "Bug:" are variants of a definition of
the code with a plausible mistake in it.  No specification uses them.  They are
there to show that a property notices the mistake.

### TableRegistry

A call `c` of `TableOf` is a goroutine.  Its tables are named `<<c, t>>`, since
two calls may each build one for the same type.

| Code | Model |
| --- | --- |
| map `tables` under `tmutex` | `tables` |
| the map `x` passed through the recursion | `x[c]` |
| the Go stack of nested `tableOf` and `newTable` | `stack[c]`, innermost first |
| `Column.RelationTable`, `ThroughTable`, `Name` | `rel`, `thr`, `name` |
| columns whose `init` has returned | `inited` |
| reading `tables` under the read lock, then `x`, then a new table | `LookupCached`, `LookupOwn`, `LookupNew` |
| `Column.init` up to the first recursive call | `InitPlain`, `InitRelation` |
| `init` after `RelationTable` is set | `BindKeyless`, `BindOne`, `BindOneToMany`, `BindManyToMany` |
| `init` after `ThroughTable` returned | `BindThrough` |
| writing `tables` under the write lock | `Publish` |

A critical section of `tmutex` is one step.  The code between two of them
touches only what the call itself owns, or reads tables it has been handed,
which `LinksOwned` and `FinishedFrozen` justify: they say that what is handed
over is either the call's own or never written again.  Struct tags, and so the
schema, are a constant: `Schema[t]` gives the columns, the primary key, and
whether the tags parse.  A new table's columns have the names that their tags
give (`TagName`, or none); `init` gives the others theirs.  Those names are
functions of the name of the related key, which is what makes the order of the
inits matter.

### KeyChains

A reader of a column that refers to a row (`types`, `GetValue`, `SetValue`,
`Scan`) goes on to the primary key of the related table for as long as the column
it is at refers to a row again.  A `spot` is a table and one of its columns, and
`Follow` is one turn of that loop.  It stays where it is when the reader is done,
and also where the reader would dereference nil: at a relation that is not bound
yet, or a table without a key.  `Arrive` follows as many turns as there are types,
after which a chain that does not go round has ended.  `DeclaredEnd` is the same
in the struct tags.  Reading changes nothing of the registry, so it is an operator
that the properties call in every state.

### ManyToMany

The join table is a bag: `join[<<l, r>>]` rows relate `l` to `r`.  A session
begins an operation (`Begin`, where the manager converts all arguments and
fails on a bad one), then runs its statements (`Empty`, `Insert`, `Remove`,
`Count`), other sessions' steps in between.  A statement may be refused by the
database (`StatementRefused`) or lost before or after it was carried out
(`StatementLost`).  With `InTx` each operation is wrapped in a transaction,
which ends in `EndTx`; transactions are serialised.

### Crud

`rows` is the table and `obj[m]` are the two structs of client `m`.  `Insert`,
`Load` and `Update` are two steps, since they stamp the struct from the clock
while the statement is built: `BeginInsert`, `BeginUpdate`, then `Insert`,
`InsertFails`, `Update`, `UpdateFails`.  `Select` (`Select`, `SelectRefused`,
`SelectFails`) and `Delete` (`Delete`, `DeleteFails`) read nothing shared before
their statement and are one step.  Time runs in half seconds (`Tick`), so that
cutting a time to whole seconds, which the code does for every driver but
postgres, makes a difference.  A columns argument is a set of names with the
exclude flag that a first argument `"-"` sets.

### Rows

`queue` is the pool's queue of waiting consumers and `holders` are the open
`Rows`.  `Fetch` expands the query and queues up, `Connect` gets a connection
and runs it, and a reader goes on in `ReadOne` (`One`, `MapOne`, `Row`) or in
`CheckAll`, `NextRow` and `NextEnds` (`All`, `MapAll`).  A result has some rows,
maybe one that the destination cannot hold, and may be cut short by a failing
connection; `Returns` is the deferred `Close`.  `One` and `Row` scan straight into
what they were given, column after column, so a scan that fails leaves the
destination as it was or with a part of the row (`Part`); `MapOne`, `MapAll` and
`All` scan into values of their own.

When `Connect` fails it gives the connection back, also where the code returns the
error of `sql.Rows.Columns` without closing the rows (`scrud.go:458`): that method
only ever fails on rows that have been closed already, whose connection is back in
the pool.

### Template, Query, QueryProgram, QueryText

A format is a sequence of symbols.  `Template` is the loop of `newExpr` with one
action per case of it: a doubled sign, the begin, the symbols and the end of a
name, an argument, any other symbol, a refusal.  Its result is what an `expr`
holds: a format for `Sprintf` (`a`) and what its slots stand for (`b`).

| Code | Model |
| --- | --- |
| `expr.format`, `types` and `args` | `a`, `b` of a condition |
| the array under the slice `logic.cond`, which other slices may share | `heap` |
| the conditions and statements that a program holds | `objs` |
| `Cond`, `Not` | `Call`, the steps of `Template`, `Return` (with `Leave` of `Template`) |
| `And`, `Or` and the methods of these names, `Not` of a condition | `Connect`, `Chain`, `NotOf` |
| the clauses of a builder | `cl`, `limit`, `offset` of a statement, `Build...` |
| `Expand` of each kind | `PartsOf`: its tokens, names, values, nested parts and errors in order |
| the loop that all of them share, with `NextMarker` | `Emit` of `QueryText` |
| whether that loop meets an error, at any depth | `Expandable` |

`Expand` changes nothing but the starter, so it is an operator that the
properties call in every state, and no action.  `Emit` is a RECURSIVE operator; it
and `Holds` are alone in `QueryText`, and the modules before it are written
without recursive operators, with folds and with recursive functions
(`SplitRead`, `Sound`), so that they can be proved about.  `Expandable` is what
`Emit` succeeds on, said without the text: `MarkersBind` checks that the two agree.
Text is a sequence of tokens; a
name is a token with the symbols it had before the starter quotes it.  Each thing
in `objs` also carries history: what it means (`means`, the sets of columns that,
when true, make it hold), whether its format was refused, and what it uses.
`Holds` reads a text the way SQL does, with its precedences; it is the reference
for `MeansWhatItSays`.

### SelectRelation

One action beside those of `QueryProgram`.  It makes what `selectRelation` makes,
in order: the condition on the owner's key, for a `many_to_many` the query on the
join table, the condition `IN` on that query, and the statement on the related
table, with the columns that `tidyColumns` and the loop after it leave.

### Zero, StructColumns, Snapshot

`Value` and `ConvertAssign` of `Zero` are `Value` and `convertAssign` case by
case.  Numbers are counted in halves, and a text is known by its form (empty, an
integer, a decimal, with an exponent, a truth value, a word) and the number it
denotes.  `convertAssign` may assign and still fail, so its result has both.
`Denotes` is the reference: what a driver's value stands for, said without it.

`Snapshot` has one struct for each client, with a column of a zero type, an
encoded one, a pointer to another struct, and a relation to many rows that every
operation leaves out.  `BeginInsert`, `BeginSelect` and `BeginDelete` are all that
happens until the statement is sent, `Insert`, `Select` and `Delete` the rest;
`InsertLost`, `SelectLost` and `DeleteLost` are the same with the answer, or the
statement, lost.  `Overwrite` is another program that writes to a row, and `Given`
the forms in which a driver may give a stored value.  `Copy` is `MapToStruct` of
`StructToMap`.  `stored` is history: the rows as they were inserted.

## 3. What the runs check

| Run | Instance | States | Shows |
| --- | --- | --- | --- |
| `registry` | 2 calls, 23 types, in cycles, with keys that refer to rows, and without cycles; fair | 131,253 | `PublishedComplete`, `LinksOwned`, `DoneClosed`, `NoReentry`, `FinishedFrozen`, `Termination`, `KeyChainsAsDeclared`, `NamedFromKey`, `RefinesClosedRegistry` |
| `registry_panic` | as `registry` | | `NoPanic` is violated |
| `m2m_bag` | 2 sessions, 2 objects, no unique key, no transactions, lost statements | 985,991 | `Postcondition`, `ErrorLeaves`, `ConcurrentSets`, `OtherObjectsKept` |
| `m2m_tx` | 2 sessions, 2 objects, unique key, transactions, lost statements, fair | 409,044 | `RefinesRelation`, `Termination` |
| `m2m_has` | 2 sessions, 2 objects, no unique key, nothing lost | | `HasCorrect` is violated |
| `crud` | 2 clients, 2 keys, clock to 3, 3 operations, all automatic columns | 649,416 | `Agreement`, `NilStaysNull`, `AddedKept`, `KeySetOnce` |
| `rows` | 2 consumers, 1 connection, results of up to 2 rows, fair | 135,642 | `ClosedOnReturn`, `NilMeansAll`, `ErrorKeepsRows`, `Served` |
| `query` | formats of up to 5 symbols, names of up to 3, 3 objects and an extension of the third, 1 builder call | 436,552 | `ReadsBack`, `NamesKept`, `MeansWhatItSays`, `MarkersBind`, `ErrorsSurface`, `Persistent` |
| `relation_in` | `SelectRelation` for one relation of each kind | | `NestedInParentheses` is violated |
| `snapshot` | 2 clients, 2 rows, 5 zero types, 3 operations, lost statements | 1,661,458 | `SnapshotStored`, `SelectRestores`, `Restorable`, `MapRestores` |
| `snapshot_id` | the same for postgres, 1 zero type | | `SnapshotStored` is violated |
| `zero_int64` | the same for `Int64` | | `Restorable` is violated |

Most passing runs also check the module's `TypeOK`; `m2m_tx` shares a module with
a run that does, and `Snapshot` has none, since all its values come from the
constants and its operators would fail to evaluate on anything else (for every
instance `TypeCorrect` in `SnapshotProofs` is part of the invariant that is
proved).

**Registry.**  The run shows that what two racing calls publish is complete and
never changes (`PublishedComplete`, `FinishedFrozen`), that a table never points
at another call's unfinished work (`LinksOwned`), that a success is a whole
success (`DoneClosed`) and that the recursion does not go in circles
(`NoReentry`).  The proofs carry these over to every schema.  What the registry
does *not* promise is visible in the way the properties are stated:  when a call
fails after it has published some tables, those tables may point for ever at a
table that nobody will finish.  For a type whose relations lead into no cycle
(`Ranked`) that cannot happen, and `RefinesClosedRegistry` says so: it becomes
known only after every type it refers to, also when the call came to it through
a cycle.  `NamedFromKey` holds of those types because the primary key is
initialised first and recursion then always returns a finished table.

Of the other types neither holds, and the readers of a table show it.
`KeyChainsAsDeclared` is what remains true on every schema: from a published table
a reader is led along the struct tags, to tables that all have keys, and only a
table that some call has not finished, or never will, can stop it short.
`KeyedSchema` has what goes wrong: keys that refer to each other (`Hand`, `Glove`),
round which a reader is led for ever, a key that refers to a struct which leads
back to it (`Ace`), and a call that fails on a struct without a key after the
recursion has published another (`Pin`, `Note`).  See the end of the findings.

**Manager.**  Without transactions (`m2m_bag`) two `Set`s of one object may mix,
but only additively (`ConcurrentSets`), and an operation that failed has done
nothing, everything (its answer was lost), or, for `Set`, only the emptying
(`ErrorLeaves`).  `Set` with no arguments is always of the last kind: it empties
the relation and then fails; an argument that is nil or of another type costs
nothing, whatever came before it in the list.  `Has` is right only while no pair
is there twice (`m2m_has`), so it has no place in the passing runs.  In
transactions (`m2m_tx`) the manager implements
`ManyToManyRelation`, in which each operation is a single atomic step or has no
effect: the intermediate state of `Set` is never visible and errors change
nothing.

**Crud.**  `Agreement` is about what other clients and the clock can break: the
struct is stamped before the statement runs and the row is cut to whole seconds.
`agreed` is history: the columns the last successful operations of a client were
about, without those that another client has since written.  An `Update` or
`Delete` of a row that is gone returns nil, and `agreed` then claims nothing.

**Rows.**  One connection for two consumers makes every leaked connection a
deadlock, which `Served` shows.  `NilMeansAll` fails for a reader that does not
ask for the error after `Next` returned false.  `ErrorKeepsRows` says what an error
leaves of the destination: what it held; with `All`, which empties the slice before
it reads, the rows before the one that failed; with `One` and `Row` perhaps a part
of the row.  So a slice whose struct lacks a column of the result is not emptied.

**Query.**  The first call of a program may be any format over the special signs
or any helper with an awkward name; `ReadsBack` and `NamesKept` are about those.
Programs that go on do so with four formats: a comparison, one that binds weaker
than AND, one with a query inside, and one that is refused.  Two things the
properties have to leave out, and so say about the code: a helper called with a
column that starts with a back quote is misread, as is a part after the first
that starts with a dot (`NamesKept`); nor does a string given to `Select` come
out as it is when it starts with a back quote (`NameExpr` says what becomes of
it).  `ErrorsSurface` holds although `logic.And` and `logic.Or` look only at the
first operand's error, because `Expand` meets the other errors again; `Err` may
miss them.  A refused operand that extends a connective which has none takes
four conditions: the fourth thing that the run makes is such an extension and
nothing else (`ExtendLatest`).  `Persistent` holds because everything that
appends to a connective copies it first, even though `newLogic` keeps the slice
that the caller passes.

**Snapshot.**  `Restorable` is the round trip: whatever `Value` stores, `Scan`
takes back in every form that a driver may give it.  `SelectRestores` adds what
others write: a value that the type cannot hold is refused and never cut.  A
relation that was nil is stored as NULL and cannot be read back into a key, which
is the exception in `Restorable`.  The same holds for maps: `MapRestores` says of
each copy that it takes over the columns it was asked for, that a nil relation
among them is the only error, and what that error leaves.  The time that
`Insert` returns is not cut to whole seconds, which the other inserts do
(`getTime`); `SnapshotStored` therefore compares with what the column keeps.

### Bounds

- Two calls, sessions, clients or consumers.  The hazards are between one actor
  and the others' writes, and no code distinguishes more than "me" and "another".
- A registry schema of 23 types with up to three columns, in three groups that know
  nothing of each other: every kind of
  relation, mutual and self reference, through structs, a column that is not
  legal, every reason for which `init` fails, tags that do not parse, a failure
  after another type was published.  Each actor makes one call for any of the
  types; later calls only add lookups that find a published type.
- Two objects and two related objects are enough to tell "this object's rows"
  and "the rows it was asked for" from others.  Argument lists: none, one, two,
  one twice, one with a bad value.  At first a pair is there up to twice.
- A clock of three half seconds has a fraction that is cut and a tick between
  building and running.  Three operations allow a write, another client's write
  between its steps, and a look at the result.
- Formats of five symbols have room for a name, a doubled sign next to it and an
  argument, in every order; three symbols of a name for a sign at either end and
  one doubled inside.  Two conditions and what is made of them, or three things
  of which the last is a statement with a call of a builder, give every pair of
  kinds, one inside the other: the operators and clauses look one level down.
- Two snapshots and three operations: an insert, something else, a select.  For
  each zero type, zero and another value, the largest one for `Int8`; of other
  programs, NULL, a number that is too large for `Int8` and one that is not whole.
- A fourth thing may extend the third when that is a connective: two conditions to
  connect, one to extend it by, and the outcome.
- Results of zero, one and two rows with the bad row at any place, or none.

`CHECK_DEADLOCK FALSE` is used throughout because every model is finite: each
actor performs a bounded number of operations and then stops.  That nothing
stops early is what `Termination` and `Served` check.

### Fairness

Weak fairness of the steps of an operation that has begun; beginning one is
never fair.

- `TableRegistry`: a goroutine inside `TableOf` never waits for anything but
  `tmutex`, whose critical sections are a map read and a map write.
- `ManyToMany`: a session goes on once it has begun.  A transaction is begun
  only when no other is open, so the open one can always proceed.  `Termination`
  is checked only for sessions in transactions.
- `Query`, `Crud`, `Snapshot`: none; a program may stop anywhere, and only safety
  is checked.
- `Rows`: the pool of `database/sql` hands connections out in order of arrival,
  so the fairness of `Connect` asks only that a free connection is given to the
  first in the queue.

### Findings

- `registry_panic`: in `init` of a `many_to_many` with a through struct,
  `lc.RelationTable.Type` (`table.go:209`) is read although the through struct
  may be under construction, its `RelationTable` still nil.  A program that asks
  for the through struct first panics; the tests ask for the owner first.
- `m2m_has`: `Has` compares a count with one (`many_to_many.go:125`) and denies a pair
  that is there twice.  `Add` does not look whether it is there, and the join
  table of the tests has no unique key.
- `relation_in`: for a `many_to_many`, `selectRelation` sends `... IN SELECT ...`
  with no parentheses (`scrud.go:280`).  The tests run it and expect no error.
- `snapshot_id`: with postgres, the error of `Insert`'s statement is assigned to
  an `err` that shadows the one that is tested (`snapshot.go:67`), so a failure
  is reported as success, with number zero.
- `zero_int64`: `convertAssign` assigns an `int64` to an `Int64`, and a `float64`
  to a `Float64`, and then falls out of the switch into the error for
  unsupported types (`zero.go:225` and `253`).

Seen while modelling, without a run of its own:

- `tableOf` accepts and publishes structs whose primary keys refer to each other.
  `types` then goes from key to key for ever (`rows.go:260`), and `GetValue`,
  `SetValue` and `Scan` recurse without an end.  `KeyChainsAsDeclared` only says
  that such a circle is one of the tags.
- What the recursion published before a call failed stays published
  (`table.go:105`).  A later call returns it without an error; the chain of its keys
  leads to a relation that is still nil, or to a table without a key, which the
  readers dereference.  It is the second case of `KeyChainsAsDeclared`.
- `init` names a column from the related primary key's column name (`table.go:132`),
  which is empty while that key is itself a relation whose `init` waits for this
  column's struct, though the comment of `Columner` (`table.go:28`) says that the
  name is the key's.  What a column is called then depends on which struct is asked
  for first.  `NamedFromKey` leaves these columns out: their types are not `Ranked`.
- `Delete` of a snapshot ends in a LIMIT, which postgres refuses.
- A dotted string given to `OrderBy` is split in a SELECT and not in an UPDATE or
  DELETE.
- `Ints2Interfaces` and `Strings2Interfaces` return nil, because they shadow their
  result.
- `Snapshot.Select` panics on a struct that is passed by value.

## 4. What is proved

Each module of proofs states one inductive invariant, proves it from the initial
states and over every action, and derives the theorems from it.  All of them
hold for every value of the constants that satisfies the assumptions in the
modules; TLC evaluates those assumptions on every run, and it finds each
inductive invariant to hold on the instances of section 3 too.

### Assumptions on the constants

| Assumption | Says | Why the code justifies it |
| --- | --- | --- |
| `SchemaAssumption` | a schema has finitely many columns, a key that is one of them, a relation has a target, and a key that parses is no many relation | what reflection and the tag parser can return; `table.go:797` refuses `primary_key` on such a column.  Every cycle is allowed |
| `NamesAssumption` | naming is a function, and a name in a tag is kept whatever the related key is called | `format` and the tags |
| `RankAssumption` (`TableRegistryAcyclic`) | some types have ranks, and their targets lower ones | it is what "leads into no cycle" means; the types may be any part of the schema, which is otherwise free |
| `ManyToManyConstants`, `ArgListsAssumption`, `NoneAssumption` | what is no session, no request and no argument is none | they are `nil` in the code |
| `CrudConstants`, `StoredAssumption` | the table starts with times the column keeps and without references to key zero; NULL is not zero | rows are written by these operations, generated keys start at one |
| `QueryConstants`, `RelationConstants` | types of the constants: formats and names are sequences of symbols, calls have arguments, the columns that join two tables are among the columns, and are finitely many | Go strings and slices, columns of a struct |
| `RowsConstants`, `TemplateConstants`, `StructConstants`, `SnapshotConstants` | types of the constants; other programs write what the column may give | columns have types in the database |

### Theorems

**`TableRegistryProofs`**, every set of calls and every schema.

| Theorem | Statement |
| --- | --- |
| `TypeCorrect` | `Spec => []TypeOK` |
| `NeverReentered` | `Spec => []NoReentry` |
| `PublishedAreComplete` | `Spec => []PublishedComplete` |
| `LinksAreOwned` | `Spec => []LinksOwned` |
| `SuccessIsClosed` | `Spec => []DoneClosed` |
| `PublishedAreFrozen` | `Spec => FinishedFrozen` |
| `ReadersFollowTheTags` | `Spec => []KeyChainsAsDeclared`, for finitely many types |

The invariant `IInv` and why each part is needed:

- `TypeInv`: types, and `Placed`, that a call in the middle of a `tableOf` has a
  frame, a lookup an argument and a return a table.
- `NoReentry`: the types on a call's stack are distinct.  It follows from
  `stack[c] \in Seq(x[c])` (a part of `TypeOK`) and the guard of `LookupNew`.
  Without it popping a frame would not finish that type.
- `Published`: published tables are finished and of the right type.
- `Handed`: whatever a table points to, and whatever is about to be returned to
  a frame, is finished or the call's own.  `LinksOwned` is its first half.
- `Filled`, `Full`: an initialised relation is linked to a table of its type, and
  a finished table has all columns initialised.  Together: `Complete`.
- `Waiting`: each frame waits for exactly the table of the frame above it.  This
  is the invariant of the recursion; it is what makes the type of a returned
  table right when `BindRelation` stores it.
- `Outside`: a call that has not begun or has succeeded has no frames, so
  everything it started is finished, which with `Full` gives `DoneClosed`.

Steps are handled in three groups: a step inside `init` (`InitColumnStays`,
`InitColumnEffect`: the stack stays, and only the innermost table changes), a
push (`PushFacts`, `PushStep`) and a pop (`PopFacts`, `PopStep`, `PublishFinishes`).
`PublishedAreFrozen` follows from the same shape: only the innermost frame's
table is written, that table is on a stack, and a published one is not.

`ReadersFollowTheTags` needs one invariant more, `KeyedTargets`: an initialised
column that refers to a row refers to a type with a key.  A reader's spot and that
of the struct tags then move together (`Abreast`) until the reader is stuck at an
unfinished table.  `Arrive` iterates a function; that it has the values one expects
(`Arrival`) and that an invariant of one turn holds after all of them are made
by a least counterexample, since the induction rules of the library cannot be
instantiated.

**`TableRegistryAcyclicProofs`**, every schema, for its types that lead into no cycle of
relations.

| Theorem | Statement |
| --- | --- |
| `ColumnsNamedFromKeys` | `Spec => []NamedFromKey` |
| `RegistryIsClosed` | `Spec => RefinesClosedRegistry` |

`AInv` adds to `IInv`: ranks fall along the stack from the first type that has one
(`Descending`), so a lookup of a ranked type never finds the call's own unfinished
table, so no table of such a type points at an unfinished one and no frame is
handed one (`Settled`), and what a call has finished is known (`Known`).
`Parsed` and `ThroughFilled` tell which columns a finished table has links for,
which is what a published type refers to.  `NamesKeys` is the name of a column
from the moment it is bound: the key it is named from belongs to a finished
table and never changes.

**`ManyToManyProofs`**, every number of sessions, objects and arguments.

| Theorem | Statement |
| --- | --- |
| `ManyToManyTypeCorrect` | `Spec => []TypeOK` |
| `OperationsDoAsAsked` | `Spec => []Postcondition` |
| `ErrorsLeaveLittle` | `Spec => []ErrorLeaves` |
| `SetsAddUp` | `Spec => []ConcurrentSets` |
| `OthersKept` | `Spec => OtherObjectsKept` |
| `ManagerIsAtomic` | `Spec => RefinesRelation`, with a unique key and in transactions |

`Begun` ties a session's statement to its request; `Progress` says how far the
table is from what it was when the operation began, as long as nobody else has
written; `Serial`, that in transactions only one session is between its
statements, that `saved` is its `before`, and that it has changed only its
object's rows; `Unique`, that the key holds now and after a roll back; `Mixed`,
what `Set`s that interleave leave at every moment: nothing that no finished one
listed, and all of one finished one unless another is about to insert.  The
refinement maps a transaction to the step in which it commits: until then the
mapped table is `saved`.

**`CrudProofs`**, every number of clients, keys and values, every choice of
automatic columns, drivers of both kinds.

| Theorem | Statement |
| --- | --- |
| `CrudTypeCorrect` | `Spec => []TypeOK` |
| `StructsAgree` | `Spec => []Agreement` |
| `NilIsNull` | `Spec => []NilStaysNull` |
| `AddedTimeKept` | `Spec => AddedKept` |
| `KeysSetOnce` | `Spec => KeySetOnce` |

`Agreement` alone is not inductive.  `StoredTimes` is needed for it: a time is
cut when the struct is stamped and again when it is stored, and the second cut
must not change it.  `NoZero` is `NilStaysNull` with the structs that the rows are
made from; `NeverAdded` is about the columns an `Update` has chosen and not yet
written.

**`RowsProofs`**, every number of consumers and connections, results of any
length.

| Theorem | Statement |
| --- | --- |
| `RowsTypeCorrect` | `Spec => []TypeOK` |
| `AlwaysClosed` | `Spec => []ClosedOnReturn` |
| `NilIsWhole` | `Spec => []NilMeansAll` |
| `ErrorsKeepRows` | `Spec => []ErrorKeepsRows` |

`Placed` says that a consumer holds a connection exactly while its `Rows` is open
and queues exactly while it waits; with the distinct elements of the queue, a
part of `TypeOK`, that gives the bound on connections.  `Filled` says what the
destination holds halfway through a result.

**`TemplateProofs`**, formats of every length and any arguments, for the scanner
called again and again (`ScanSpec`).

| Theorem | Statement |
| --- | --- |
| `ScannerTypeCorrect` | `ScanSpec => []ScanTypeOK` |
| `SprintfHasItsValues` | `ScanSpec => [](SlotsFilled /\ ArgumentsInOrder)` |
| `ReadsFromTheLeft` | `ScanSpec => [](Leftmost /\ NamesNotEmpty)` |
| `OnlyQuotesRefused` | `ScanSpec => []RefusedForQuotes` |
| `TemplatesReadBack` | `ScanSpec => []ReadsBack` |

`AfterSlot` is what is known between two symbols of the format: after a name
comes no back quote and after a marker no question mark, or they would have been
read as a doubled sign.  `Parity` counts back quotes, `Begun` is `NamesNotEmpty`
one symbol early.  The first four are parts of `ReadsBack`; its last part, that the
template written out again is the format, is proved with `Reading`: at every
symbol, what `a` and `b` stand for, followed by the name that is being read, is the
part of the format that has been read.  Writing out is a fold over the template, so
`FlattenNext` and `FlattenAppend` say what one more symbol adds.

**`QueryProofs`**, programs of any length: any calls of `Cond` and `Not`, any number
of things made and builders called, nested to any depth, and `SelectRelation` for
any relations.

| Theorem | Statement |
| --- | --- |
| `ProgramsReadBack` | `RelationSpec => []ReadsBack` |
| `ProgramsTypeCorrect` | `RelationSpec => []TypeOK` |
| `ConditionsAreValues` | `RelationSpec => Persistent` |
| `SplitsWhatWasJoined` | `Split(Qualified(parts)) = parts`, if no later part is empty or starts with a dot |
| `NamesReachTheText` | `RelationSpec => []NamesKept` |
| `EveryErrorSurfaces` | `RelationSpec => []ErrorsSurface` |

`RelationScans` shows that such a program runs the scanner as `ScanSpec` does, so
everything proved of it carries over.  The invariant has three parts.  `Sized`
bounds the counters.  `WellMade` says what everything made looks like: a condition
has as many fillings as slots and refers to things made before it, a connective
lies within its array, an array holds conditions, and each clause of a statement
holds items that its builder takes; `ArgumentsMade` says that the arguments of a
call that is under way have been made.  `Persistent` follows from `Keeps`: every
step leaves conditions and arrays as they were and at most adds some.
`NamesKept` is `SplitsWhatWasJoined`, an induction over the symbols of a dotted
name, and `HeadsRead`, an invariant that follows the scanner through the name that
a helper puts first.

`EveryErrorSurfaces` takes the third part, `Accounted`, and three steps.

- *What one expansion meets.*  `Gives(ps, lacks, vs)` says of the parts `ps` of a
  thing: if they hold no error, then nothing it needs is missing (`lacks` is empty)
  and they go on to expand exactly `vs`; if nothing is missing and no condition of
  `vs` can be seen to have failed, they hold no error.  The gap between the two is
  that a connective sees the failure of an operand and does not expand it.  There is
  one lemma for each way of putting parts together and for each clause; `GivesDelete`, `GivesUpdate`, `GivesInsert`, `GivesSelect`,
  `GivesCond` and `GivesLogic` sum them up for the six kinds.
- *However deep.*  `IsFine(v)`: `v` belongs to some set of expressions that are all
  complete and that refers to nothing outside itself.  `ExpandableIsFine` shows that
  the rounds of `Expandable` come to the same: each takes away what fails or lost
  something inside in the round before, and after as many rounds as there are
  expressions nothing is left to take away.
- *Every step.*  `Accounted` says that a condition is fine exactly when its format was
  not refused and all that it was made of is fine.  It is inductive: what a step
  leaves alone stays as fine as it was (`Stays`); a new connective is fine when its
  operands are, and those of a condition that is extended are fine when it is, so it
  does not matter whose errors `logic.And` looks at (`ConnectAccounts`); a negated
  copy refers to negated copies and is as fine as the original (`CopiesAreFine`,
  `NotAccounts`); a builder changes only the statement made last, which nothing
  refers to yet (`BuilderAccounts`).  With an induction over the places,
  `AccountsAgree`, this gives `ErrorsSurface`.

The symbols of a format are single ones: a symbol "%%", which is what the scanner
writes for a percent sign, would not be read back.  TLC's instances never had one,
the proof of `ReadsBack` asked for it, and `Symbols` now says so.

**`SnapshotProofs`**, every number of clients, rows and operations, every zero
type, value and driver, and whatever others write to column `Z` or `Doc`.

| Theorem | Statement |
| --- | --- |
| `InsertIsStored` | `Spec => []SnapshotStored`, if the driver is not that of postgres |
| `SelectGivesTheRow` | `Spec => SelectRestores` |
| `RowsCanBeRead` | `Spec => Restorable`, without `Int64` and `Float64` |
| `MapsCarryColumns` | `Spec => MapRestores` |

The two hypotheses are the two findings: for postgres and for `Int64` the runs
`snapshot_id` and `zero_int64` show the properties violated.  The proofs rest on
lemmas about the operators: `ValueFacts` (`Denotes` of what `Value` gives is the
value), `ConvertFacts` (what `ConvertAssign` takes without an error is what
`Denotes` says, and what it assigns is a value of the type, error or not),
`RestoreFacts` (it takes every form of a stored value) and `CopyFacts` (what a map
of a struct does to another).  The invariant says that structs and rows have
values of the type of `Z` (`TypeCorrect`), that rows as `Insert` stored them hold
what `Value` gives, and that the row of an insert under way is still that of the
struct (`Underway`), since a client does one thing at a time.

### Only model-checked

- `Termination` and `Served`: liveness under fairness is outside what TLAPS proves.
- `MeansWhatItSays` and `MarkersBind`: they are about the text that `Emit` makes and
  the reading of it by `Holds`, which are RECURSIVE operators over nested expressions;
  the prover takes no module that declares one, and what such a recursion computes
  for every input would be an induction over the nesting of data.  They also depend
  on formats that say what `Says` and `ValueFor` claim, which is a choice of the
  instance.
- The violated properties, of course: there the runs are the result.

## 5. What is not modelled

- The tag parser, reflection and the format functions: pure functions of a type,
  represented by the constants of `TableRegistry`.
- The bytes of encodings (a value can be decoded or not), getters and setters of
  columns, and `SetInt` on narrow integers.
- What the database does with a statement: modelled from how the code uses it (it
  is atomic, may be refused, may be lost).
- `Scan` and `MapScan` outside the closing readers, which leave closing to the
  caller, and the decoding by column types that `types` and `mapScan` do.
- `Open` and `Begin`, which pass errors on.
- Helpers of `query.go` that differ from a modelled one in a word, the escaping of
  LIKE patterns, and the two conversions of slices in `util.go`.
- The refusals of `selectRelation` for a struct that is no pointer, a field that
  is not there and a field that is no relation, and the nil slice pointer that it
  allocates before its query: they end it, or leave the struct as it will be,
  before anything else happens.
- Rounding to 32 bits, and integers beyond 16 bits that overflow, in `Zero`.

## 6. Plan

Done: the registry with its abstract specification and proofs; the many to many
manager with its abstract specification; create, read, update and delete; the
rows of a query on a pool; query expressions and statements; the statement of
relation select; snapshots with struct maps and zero types.

Proved: every safety invariant and action property of the runs, and both
refinements, except what section 4 lists as only model-checked.

Left: a proof that the markers of an expansion are numbered on in the order of the
text, the part of `MarkersBind` that does not depend on what formats say.  It needs
`Emit` as a function of the depth of nesting, as `Sound` is one of the rounds.
