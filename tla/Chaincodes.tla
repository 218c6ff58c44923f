------------------------------ MODULE Chaincodes ----------------------------
(***************************************************************************)
(* The chaincodes.  In small_bank every account has a savings and a        *)
(* checking balance, which stay far below 2^31 here.  In ycsb a row is a   *)
(* set of named fields, and a write merges its fields into the row it      *)
(* finds.  In the test chaincode rows are read and written blindly         *)
(* ("mixed"), read and written ("correct_test"), or created; a written     *)
(* value carries the id of its transaction.                                *)
(***************************************************************************)
EXTENDS ORM, FiniteSetsExt

CONSTANTS
    Account,    \* accounts
    Amount,     \* amounts in the arguments
    BALANCE,    \* balance of an account that is not in the table
    Created(_), \* what create_data writes for a key: a fixed pseudo-random sequence
    Row,        \* keys of the table of ycsb or of the test chaincode
    Fields,     \* names of fields
    FieldValue  \* values of a field

-----------------------------------------------------------------------------
(* small_bank *)

BankKey == {"saving", "checking"} \X Account

BankCall ==
    [cc : {"amalgamate"}, from : Account, to : Account]
    \cup [cc : {"getBalance"}, from : Account]
    \cup [cc : {"updateBalance", "updateSaving", "writeCheck"}, from : Account, amount : Amount]
    \cup [cc : {"sendPayment"}, from : Account, to : Account, amount : Amount]
    \cup [cc : {"create_data", "unknown"}]

saving(a) == <<"saving", a>>
checking(a) == <<"checking", a>>

\* queryLambda: the balance, or the default.
Balance(state, k) == IF state[k] = Empty THEN BALANCE ELSE state[k]

query(state, account) ==
    Query(Query(Nothing, state, saving(account)), state, checking(account))

\* Mutant of amalgamate: the savings are kept.
amalgamateKeeps(state, from, to) ==
    LET rw == Query(Query(Nothing, state, saving(from)), state, checking(to))
    IN  IF from = to THEN Fail(Nothing)
        ELSE Insert(rw, checking(to),
                    Balance(state, checking(to)) + Balance(state, saving(from)))
amalgamate(state, from, to) ==
    LET rw == Query(Query(Nothing, state, saving(from)), state, checking(to))
    IN  IF from = to THEN Fail(Nothing)
        ELSE Insert(Insert(rw, saving(from), 0), checking(to),
                    Balance(state, checking(to)) + Balance(state, saving(from)))

\* updateBalance and updateSaving, which differ in the balance they update.
Update(state, k, amount) ==
    LET rw == Query(Nothing, state, k)
    IN  IF amount < 0 /\ Balance(state, k) < -amount THEN Fail(rw)
        ELSE Insert(rw, k, Balance(state, k) + amount)

updateBalance(state, from, amount) == Update(state, checking(from), amount)
updateSaving(state, from, amount) == Update(state, saving(from), amount)

sendPayment(state, from, to, amount) ==
    LET rw == Query(Query(Nothing, state, checking(from)), state, checking(to))
        bal1 == Balance(state, checking(from)) - amount
        bal2 == Balance(state, checking(to)) + amount
    IN  IF from = to THEN Fail(Nothing)
        ELSE IF bal1 < 0 \/ amount < 0 THEN Fail(rw)
        ELSE Insert(Insert(rw, checking(from), bal1), checking(to), bal2)

writeCheck(state, from, amount) ==
    LET rw == Query(Nothing, state, checking(from))
        balance == Balance(state, checking(from)) - amount
    IN  IF balance < 0 THEN Fail(rw) ELSE Insert(rw, checking(from), balance)

\* create_data inserts every account's balances, the checking accounts first.
BankInitFunc ==
    LET Fill(acc, k) == Insert(acc, k, Created(k))
        All(type) == SetToSeq({k \in BankKey : k[1] = type})
    IN  FoldLeft(Fill, Nothing, All("checking") \o All("saving"))

\* InvokeChaincode.
BankInvoke(t, call, state) ==
    CASE call.cc = "amalgamate" -> amalgamate(state, call.from, call.to)
      [] call.cc = "getBalance" -> query(state, call.from)
      [] call.cc = "updateBalance" -> updateBalance(state, call.from, call.amount)
      [] call.cc = "updateSaving" -> updateSaving(state, call.from, call.amount)
      [] call.cc = "sendPayment" -> sendPayment(state, call.from, call.to, call.amount)
      [] call.cc = "writeCheck" -> writeCheck(state, call.from, call.amount)
      [] call.cc = "create_data" -> BankInitFunc
      [] OTHER -> Fail(Nothing)

\* The money of all accounts, and what a call that commits brings in.
Total(state) == MapThenSumSet(LAMBDA k : Balance(state, k), BankKey)

Brings(call, state) ==
    CASE call.cc \in {"updateBalance", "updateSaving"} -> call.amount
      [] call.cc = "writeCheck" -> -call.amount
      [] call.cc = "create_data" -> MapThenSumSet(Created, BankKey) - Total(state)
      [] OTHER -> 0

-----------------------------------------------------------------------------
(* ycsb *)

\* A parsed row: a function on the fields it has.
FieldsOf(value) == IF value = Empty THEN <<>> ELSE value

\* What the clients send: an update of one field or of all, an insert (a write), a
\* read; a scan is not supported and sends nothing.
YcsbCall ==
    [cc : {"write"}, key : Row, val : UNION {[S -> FieldValue] : S \in (SUBSET Fields) \ {{}}}]
    \cup [cc : {"del", "read"}, key : Row]
    \cup [cc : {"create_data"}]

\* The old fields and the new ones, the new ones last.
write(state, key, append) ==
    LET old == FieldsOf(state[key])
        merge == [f \in DOMAIN append \cup DOMAIN old |->
                    IF f \in DOMAIN append THEN append[f] ELSE old[f]]
    IN  Insert(Query(Nothing, state, key), key, merge)

\* Drops all values.
del(state, key) == Insert(Nothing, key, Empty)

read(state, key) == Query(Nothing, state, key)

\* InvokeChaincode; create_data and unknown names return 0.
YcsbInvoke(t, call, state) ==
    CASE call.cc = "write" -> write(state, call.key, call.val)
      [] call.cc = "del" -> del(state, call.key)
      [] call.cc = "read" -> read(state, call.key)
      [] OTHER -> Fail(Nothing)

-----------------------------------------------------------------------------
(* The test chaincode. *)

SysTable == "test_table"

\* The rows, and the entry of the system table that createTable writes.
TestKey == Row \cup {SysTable}

\* The keys of a "mixed" call come from its payload, no key twice.
TestCall ==
    [cc : {"correct_test"}, key : Row]
    \cup [cc : {"mixed"}, update : SUBSET Row, reads : SUBSET Row]
    \cup [cc : {"create_table", "create_data", "time", "calculate", "unknown"}]

correctTest(t, state, key) == Insert(Query(Nothing, state, key), key, t)

InsertAll(rw, keys, v) == FoldLeft(LAMBDA acc, k : Insert(acc, k, v), rw, SetToSeq(keys))

mixed(t, state, update, reads) ==
    FoldLeft(LAMBDA acc, k : Query(acc, state, k), InsertAll(Nothing, update, t), SetToSeq(reads))

\* create_table: the table's entry in the system table.
InitFunc(t) == Insert(Nothing, SysTable, t)

createData == InsertAll(Nothing, Row, 0)

\* InvokeChaincode; time and calculate touch no row.
TestInvoke(t, call, state) ==
    CASE call.cc = "correct_test" -> correctTest(t, state, call.key)
      [] call.cc = "create_table" -> InitFunc(t)
      [] call.cc = "create_data" -> createData
      [] call.cc = "mixed" -> mixed(t, state, call.update, call.reads)
      [] call.cc \in {"time", "calculate"} -> Nothing
      [] OTHER -> Fail(Nothing)
=============================================================================
