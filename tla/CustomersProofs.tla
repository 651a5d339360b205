---------------------------- MODULE CustomersProofs ----------------------------
(***************************************************************************)
(* Proofs about the codes, the logins and the row of one customer, for any *)
(* finite number of calls that overlap, of codes and of attempts.          *)
(***************************************************************************)
EXTENDS Customers, FiniteSetTheorems, TLAPS

\* What the await a call has reached tells of it: whom it works for was looked
\* up before, and is still there.
CodeSteps == {"compare", "count", "mark", "find", "verify", "insert_customer", "session"}

CallOK(c) ==
    /\ call[c].step \in CodeSteps => call[c].code \in 1..saved
    /\ call[c].step \in {"verify", "session", "diff", "save"} => customer # NoRow
    /\ call[c].step \in {"diff", "save"} => call[c].loaded # NoRow
    /\ call[c].step = "save" => call[c].seen # NoRow
    /\ call[c].step = "insert_row" => call[c].table # NoRow

CallsOK == \A c \in Calls : CallOK(c)

TypeInv == CustomersTypeOK /\ CallsOK

\* The records that a call becomes.
LEMMA FreeType == Free \in CallRecords /\ Free.step = "free"
  BY CustomersAssumption DEF Free, CallRecords, CallSteps

\* Nothing has happened to a customer at first.
LEMMA InitType == Init => TypeInv
<1> SUFFICES ASSUME Init PROVE TypeInv
  OBVIOUS
<1>1. CallsOK
  BY FreeType DEF Init, CallsOK, CallOK, CodeSteps
<1>2. code \in [CodeIds -> CodeRows]
  BY CustomersAssumption DEF Init, CodeRows
<1>3. \A n \in CodeIds : /\ code[n].state = "none" <=> n > saved
                         /\ code[n].state = "deleted" => code[n] = Deleted
  BY CustomersAssumption DEF Init, CodeIds
<1>4. saved \in 0..MaxCodes
  BY CustomersAssumption DEF Init
<1>6. customer \in CustomerRows \cup {NoRow} /\ restored \in BOOLEAN
  BY DEF Init
<1>5. /\ rows \in [Tables -> 0..1]
      /\ call \in [Calls -> CallRecords]
      /\ logins \in [CodeIds -> Nat]
  BY FreeType DEF Init
<1> QED BY <1>1, <1>2, <1>3, <1>4, <1>5, <1>6 DEF TypeInv, CustomersTypeOK

\* A call that goes on or ends leaves the others alone.
LEMMA CallType ==
  ASSUME TypeInv, NEW c \in Calls, NEW k \in CallRecords, call' = [call EXCEPT ![c] = k],
         saved' \in 0..MaxCodes, saved <= saved',
         customer # NoRow => customer' # NoRow,
         customer' \in CustomerRows \cup {NoRow},
         CallOK(c)'
  PROVE  call' \in [Calls -> CallRecords] /\ CallsOK'
<1>1. call' \in [Calls -> CallRecords]
  BY DEF TypeInv, CustomersTypeOK
<1>2. ASSUME NEW d \in Calls, d # c PROVE CallOK(d)'
  <2>1. call'[d] = call[d] /\ CallOK(d)
    BY <1>2 DEF TypeInv, CustomersTypeOK, CallsOK
  <2>2. saved \in 0..MaxCodes
    BY DEF TypeInv, CustomersTypeOK
  <2> QED BY <2>1, <2>2, CustomersAssumption DEF CallOK
<1> QED BY <1>1, <1>2 DEF CallsOK

\* A call that only goes on to its next await.
LEMMA StepType ==
  ASSUME TypeInv, NEW c \in Calls, NEW step \in CallSteps
  PROVE  /\ [call[c] EXCEPT !.step = step] \in CallRecords
         /\ [call EXCEPT ![c].step = step] = [call EXCEPT ![c] = [call[c] EXCEPT !.step = step]]
  BY DEF TypeInv, CustomersTypeOK, CallRecords

\* The tables of codes and of the customer, which most steps leave alone.
TablesOK ==
    /\ code \in [CodeIds -> CodeRows]
    /\ saved \in 0..MaxCodes
    /\ \A n \in CodeIds : /\ code[n].state = "none" <=> n > saved
                          /\ code[n].state = "deleted" => code[n] = Deleted
    /\ customer \in CustomerRows \cup {NoRow}
    /\ rows \in [Tables -> 0..1]
    /\ logins \in [CodeIds -> Nat]
    /\ restored \in BOOLEAN

\* The type invariant, by tables and calls.
LEMMA TypeParts == TypeInv <=> TablesOK /\ call \in [Calls -> CallRecords] /\ CallsOK
  BY DEF TypeInv, CustomersTypeOK, TablesOK

\* Steps of a call that read only.
LEMMA ReadingType ==
  ASSUME TypeInv, NEW c \in Calls, NEW k \in CallRecords, call' = [call EXCEPT ![c] = k],
         UNCHANGED <<codeVars, rowVars, rows, logins>>, CallOK(c)'
  PROVE  TypeInv'
<1>1. TablesOK'
  BY TypeParts DEF TablesOK, codeVars, rowVars
<1>2. saved' = saved /\ customer' = customer
  BY DEF codeVars, rowVars
<1>3. saved' \in 0..MaxCodes /\ saved <= saved' /\ customer' \in CustomerRows \cup {NoRow}
  BY <1>2, TypeParts, CustomersAssumption DEF TablesOK
<1>4. call' \in [Calls -> CallRecords] /\ CallsOK'
  BY <1>2, <1>3, CallType
<1> QED BY <1>1, <1>4 DEF TypeInv, CustomersTypeOK, TablesOK

\* The steps that only look something up, begin or break off.
LEMMA ReadingStep ==
  ASSUME TypeInv, NEW c \in Calls,
         \/ RequestOtp(c)
         \/ \E n \in CodeIds, g \in 0..saved : VerifyOtp(c, n, g)
         \/ CompareCode(c) \/ FindByPhone(c) \/ CreateCustomer(c)
         \/ LoadCustomer(c) \/ DiffCustomer(c)
         \/ UpsertPreference(c) \/ AddFavorite(c) \/ CreateReview(c)
         \/ Abort(c)
  PROVE  TypeInv'
<1>0. call \in [Calls -> CallRecords] /\ TablesOK /\ CallOK(c) /\ MaxCodes \in Nat
  BY TypeParts, CustomersAssumption DEF CallsOK
<1>1. CASE RequestOtp(c)
  <2>1. PICK k \in CallRecords : k = [call[c] EXCEPT !.step = "delete"]
    BY <1>0, StepType DEF CallSteps
  <2>2. call' = [call EXCEPT ![c] = k] /\ UNCHANGED <<codeVars, rowVars, rows, logins>>
    BY <1>1, <2>1 DEF RequestOtp, Become
  <2>3. CallOK(c)'
    BY <1>0, <2>1, <2>2 DEF CallOK, CodeSteps, CallRecords
  <2> QED BY <2>2, <2>3, ReadingType
<1>2. CASE \E n \in CodeIds, g \in 0..saved : VerifyOtp(c, n, g)
  <2>1. PICK n \in CodeIds, g \in 0..saved : VerifyOtp(c, n, g)
    BY <1>2
  <2> DEFINE k == [call[c] EXCEPT !.step = "compare", !.code = n, !.guess = g]
  <2>2. k \in CallRecords
    <3>1. n \in 0..MaxCodes /\ g \in 0..MaxCodes
      BY <1>0 DEF TablesOK, CodeIds
    <3> QED BY <1>0, <3>1 DEF CallRecords, CallSteps
  <2>3. call' = [call EXCEPT ![c] = k] /\ UNCHANGED <<codeVars, rowVars, rows, logins>>
    BY <1>0, <2>1, <2>2 DEF VerifyOtp
  <2>4. n \in 1..saved /\ saved' = saved
    <3>1. code[n].state # "none"
      BY <2>1 DEF VerifyOtp, Newest, Unused
    <3> QED BY <1>0, <2>3, <3>1 DEF TablesOK, CodeIds, codeVars
  <2>5. CallOK(c)'
    BY <1>0, <2>2, <2>3, <2>4 DEF CallOK, CodeSteps, CallRecords
  <2> HIDE DEF k
  <2> QED BY <2>2, <2>3, <2>5, ReadingType
<1>3. CASE CompareCode(c)
  <2>1. PICK step \in {"mark", "count"} :
            call' = [call EXCEPT ![c].step = step] /\ UNCHANGED <<codeVars, rowVars, rows, logins>>
    BY <1>3 DEF CompareCode, Become
  <2>2. PICK k \in CallRecords : k = [call[c] EXCEPT !.step = step]
    BY <1>0, StepType DEF CallSteps
  <2>3. call' = [call EXCEPT ![c] = k]
    BY <2>1, <2>2
  <2>4. CallOK(c)'
    BY <1>0, <1>3, <2>1, <2>2, <2>3 DEF CompareCode, CallOK, CodeSteps, CallRecords, codeVars
  <2> QED BY <2>1, <2>3, <2>4, ReadingType
<1>4. CASE FindByPhone(c)
  <2>1. PICK step \in {"insert_customer", "verify"} :
            /\ call' = [call EXCEPT ![c].step = step]
            /\ UNCHANGED <<codeVars, rowVars, rows, logins>>
            /\ step = "verify" => customer # NoRow
    BY <1>4 DEF FindByPhone, Become
  <2>2. PICK k \in CallRecords : k = [call[c] EXCEPT !.step = step]
    BY <1>0, StepType DEF CallSteps
  <2>3. call' = [call EXCEPT ![c] = k]
    BY <2>1, <2>2
  <2>4. CallOK(c)'
    BY <1>0, <1>4, <2>1, <2>2, <2>3 DEF FindByPhone, CallOK, CodeSteps, CallRecords, codeVars, rowVars
  <2> QED BY <2>1, <2>3, <2>4, ReadingType
<1>5. CASE CreateCustomer(c)
  <2>1. PICK k \in CallRecords : k = [call[c] EXCEPT !.step = "create"]
    BY <1>0, StepType DEF CallSteps
  <2>2. call' = [call EXCEPT ![c] = k] /\ UNCHANGED <<codeVars, rowVars, rows, logins>>
    BY <1>5, <2>1 DEF CreateCustomer, Become
  <2>3. CallOK(c)'
    BY <1>0, <2>1, <2>2 DEF CallOK, CodeSteps, CallRecords
  <2> QED BY <2>2, <2>3, ReadingType
<1>6. CASE LoadCustomer(c)
  <2> DEFINE k == [call[c] EXCEPT !.step = "diff", !.loaded = customer]
  <2>1. k \in CallRecords
    BY <1>0 DEF CallRecords, CallSteps, TablesOK
  <2>2. call' = [call EXCEPT ![c] = k] /\ UNCHANGED <<codeVars, rowVars, rows, logins>>
    BY <1>0, <1>6, <2>1 DEF LoadCustomer
  <2>3. CallOK(c)'
    BY <1>0, <1>6, <2>1, <2>2 DEF LoadCustomer, CallOK, CodeSteps, CallRecords, rowVars
  <2> HIDE DEF k
  <2> QED BY <2>1, <2>2, <2>3, ReadingType
<1>7. CASE DiffCustomer(c)
  <2> DEFINE k == [call[c] EXCEPT !.step = "save", !.seen = customer]
  <2>1. k \in CallRecords
    BY <1>0 DEF CallRecords, CallSteps, TablesOK
  <2>2. call' = [call EXCEPT ![c] = k] /\ UNCHANGED <<codeVars, rowVars, rows, logins>>
    BY <1>0, <1>7, <2>1 DEF DiffCustomer
  <2>3. CallOK(c)'
    BY <1>0, <1>7, <2>1, <2>2 DEF DiffCustomer, CallOK, CodeSteps, CallRecords, rowVars
  <2> HIDE DEF k
  <2> QED BY <2>1, <2>2, <2>3, ReadingType
<1>8. CASE UpsertPreference(c) \/ AddFavorite(c) \/ CreateReview(c)
  <2>1. PICK t \in Tables : LookUpRow(c, t)
    BY <1>8 DEF UpsertPreference, AddFavorite, CreateReview
  <2>2. PICK k \in CallRecords : k = [call[c] EXCEPT !.step = "insert_row", !.table = t]
    BY <1>0 DEF CallRecords, CallSteps
  <2>3. call' = [call EXCEPT ![c] = k] /\ UNCHANGED <<codeVars, rowVars, rows, logins>>
    BY <1>0, <2>1, <2>2 DEF LookUpRow
  <2>4. CallOK(c)'
    BY <1>0, <2>2, <2>3, CustomersAssumption DEF CallOK, CodeSteps, CallRecords
  <2> QED BY <2>3, <2>4, ReadingType
<1>9. CASE Abort(c)
  <2>1. call' = [call EXCEPT ![c] = Free] /\ UNCHANGED <<codeVars, rowVars, rows, logins>>
    BY <1>9 DEF Abort, End
  <2>2. CallOK(c)'
    BY <1>0, <2>1, FreeType DEF CallOK, CodeSteps
  <2> QED BY <2>1, <2>2, FreeType, ReadingType
<1> QED BY <1>1, <1>2, <1>3, <1>4, <1>5, <1>6, <1>7, <1>8, <1>9

\* Steps that write a table: what they leave is of its type and keeps the rows
\* that calls rely on.
LEMMA WritingType ==
  ASSUME TypeInv, NEW c \in Calls, NEW k \in CallRecords, call' = [call EXCEPT ![c] = k],
         TablesOK', saved <= saved', customer # NoRow => customer' # NoRow, CallOK(c)'
  PROVE  TypeInv'
<1>1. saved' \in 0..MaxCodes /\ customer' \in CustomerRows \cup {NoRow}
  BY DEF TablesOK
<1>2. call' \in [Calls -> CallRecords] /\ CallsOK'
  BY <1>1, CallType
<1> QED BY <1>2 DEF TypeInv, CustomersTypeOK, TablesOK

\* The steps that write phone_otp_codes.
LEMMA CodesType ==
  ASSUME TypeInv, NEW c \in Calls,
         DeleteUnused(c) \/ InsertCode(c) \/ CountAttempt(c) \/ MarkUsed(c)
  PROVE  TypeInv'
<1>0. /\ call \in [Calls -> CallRecords] /\ TablesOK /\ CallOK(c)
      /\ MaxCodes \in Nat /\ Limit \in Nat
  BY TypeParts, CustomersAssumption DEF CallsOK
<1>1. CASE DeleteUnused(c)
  <2>1. PICK k \in CallRecords : k = [call[c] EXCEPT !.step = "insert_code"]
    BY <1>0, StepType DEF CallSteps
  <2>2. /\ call' = [call EXCEPT ![c] = k]
        /\ UNCHANGED <<saved, customer, restored, rows, logins>>
    BY <1>1, <2>1 DEF DeleteUnused, Become, rowVars
  <2>3. CallOK(c)'
    BY <1>0, <2>1, <2>2 DEF CallOK, CodeSteps, CallRecords
  <2>4. code' \in [CodeIds -> CodeRows]
    BY <1>0, <1>1 DEF DeleteUnused, TablesOK, CodeRows, Deleted
  <2>5. ASSUME NEW n \in CodeIds
        PROVE  /\ code'[n].state = "none" <=> n > saved
               /\ code'[n].state = "deleted" => code'[n] = Deleted
    <3>1. CASE n \in Unused
      BY <1>0, <1>1, <3>1 DEF DeleteUnused, TablesOK, Deleted, Unused
    <3>2. CASE n \notin Unused
      BY <1>0, <1>1, <3>2 DEF DeleteUnused, TablesOK
    <3> QED BY <3>1, <3>2
  <2>6. TablesOK'
    BY <1>0, <2>2, <2>4, <2>5 DEF TablesOK
  <2>7. saved <= saved'
    BY <1>0, <2>2 DEF TablesOK
  <2> QED BY <2>2, <2>3, <2>6, <2>7, WritingType
<1>2. CASE InsertCode(c)
  <2>1. /\ call' = [call EXCEPT ![c] = Free]
        /\ UNCHANGED <<customer, restored, rows, logins>>
    BY <1>2 DEF InsertCode, End, rowVars
  <2>2. CallOK(c)'
    BY <1>0, <2>1, FreeType DEF CallOK, CodeSteps
  <2>3. saved' = saved + 1 /\ saved' \in 0..MaxCodes /\ saved + 1 \in CodeIds
    BY <1>0, <1>2 DEF InsertCode, TablesOK, CodeIds
  <2>4. code' = [code EXCEPT ![saved + 1] = [code[saved + 1] EXCEPT !.state = "unused"]]
    BY <1>2 DEF InsertCode
  <2>5. code' \in [CodeIds -> CodeRows]
    BY <1>0, <2>3, <2>4 DEF TablesOK, CodeRows
  <2>6. ASSUME NEW n \in CodeIds
        PROVE  /\ code'[n].state = "none" <=> n > saved'
               /\ code'[n].state = "deleted" => code'[n] = Deleted
    <3>1. CASE n = saved + 1
      BY <1>0, <2>3, <2>4, <3>1 DEF TablesOK, CodeRows
    <3>2. CASE n # saved + 1
      <4>1. code'[n] = code[n] /\ (n > saved <=> n > saved')
        BY <1>0, <2>3, <2>4, <3>2 DEF TablesOK, CodeIds
      <4> QED BY <1>0, <4>1 DEF TablesOK
    <3> QED BY <3>1, <3>2
  <2>7. TablesOK'
    BY <1>0, <2>1, <2>3, <2>5, <2>6 DEF TablesOK
  <2>8. saved <= saved'
    BY <1>0, <2>3 DEF TablesOK
  <2> QED BY <2>1, <2>2, <2>7, <2>8, FreeType, WritingType
<1>3. CASE CountAttempt(c)
  <2> DEFINE n == call[c].code
  <2>1. /\ call' = [call EXCEPT ![c] = Free]
        /\ UNCHANGED <<saved, customer, restored, rows, logins>>
    BY <1>3 DEF CountAttempt, End, rowVars
  <2>2. CallOK(c)'
    BY <1>0, <2>1, FreeType DEF CallOK, CodeSteps
  <2>3. n \in 1..saved /\ n \in CodeIds
    BY <1>0, <1>3 DEF CountAttempt, CallOK, CodeSteps, TablesOK, CodeIds
  <2>4. \/ code' = code
        \/ /\ code[n].state # "deleted" /\ code[n].attempts < Limit
           /\ code' = [code EXCEPT ![n] = [code[n] EXCEPT !.attempts = code[n].attempts + 1]]
    BY <1>3 DEF CountAttempt
  <2> HIDE DEF n
  <2>5. code' \in [CodeIds -> CodeRows]
    BY <1>0, <2>3, <2>4 DEF TablesOK, CodeRows
  <2>6. ASSUME NEW m \in CodeIds
        PROVE  /\ code'[m].state = "none" <=> m > saved
               /\ code'[m].state = "deleted" => code'[m] = Deleted
    BY <1>0, <2>3, <2>4 DEF TablesOK, CodeRows
  <2>7. TablesOK' /\ saved <= saved'
    BY <1>0, <2>1, <2>5, <2>6 DEF TablesOK
  <2> QED BY <2>1, <2>2, <2>7, FreeType, WritingType
<1>4. CASE MarkUsed(c)
  <2> DEFINE n == call[c].code
  <2>1. PICK k \in CallRecords : k = [call[c] EXCEPT !.step = "find"]
    BY <1>0, StepType DEF CallSteps
  <2>2. /\ call' = [call EXCEPT ![c] = k]
        /\ UNCHANGED <<saved, customer, restored, rows, logins>>
    BY <1>4, <2>1 DEF MarkUsed, Become, rowVars
  <2>3. n \in 1..saved /\ n \in CodeIds
    BY <1>0, <1>4 DEF MarkUsed, CallOK, CodeSteps, TablesOK, CodeIds
  <2>4. CallOK(c)'
    BY <1>0, <2>1, <2>2, <2>3 DEF CallOK, CodeSteps, CallRecords
  <2>5. \/ code' = code
        \/ /\ code[n].state # "deleted"
           /\ code' = [code EXCEPT ![n] = [code[n] EXCEPT !.state = "used"]]
    BY <1>4 DEF MarkUsed
  <2> HIDE DEF n
  <2>6. code' \in [CodeIds -> CodeRows]
    BY <1>0, <2>3, <2>5 DEF TablesOK, CodeRows
  <2>7. ASSUME NEW m \in CodeIds
        PROVE  /\ code'[m].state = "none" <=> m > saved
               /\ code'[m].state = "deleted" => code'[m] = Deleted
    BY <1>0, <2>3, <2>5 DEF TablesOK, CodeRows, CodeIds
  <2>8. TablesOK' /\ saved <= saved'
    BY <1>0, <2>2, <2>6, <2>7 DEF TablesOK
  <2> QED BY <2>2, <2>4, <2>8, WritingType
<1> QED BY <1>1, <1>2, <1>3, <1>4

\* The steps that write the customer and the rows of other tables.
LEMMA RowsType ==
  ASSUME TypeInv, NEW c \in Calls,
         \/ VerifyPhone(c) \/ InsertVerified(c) \/ IssueSession(c)
         \/ InsertCustomer(c) \/ SaveCustomer(c) \/ InsertRow(c)
  PROVE  TypeInv'
<1>0. /\ call \in [Calls -> CallRecords] /\ TablesOK /\ CallOK(c)
      /\ MaxCodes \in Nat /\ saved <= saved
  BY TypeParts, CustomersAssumption DEF CallsOK, TablesOK
<1>1. /\ [verified |-> TRUE, session |-> 0] \in CustomerRows
      /\ [verified |-> FALSE, session |-> 0] \in CustomerRows
  BY <1>0 DEF CustomerRows
<1>9. \A k \in CustomerRows : k # NoRow
  BY NoRowAssumption
<1>2. CASE VerifyPhone(c)
  <2>1. PICK k \in CallRecords : k = [call[c] EXCEPT !.step = "session"]
    BY <1>0, StepType DEF CallSteps
  <2>2. /\ call' = [call EXCEPT ![c] = k]
        /\ UNCHANGED <<code, saved, restored, rows, logins>>
    BY <1>2, <2>1 DEF VerifyPhone, Become, codeVars
  <2>3. customer \in CustomerRows /\ customer' = [customer EXCEPT !.verified = TRUE]
    BY <1>0, <1>2 DEF VerifyPhone, CallOK, TablesOK
  <2>4. customer' \in CustomerRows /\ customer' # NoRow
    BY <2>3, NoRowAssumption DEF CustomerRows
  <2>5. CallOK(c)'
    BY <1>0, <1>2, <2>1, <2>2, <2>4 DEF VerifyPhone, CallOK, CodeSteps, CallRecords
  <2>6. TablesOK'
    BY <1>0, <2>2, <2>4 DEF TablesOK
  <2> QED BY <1>0, <2>2, <2>4, <2>5, <2>6, WritingType
<1>3. CASE InsertVerified(c) /\ customer = NoRow
  <2>1. PICK k \in CallRecords : k = [call[c] EXCEPT !.step = "session"]
    BY <1>0, StepType DEF CallSteps
  <2>2. /\ call' = [call EXCEPT ![c] = k]
        /\ UNCHANGED <<code, saved, restored, rows, logins>>
    BY <1>3, <2>1 DEF InsertVerified, Become, codeVars
  <2>3. customer' \in CustomerRows /\ customer' # NoRow
    <3>1. customer' = [verified |-> TRUE, session |-> 0]
      BY <1>3 DEF InsertVerified
    <3> QED BY <1>1, <1>9, <3>1
  <2>4. CallOK(c)'
    BY <1>0, <1>3, <2>1, <2>2, <2>3 DEF InsertVerified, CallOK, CodeSteps, CallRecords
  <2>5. TablesOK'
    BY <1>0, <2>2, <2>3 DEF TablesOK
  <2> QED BY <1>0, <2>2, <2>3, <2>4, <2>5, WritingType
<1>4. CASE InsertVerified(c) /\ customer # NoRow
  <2>1. /\ call' = [call EXCEPT ![c] = Free]
        /\ UNCHANGED <<codeVars, rowVars, rows, logins>>
    BY <1>4 DEF InsertVerified, End, codeVars, rowVars
  <2>2. CallOK(c)'
    BY <1>0, <2>1, FreeType DEF CallOK, CodeSteps
  <2> QED BY <2>1, <2>2, FreeType, ReadingType
<1>5. CASE IssueSession(c)
  <2>1. /\ call' = [call EXCEPT ![c] = Free]
        /\ UNCHANGED <<code, saved, restored, rows>>
    BY <1>5 DEF IssueSession, End, codeVars
  <2>2. CallOK(c)'
    BY <1>0, <2>1, FreeType DEF CallOK, CodeSteps
  <2>3. call[c].code \in CodeIds /\ call[c].code \in 0..MaxCodes /\ customer \in CustomerRows
    BY <1>0, <1>5 DEF IssueSession, CallOK, CodeSteps, TablesOK, CodeIds
  <2>4. customer' \in CustomerRows /\ customer' # NoRow
    BY <1>5, <2>3, NoRowAssumption DEF IssueSession, CustomerRows
  <2>5. logins' \in [CodeIds -> Nat]
    BY <1>0, <1>5, <2>3 DEF IssueSession, TablesOK
  <2>6. TablesOK'
    BY <1>0, <2>1, <2>4, <2>5 DEF TablesOK
  <2> QED BY <1>0, <2>1, <2>2, <2>4, <2>6, FreeType, WritingType
<1>6. CASE InsertCustomer(c)
  <2>1. /\ call' = [call EXCEPT ![c] = Free]
        /\ UNCHANGED <<code, saved, restored, rows, logins>>
    BY <1>6 DEF InsertCustomer, End, codeVars
  <2>2. CallOK(c)'
    BY <1>0, <2>1, FreeType DEF CallOK, CodeSteps
  <2>3. customer' \in CustomerRows /\ customer' # NoRow
    <3>1. \/ customer # NoRow /\ customer' = customer
          \/ customer' = [verified |-> FALSE, session |-> 0]
      BY <1>6 DEF InsertCustomer
    <3> QED BY <1>0, <1>1, <1>9, <3>1 DEF TablesOK
  <2>4. TablesOK'
    BY <1>0, <2>1, <2>3 DEF TablesOK
  <2> QED BY <1>0, <2>1, <2>2, <2>3, <2>4, FreeType, WritingType
<1>7. CASE SaveCustomer(c)
  <2>1. /\ call' = [call EXCEPT ![c] = Free]
        /\ UNCHANGED <<code, saved, rows, logins>>
    BY <1>7 DEF SaveCustomer, End, codeVars
  <2>2. CallOK(c)'
    BY <1>0, <2>1, FreeType DEF CallOK, CodeSteps
  <2>3. /\ customer \in CustomerRows
        /\ call[c].loaded \in CustomerRows /\ call[c].seen \in CustomerRows
    BY <1>0, <1>7 DEF SaveCustomer, CallOK, CallRecords, TablesOK
  <2>4. customer' \in CustomerRows /\ customer' # NoRow
    BY <1>7, <2>3, NoRowAssumption DEF SaveCustomer, CustomerRows
  <2>5. restored' \in BOOLEAN
    BY <1>7 DEF SaveCustomer
  <2>6. TablesOK'
    BY <1>0, <2>1, <2>4, <2>5 DEF TablesOK
  <2> QED BY <1>0, <2>1, <2>2, <2>4, <2>6, FreeType, WritingType
<1>8. CASE InsertRow(c)
  <2>1. /\ call' = [call EXCEPT ![c] = Free]
        /\ UNCHANGED <<code, saved, customer, restored, logins>>
    BY <1>8 DEF InsertRow, End, codeVars, rowVars
  <2>2. CallOK(c)'
    BY <1>0, <2>1, FreeType DEF CallOK, CodeSteps
  <2>3. rows' \in [Tables -> 0..1]
    <3>1. \/ rows' = rows
          \/ rows' = [rows EXCEPT ![call[c].table] = 1]
      BY <1>8 DEF InsertRow
    <3> QED BY <1>0, <3>1 DEF TablesOK
  <2>4. TablesOK'
    BY <1>0, <2>1, <2>3 DEF TablesOK
  <2> QED BY <1>0, <2>1, <2>2, <2>4, FreeType, WritingType
<1> QED BY <1>2, <1>3, <1>4, <1>5, <1>6, <1>7, <1>8

\* What happens without a call.
LEMMA OutsideType ==
  ASSUME TypeInv,
         (\E n \in CodeIds : CodeExpires(n)) \/ Logout \/ RemoveFavorite \/ UNCHANGED vars
  PROVE  TypeInv'
<1>0. TablesOK /\ call \in [Calls -> CallRecords] /\ CallsOK /\ MaxCodes \in Nat
  BY TypeParts, CustomersAssumption
<1>1. CASE \E n \in CodeIds : CodeExpires(n)
  <2>1. PICK n \in CodeIds : CodeExpires(n)
    BY <1>1
  <2>2. /\ code' = [code EXCEPT ![n] = [code[n] EXCEPT !.expired = TRUE]]
        /\ code[n].state = "unused"
        /\ UNCHANGED <<saved, customer, restored, rows, call, logins>>
    BY <2>1 DEF CodeExpires, Unused, rowVars
  <2>3. code' \in [CodeIds -> CodeRows]
    BY <1>0, <2>2 DEF TablesOK, CodeRows
  <2>4. ASSUME NEW m \in CodeIds
        PROVE  /\ code'[m].state = "none" <=> m > saved
               /\ code'[m].state = "deleted" => code'[m] = Deleted
    BY <1>0, <2>2 DEF TablesOK, CodeRows
  <2> QED BY <1>0, <2>2, <2>3, <2>4 DEF TypeInv, CustomersTypeOK, TablesOK, CallsOK, CallOK
<1>2. CASE Logout
  <2>1. customer \in CustomerRows /\ customer' = [customer EXCEPT !.session = 0]
    BY <1>0, <1>2 DEF Logout, TablesOK
  <2>2. customer' \in CustomerRows /\ customer' # NoRow
    BY <1>0, <2>1, NoRowAssumption DEF CustomerRows
  <2>3. UNCHANGED <<code, saved, restored, rows, call, logins>>
    BY <1>2 DEF Logout, codeVars
  <2> QED BY <1>0, <2>2, <2>3 DEF TypeInv, CustomersTypeOK, TablesOK, CallsOK, CallOK
<1>3. CASE RemoveFavorite
  <2>1. rows' \in [Tables -> 0..1]
    BY <1>0, <1>3 DEF RemoveFavorite, TablesOK
  <2>2. UNCHANGED <<code, saved, customer, restored, call, logins>>
    BY <1>3 DEF RemoveFavorite, codeVars, rowVars
  <2> QED BY <1>0, <2>1, <2>2 DEF TypeInv, CustomersTypeOK, TablesOK, CallsOK, CallOK
<1>4. CASE UNCHANGED vars
  BY <1>0, <1>4 DEF vars, TypeInv, CustomersTypeOK, TablesOK, CallsOK, CallOK
<1> QED BY <1>1, <1>2, <1>3, <1>4

\* No step of the code makes a row, a code or a call of another type, nor does
\* a call work for a row that is not there.
LEMMA TypeStep == TypeInv /\ [Next]_vars => TypeInv'
<1> SUFFICES ASSUME TypeInv, [Next]_vars PROVE TypeInv'
  OBVIOUS
<1>1. ASSUME NEW c \in Calls, CodeStep(c) PROVE TypeInv'
  BY <1>1, ReadingStep, CodesType, RowsType DEF CodeStep
<1>2. ASSUME NEW c \in Calls, RowStep(c) PROVE TypeInv'
  BY <1>2, ReadingStep, RowsType DEF RowStep
<1>3. ASSUME NEW c \in Calls, Abort(c) PROVE TypeInv'
  BY <1>3, ReadingStep
<1> QED BY <1>1, <1>2, <1>3, OutsideType DEF Next

\* Every table, code and call in flight keeps its type: upsertByPhone(), save()
\* and the unique indexes leave one row, and a deleted code counts no attempts.
THEOREM CustomersTypeCorrect == Spec => []CustomersTypeOK
<1>1. TypeInv => CustomersTypeOK
  BY DEF TypeInv
<1> QED BY <1>1, InitType, TypeStep, PTL DEF Spec

-----------------------------------------------------------------------------
(* Counting calls.                                                         *)

\* Sets of calls are finite.
LEMMA CallsAreCounted ==
  /\ Cardinality(Calls) \in Nat
  /\ \A S \in SUBSET Calls : /\ IsFiniteSet(S)
                             /\ Cardinality(S) \in Nat
                             /\ Cardinality(S) <= Cardinality(Calls)
  BY CustomersAssumption, FS_CardinalityType, FS_Subset

\* A smaller set of calls has no more of them.
LEMMA FewerCalls ==
  ASSUME NEW T \in SUBSET Calls, NEW S \in SUBSET T
  PROVE  Cardinality(S) <= Cardinality(T)
  BY CallsAreCounted, FS_Subset

\* Without one of its calls a set has one less.
LEMMA OneCallLess ==
  ASSUME NEW T \in SUBSET Calls, NEW c \in T, NEW S \in SUBSET (T \ {c})
  PROVE  Cardinality(S) + 1 <= Cardinality(T)
<1>1. Cardinality(T \ {c}) = Cardinality(T) - 1
  BY CallsAreCounted, FS_RemoveElement
<1>2. Cardinality(S) <= Cardinality(T \ {c})
  BY FewerCalls
<1> QED BY <1>1, <1>2, CallsAreCounted

\* One element more.
LEMMA OneMore ==
  ASSUME NEW S, IsFiniteSet(S), NEW x
  PROVE  IsFiniteSet(S \cup {x}) /\ Cardinality(S \cup {x}) <= Cardinality(S) + 1
<1>1. Cardinality(S) \in Nat
  BY FS_CardinalityType
<1>2. /\ IsFiniteSet(S \cup {x})
      /\ Cardinality(S \cup {x}) = Cardinality(S) \/ Cardinality(S \cup {x}) = Cardinality(S) + 1
  BY FS_AddElement
<1> QED BY <1>1, <1>2

-----------------------------------------------------------------------------
(* Where a call comes from, and what may happen to a code.                 *)

LoginSteps == {"mark", "find", "verify", "insert_customer", "session"}

\* Where a call may come from.
CallMoved(d) ==
    \/ call'[d] = call[d]
    \/ call'[d].step \notin CodeSteps \cup {"insert_code"}
    \/ call'[d].step = "insert_code" /\ DeleteUnused(d)
    \/ /\ call'[d].step = "compare"
       /\ \E n \in CodeIds, g \in 0..saved : VerifyOtp(d, n, g) /\ call'[d].code = n
    \/ /\ call'[d].step \in LoginSteps \cup {"count"}
       /\ call'[d].code = call[d].code
       /\ call[d].step \in (LoginSteps \cup {"compare"})
       /\ call'[d].step = "count" => call[d].step = "compare"

\* A call is where it was, or came there by one of the ways of CallMoved.
LEMMA CallMoves ==
  ASSUME TypeInv, [Next]_vars, NEW d \in Calls
  PROVE  CallMoved(d)
<1>0. call \in [Calls -> CallRecords]
  BY TypeParts
<1>1. ASSUME NEW c \in Calls, CodeStep(c) PROVE CallMoved(d)
  <2>1. CASE RequestOtp(c) \/ DeleteUnused(c) \/ InsertCode(c)
    BY <1>0, <2>1 DEF RequestOtp, DeleteUnused, InsertCode, Become, End, Free, CallMoved,
       CodeSteps, CallRecords
  <2>2. CASE \E n \in CodeIds, g \in 0..saved : VerifyOtp(c, n, g)
    <3>1. PICK n \in CodeIds, g \in 0..saved : VerifyOtp(c, n, g)
      BY <2>2
    <3>2. CASE d # c
      BY <1>0, <3>1, <3>2 DEF VerifyOtp, CallMoved
    <3>3. CASE d = c
      <4>1. call'[d].step = "compare" /\ call'[d].code = n
        BY <1>0, <3>1, <3>3 DEF VerifyOtp, CallRecords
      <4> QED BY <3>1, <3>3, <4>1 DEF CallMoved
    <3> QED BY <3>2, <3>3
  <2>3. CASE CompareCode(c) \/ CountAttempt(c) \/ MarkUsed(c)
    BY <1>0, <2>3 DEF CompareCode, CountAttempt, MarkUsed, Become, End, Free, CallMoved,
       CodeSteps, LoginSteps, CallRecords
  <2>4. CASE FindByPhone(c) \/ VerifyPhone(c) \/ InsertVerified(c) \/ IssueSession(c)
    BY <1>0, <2>4 DEF FindByPhone, VerifyPhone, InsertVerified, IssueSession, Become, End,
       Free, CallMoved, CodeSteps, LoginSteps, CallRecords
  <2> QED BY <1>1, <2>1, <2>2, <2>3, <2>4 DEF CodeStep
<1>2. ASSUME NEW c \in Calls, RowStep(c) PROVE CallMoved(d)
  <2>1. CASE CreateCustomer(c) \/ InsertCustomer(c) \/ InsertRow(c)
    BY <1>0, <2>1 DEF CreateCustomer, InsertCustomer, InsertRow, Become, End, Free,
       CallMoved, CodeSteps, CallRecords
  <2>2. CASE LoadCustomer(c) \/ DiffCustomer(c) \/ SaveCustomer(c)
    BY <1>0, <2>2 DEF LoadCustomer, DiffCustomer, SaveCustomer, End, Free, CallMoved,
       CodeSteps, CallRecords
  <2>3. CASE UpsertPreference(c) \/ AddFavorite(c) \/ CreateReview(c)
    BY <1>0, <2>3 DEF UpsertPreference, AddFavorite, CreateReview, LookUpRow, CallMoved,
       CodeSteps, CallRecords
  <2> QED BY <1>2, <2>1, <2>2, <2>3 DEF RowStep
<1>3. ASSUME NEW c \in Calls, Abort(c) PROVE CallMoved(d)
  BY <1>0, <1>3 DEF Abort, End, Free, CallMoved, CodeSteps
<1>4. CASE (\E n \in CodeIds : CodeExpires(n)) \/ Logout \/ RemoveFavorite \/ UNCHANGED vars
  BY <1>4 DEF CodeExpires, Logout, RemoveFavorite, vars, CallMoved
<1> QED BY <1>1, <1>2, <1>3, <1>4 DEF Next

\* What a step may do to a code.
CodeMoved(n) ==
    /\ \/ code'[n].attempts = code[n].attempts
       \/ code'[n].state = "deleted"
       \/ /\ \E c \in Calls : CountAttempt(c) /\ call[c].code = n
          /\ code'[n].attempts = code[n].attempts + 1
    /\ code'[n].state = "none" => code[n].state = "none"
    /\ code[n].state = "deleted" => code'[n].state = "deleted"
    /\ code[n].state = "used" => code'[n].state \in {"used", "deleted"}
    /\ code'[n].state = "unused" =>
           \/ code[n].state = "unused"
           \/ n = saved + 1 /\ \E c \in Calls : InsertCode(c)
    /\ \/ logins'[n] = logins[n]
       \/ /\ \E c \in Calls : IssueSession(c) /\ call[c].code = n
          /\ logins'[n] = logins[n] + 1

\* A code only changes in the ways of CodeMoved: its attempts by one, its
\* state forwards, its logins by one.
LEMMA CodeMoves ==
  ASSUME TypeInv, [Next]_vars, NEW n \in CodeIds
  PROVE  CodeMoved(n)
<1>0. TablesOK /\ CallsOK /\ MaxCodes \in Nat
  BY TypeParts, CustomersAssumption
<1>1. CASE code' = code /\ logins' = logins
  BY <1>1 DEF CodeMoved
<1>2. ASSUME NEW c \in Calls, DeleteUnused(c) PROVE CodeMoved(n)
  BY <1>0, <1>2 DEF DeleteUnused, CodeMoved, Deleted, Unused, TablesOK
<1>3. ASSUME NEW c \in Calls, InsertCode(c) PROVE CodeMoved(n)
  <2>1. saved + 1 \in CodeIds /\ code[saved + 1].state = "none" /\ logins' = logins
    BY <1>0, <1>3 DEF InsertCode, TablesOK, CodeIds, CodeRows
  <2>2. code' = [code EXCEPT ![saved + 1] = [code[saved + 1] EXCEPT !.state = "unused"]]
    BY <1>3 DEF InsertCode
  <2> QED BY <1>0, <1>3, <2>1, <2>2 DEF CodeMoved, TablesOK, CodeRows
<1>4. ASSUME NEW c \in Calls, CountAttempt(c) PROVE CodeMoved(n)
  <2> DEFINE m == call[c].code
  <2>1. logins' = logins
    BY <1>4 DEF CountAttempt
  <2>2. \/ code' = code
        \/ code' = [code EXCEPT ![m] = [code[m] EXCEPT !.attempts = code[m].attempts + 1]]
    BY <1>4 DEF CountAttempt
  <2>3. m = n => \E e \in Calls : CountAttempt(e) /\ call[e].code = n
    BY <1>4
  <2> HIDE DEF m
  <2> QED BY <1>0, <2>1, <2>2, <2>3 DEF CodeMoved, TablesOK, CodeRows
<1>5. ASSUME NEW c \in Calls, MarkUsed(c) PROVE CodeMoved(n)
  <2> DEFINE m == call[c].code
  <2>1. logins' = logins
    BY <1>5 DEF MarkUsed
  <2>2. \/ code' = code
        \/ /\ code[m].state # "deleted"
           /\ code' = [code EXCEPT ![m] = [code[m] EXCEPT !.state = "used"]]
    BY <1>5 DEF MarkUsed
  <2> HIDE DEF m
  <2> QED BY <1>0, <2>1, <2>2 DEF CodeMoved, TablesOK, CodeRows
<1>6. ASSUME NEW c \in Calls, IssueSession(c) PROVE CodeMoved(n)
  <2>1. code' = code /\ logins' = [logins EXCEPT ![call[c].code] = logins[call[c].code] + 1]
    BY <1>6 DEF IssueSession, codeVars
  <2> QED BY <1>0, <1>6, <2>1 DEF CodeMoved, TablesOK
<1>7. ASSUME NEW m \in CodeIds, CodeExpires(m) PROVE CodeMoved(n)
  <2>1. /\ code' = [code EXCEPT ![m] = [code[m] EXCEPT !.expired = TRUE]]
        /\ logins' = logins
    BY <1>7 DEF CodeExpires
  <2> QED BY <1>0, <2>1 DEF CodeMoved, TablesOK, CodeRows
<1>8. ASSUME NEW c \in Calls,
             \/ RequestOtp(c) \/ CompareCode(c) \/ FindByPhone(c)
             \/ \E m \in CodeIds, g \in 0..saved : VerifyOtp(c, m, g)
             \/ VerifyPhone(c) \/ InsertVerified(c) \/ Abort(c)
      PROVE  code' = code /\ logins' = logins
  BY <1>8 DEF RequestOtp, CompareCode, FindByPhone, VerifyOtp, VerifyPhone, InsertVerified,
     Abort, codeVars
<1>9. ASSUME NEW c \in Calls, RowStep(c) PROVE code' = code /\ logins' = logins
  BY <1>9 DEF RowStep, CreateCustomer, InsertCustomer, LoadCustomer, DiffCustomer,
     SaveCustomer, UpsertPreference, AddFavorite, CreateReview, LookUpRow, InsertRow, codeVars
<1>10. CASE Logout \/ RemoveFavorite \/ UNCHANGED vars
  BY <1>1, <1>10 DEF Logout, RemoveFavorite, vars, codeVars
<1> QED BY <1>1, <1>2, <1>3, <1>4, <1>5, <1>6, <1>7, <1>8, <1>9, <1>10 DEF Next, CodeStep

-----------------------------------------------------------------------------
(* The guesses at a code.                                                  *)

\* A step keeps the bound: a guess is begun below the limit, counted as it
\* leaves the calls in flight, and otherwise only forgotten.
LEMMA GuessStep ==
  ASSUME TypeInv, TypeInv', GuessesAreBounded, [Next]_vars
  PROVE  GuessesAreBounded'
<1> SUFFICES ASSUME NEW n \in CodeIds, code'[n].state # "deleted"
             PROVE  code'[n].attempts + Cardinality(Guessing(n)')
                        < MaxAttempts + Cardinality(Calls)
  BY DEF GuessesAreBounded
<1> DEFINE before == Guessing(n)
           after == Guessing(n)'
<1>0. /\ TablesOK /\ TablesOK' /\ call \in [Calls -> CallRecords]
      /\ MaxAttempts \in Nat /\ Limit \in Nat
  BY TypeParts, CustomersAssumption DEF TypeInv, CustomersTypeOK, TablesOK
<1>1. /\ before \in SUBSET Calls /\ after \in SUBSET Calls
      /\ Cardinality(before) \in Nat /\ Cardinality(after) \in Nat
      /\ Cardinality(after) <= Cardinality(Calls) /\ Cardinality(Calls) \in Nat
  BY CallsAreCounted DEF Guessing
<1>2. code[n].attempts \in Nat /\ code'[n].attempts \in Nat
  BY <1>0 DEF TablesOK, CodeRows
<1>3. CodeMoved(n) /\ code[n].state # "deleted"
  BY CodeMoves DEF CodeMoved
<1>4. code[n].attempts + Cardinality(before) < MaxAttempts + Cardinality(Calls)
  BY <1>3 DEF GuessesAreBounded
<1>5. \A d \in Calls : CallMoved(d)
  BY CallMoves
<1>6. CASE \E c \in Calls, g \in 0..saved : VerifyOtp(c, n, g)
  <2>1. code' = code /\ code[n].attempts < MaxAttempts
    BY <1>6 DEF VerifyOtp, MayGuess, codeVars
  <2> QED BY <1>0, <1>1, <1>2, <2>1
<1>7. CASE \E c \in Calls : CountAttempt(c) /\ call[c].code = n
  <2>1. PICK c \in Calls : CountAttempt(c) /\ call[c].code = n
    BY <1>7
  <2>2. c \in before
    BY <2>1 DEF CountAttempt, Guessing
  <2>3. after \in SUBSET (before \ {c})
    BY <1>0, <2>1, FreeType DEF CountAttempt, End, Guessing
  <2>4. code'[n].attempts <= code[n].attempts + 1
    BY <1>2, <1>3 DEF CodeMoved
  <2>5. Cardinality(after) + 1 <= Cardinality(before)
    <3> HIDE DEF after, before
    <3> QED BY <1>1, <2>2, <2>3, OneCallLess
  <2> QED BY <1>0, <1>1, <1>2, <1>4, <2>4, <2>5
<1>8. CASE /\ ~ \E c \in Calls, g \in 0..saved : VerifyOtp(c, n, g)
           /\ ~ \E c \in Calls : CountAttempt(c) /\ call[c].code = n
  <2>1. code'[n].attempts = code[n].attempts
    BY <1>3, <1>8 DEF CodeMoved
  <2>2. after \in SUBSET before
    BY <1>5, <1>8 DEF CallMoved, Guessing, CodeSteps, LoginSteps
  <2>3. Cardinality(after) <= Cardinality(before)
    <3> HIDE DEF after, before
    <3> QED BY <1>1, <2>2, FewerCalls
  <2> QED BY <1>0, <1>1, <1>2, <1>4, <2>1, <2>3
<1> QED BY <1>6, <1>7, <1>8

\* However many verifications overlap, the guesses at a code that is still there
\* are fewer than OTP_MAX_ATTEMPTS and the calls together.
THEOREM GuessesStayBounded == Spec => []GuessesAreBounded
<1>1. Init => GuessesAreBounded
  <2> SUFFICES ASSUME Init, NEW n \in CodeIds
               PROVE  code[n].attempts + Cardinality(Guessing(n))
                          < MaxAttempts + Cardinality(Calls)
    BY DEF GuessesAreBounded
  <2>1. Guessing(n) = {} /\ code[n].attempts = 0
    BY FreeType DEF Init, Guessing
  <2> QED BY <2>1, CallsAreCounted, FS_EmptySet, CustomersAssumption
<1>2. TypeInv /\ TypeInv' /\ GuessesAreBounded /\ [Next]_vars => GuessesAreBounded'
  BY GuessStep
<1> QED BY <1>1, <1>2, InitType, TypeStep, PTL DEF Spec

-----------------------------------------------------------------------------
(* The codes that are unused.                                              *)

\* A request that has deleted the codes stands for the one it is about to save.
LEMMA UnusedStep ==
  ASSUME TypeInv, UnusedCodesAreBounded, [Next]_vars
  PROVE  UnusedCodesAreBounded'
<1> DEFINE savingNow == Saving
           savingThen == Saving'
<1>0. TablesOK /\ call \in [Calls -> CallRecords] /\ MaxCodes \in Nat
  BY TypeParts, CustomersAssumption
<1>1. /\ savingNow \in SUBSET Calls /\ savingThen \in SUBSET Calls
      /\ Cardinality(savingNow) \in Nat /\ Cardinality(savingThen) \in Nat
      /\ Cardinality(savingThen) <= Cardinality(Calls) /\ Cardinality(Calls) \in Nat
  BY CallsAreCounted DEF Saving
<1>2. IsFiniteSet(Unused) /\ Cardinality(Unused) \in Nat
  <2>1. IsFiniteSet(CodeIds)
    BY <1>0, FS_Interval DEF CodeIds
  <2>2. Unused \in SUBSET CodeIds
    BY DEF Unused
  <2> QED BY <2>1, <2>2, FS_Subset, FS_CardinalityType
<1>3. \A d \in Calls : CallMoved(d)
  BY CallMoves
<1>4. \A n \in CodeIds : CodeMoved(n)
  BY CodeMoves
<1>5. CASE \E c \in Calls : DeleteUnused(c)
  <2>1. Unused' = {}
    BY <1>5 DEF DeleteUnused, Unused, Deleted
  <2>2. Cardinality(Unused') = 0
    BY <2>1, FS_EmptySet
  <2> QED BY <1>1, <2>2 DEF UnusedCodesAreBounded
<1>6. CASE \E c \in Calls : InsertCode(c)
  <2>1. PICK c \in Calls : InsertCode(c)
    BY <1>6
  <2>2. Unused' \in SUBSET (Unused \cup {saved + 1})
    BY <1>4 DEF CodeMoved, Unused
  <2>3. Cardinality(Unused') <= Cardinality(Unused) + 1
    <3>1. /\ IsFiniteSet(Unused \cup {saved + 1})
          /\ Cardinality(Unused \cup {saved + 1}) <= Cardinality(Unused) + 1
      BY <1>2, OneMore
    <3>2. /\ IsFiniteSet(Unused') /\ Cardinality(Unused') \in Nat
          /\ Cardinality(Unused') <= Cardinality(Unused \cup {saved + 1})
      BY <2>2, <3>1, FS_Subset, FS_CardinalityType
    <3>3. Cardinality(Unused \cup {saved + 1}) \in Nat
      BY <3>1, FS_CardinalityType
    <3> QED BY <1>2, <3>1, <3>2, <3>3
  <2>4. c \in savingNow
    BY <2>1 DEF InsertCode, Saving
  <2>5. savingThen \in SUBSET (savingNow \ {c})
    BY <1>0, <2>1, FreeType DEF InsertCode, End, Saving
  <2>6. Cardinality(savingThen) + 1 <= Cardinality(savingNow)
    <3> HIDE DEF savingNow, savingThen
    <3> QED BY <1>1, <2>4, <2>5, OneCallLess
  <2>7. Cardinality(Unused') \in Nat
    <3>1. IsFiniteSet(Unused')
      BY <1>2, <2>2, FS_AddElement, FS_Subset
    <3> QED BY <3>1, FS_CardinalityType
  <2> QED BY <1>1, <1>2, <2>3, <2>6, <2>7 DEF UnusedCodesAreBounded
<1>7. CASE ~(\E c \in Calls : DeleteUnused(c) \/ InsertCode(c))
  <2>1. Unused' \in SUBSET Unused
    BY <1>4, <1>7 DEF CodeMoved, Unused
  <2>2. savingThen \in SUBSET savingNow
    BY <1>3, <1>7 DEF CallMoved, Saving, CodeSteps, LoginSteps
  <2>3. Cardinality(Unused') <= Cardinality(Unused) /\ Cardinality(Unused') \in Nat
    BY <1>2, <2>1, FS_Subset, FS_CardinalityType
  <2>4. Cardinality(savingThen) <= Cardinality(savingNow)
    <3> HIDE DEF savingNow, savingThen
    <3> QED BY <1>1, <2>2, FewerCalls
  <2> QED BY <1>1, <1>2, <2>3, <2>4 DEF UnusedCodesAreBounded
<1> QED BY <1>5, <1>6, <1>7

\* Never more codes can be entered than requests for one ran at a time.
THEOREM UnusedStayBounded == Spec => []UnusedCodesAreBounded
<1>1. Init => UnusedCodesAreBounded
  <2> SUFFICES ASSUME Init PROVE UnusedCodesAreBounded
    OBVIOUS
  <2>1. Unused = {} /\ Saving = {}
    BY FreeType DEF Init, Unused, Saving
  <2> QED BY <2>1, CallsAreCounted, FS_EmptySet DEF UnusedCodesAreBounded
<1> QED BY <1>1, UnusedStep, InitType, TypeStep, PTL DEF Spec

-----------------------------------------------------------------------------
(* The logins of a code.                                                   *)

\* A code gives at most as many logins as verifications of it overlapped, and
\* one if they come one after the other: the row is read, the hash compared and
\* the row marked in three awaits.
LoggingIn(n) ==
    {c \in Calls : call[c].step \in {"mark", "find", "verify", "insert_customer", "session"}
                   /\ call[c].code = n}

LoginsPerCode ==
    \A n \in CodeIds : logins[n] + Cardinality(LoggingIn(n)) <= Cardinality(Calls)

\* Calls that may still log in with code n.  A code that is unused has given no
\* login, and nobody is past marking it.
Verifying(n) == {c \in Calls : call[c].step \in LoginSteps \cup {"compare"} /\ call[c].code = n}

LoginInv ==
    \A n \in CodeIds :
        /\ code[n].state \in {"none", "unused"} => logins[n] = 0
        /\ \A c \in LoggingIn(n) :
               call[c].step # "mark" => code[n].state \in {"used", "deleted"}
        /\ logins[n] + Cardinality(Verifying(n)) <= Cardinality(Calls)

\* After the mark a code is not unused any more.
LEMMA MarkedStep ==
  ASSUME TypeInv, LoginInv, [Next]_vars, NEW n \in CodeIds, NEW c \in Calls,
         call'[c].step \in LoginSteps \ {"mark"}, call'[c].code = n
  PROVE  code'[n].state \in {"used", "deleted"}
<1>0. TablesOK /\ CallOK(c) /\ call \in [Calls -> CallRecords]
  BY TypeParts DEF CallsOK
<1>1. CodeMoved(n)
  BY CodeMoves
<1>2. CASE call[c].step \in LoginSteps \ {"mark"} /\ call[c].code = n
  <2>1. code[n].state \in {"used", "deleted"}
    BY <1>2 DEF LoginInv, LoggingIn, LoginSteps
  <2> QED BY <1>1, <2>1 DEF CodeMoved
<1>3. CASE MarkUsed(c)
  <2>1. call[c].code = n
    BY <1>0, <1>3 DEF MarkUsed, Become
  <2>2. \/ code' = code /\ code[n].state = "deleted"
        \/ code' = [code EXCEPT ![n] = [code[n] EXCEPT !.state = "used"]]
    BY <1>3, <2>1 DEF MarkUsed
  <2> QED BY <1>0, <2>2 DEF TablesOK, CodeRows
<1>4. MarkUsed(c) \/ (call[c].step \in LoginSteps \ {"mark"} /\ call[c].code = n)
  <2>1. ASSUME NEW d \in Calls, CodeStep(d), d = c
        PROVE  MarkUsed(c) \/ (call[c].step \in LoginSteps \ {"mark"} /\ call[c].code = n)
    <3>1. CASE \/ RequestOtp(d) \/ DeleteUnused(d) \/ InsertCode(d)
               \/ CompareCode(d) \/ CountAttempt(d)
      BY <1>0, <2>1, <3>1 DEF RequestOtp, DeleteUnused, InsertCode, CompareCode,
         CountAttempt, Become, End, Free, LoginSteps, CallRecords
    <3>2. CASE \E m \in CodeIds, g \in 0..saved : VerifyOtp(d, m, g)
      BY <1>0, <2>1, <3>2 DEF VerifyOtp, LoginSteps, CallRecords
    <3>3. CASE FindByPhone(d) \/ VerifyPhone(d) \/ InsertVerified(d) \/ IssueSession(d)
      BY <1>0, <2>1, <3>3 DEF FindByPhone, VerifyPhone, InsertVerified, IssueSession,
         Become, End, Free, LoginSteps, CallRecords
    <3> QED BY <2>1, <3>1, <3>2, <3>3 DEF CodeStep
  <2>2. ASSUME NEW d \in Calls, RowStep(d), d = c
        PROVE  call[c].step \in LoginSteps \ {"mark"} /\ call[c].code = n
    <3>1. CASE CreateCustomer(d) \/ InsertCustomer(d) \/ InsertRow(d)
      BY <1>0, <2>2, <3>1 DEF CreateCustomer, InsertCustomer, InsertRow, Become, End,
         Free, LoginSteps, CallRecords
    <3>2. CASE LoadCustomer(d) \/ DiffCustomer(d) \/ SaveCustomer(d)
      BY <1>0, <2>2, <3>2 DEF LoadCustomer, DiffCustomer, SaveCustomer, End, Free,
         LoginSteps, CallRecords
    <3>3. CASE UpsertPreference(d) \/ AddFavorite(d) \/ CreateReview(d)
      BY <1>0, <2>2, <3>3 DEF UpsertPreference, AddFavorite, CreateReview, LookUpRow,
         LoginSteps, CallRecords
    <3> QED BY <2>2, <3>1, <3>2, <3>3 DEF RowStep
  <2>3. ASSUME NEW d \in Calls, Abort(d), d = c PROVE FALSE
    BY <1>0, <2>3 DEF Abort, End, Free, LoginSteps
  <2>4. CASE call'[c] = call[c]
    BY <2>4
  <2>5. ASSUME NEW d \in Calls, CodeStep(d) \/ RowStep(d) \/ Abort(d), d # c
        PROVE  call'[c] = call[c]
    <3>1. ASSUME CodeStep(d) PROVE call'[c] = call[c]
      BY <1>0, <2>5, <3>1 DEF CodeStep, RequestOtp, DeleteUnused, InsertCode, CompareCode,
         CountAttempt, VerifyOtp, MarkUsed, FindByPhone, VerifyPhone, InsertVerified,
         IssueSession, Become, End
    <3>2. ASSUME RowStep(d) PROVE call'[c] = call[c]
      BY <1>0, <2>5, <3>2 DEF RowStep, CreateCustomer, InsertCustomer, InsertRow,
         LoadCustomer, DiffCustomer, SaveCustomer, UpsertPreference, AddFavorite,
         CreateReview, LookUpRow, Become, End
    <3> QED BY <1>0, <2>5, <3>1, <3>2 DEF Abort, End
  <2>6. CASE (\E m \in CodeIds : CodeExpires(m)) \/ Logout \/ RemoveFavorite \/ UNCHANGED vars
    BY <2>4, <2>6 DEF CodeExpires, Logout, RemoveFavorite, vars
  <2> QED BY <2>1, <2>2, <2>3, <2>4, <2>5, <2>6 DEF Next
<1> QED BY <1>2, <1>3, <1>4

\* A verification is begun while the code has given no login, and then either
\* becomes a login or leaves.
LEMMA LoginStep ==
  ASSUME TypeInv, TypeInv', LoginInv, [Next]_vars
  PROVE  LoginInv'
<1> SUFFICES ASSUME NEW n \in CodeIds
             PROVE  /\ code'[n].state \in {"none", "unused"} => logins'[n] = 0
                    /\ \A c \in LoggingIn(n)' :
                           call'[c].step # "mark" => code'[n].state \in {"used", "deleted"}
                    /\ logins'[n] + Cardinality(Verifying(n)') <= Cardinality(Calls)
  BY DEF LoginInv
<1> DEFINE before == Verifying(n)
           after == Verifying(n)'
<1>0. TablesOK /\ call \in [Calls -> CallRecords] /\ logins[n] \in Nat
  BY TypeParts DEF TablesOK
<1>1. /\ before \in SUBSET Calls /\ after \in SUBSET Calls
      /\ Cardinality(before) \in Nat /\ Cardinality(after) \in Nat
      /\ Cardinality(after) <= Cardinality(Calls) /\ Cardinality(Calls) \in Nat
  BY CallsAreCounted DEF Verifying
<1>2. CodeMoved(n)
  BY CodeMoves
<1>3. \A d \in Calls : CallMoved(d)
  BY CallMoves
<1>4. ASSUME NEW c \in Calls, IssueSession(c), call[c].code = n
      PROVE  code[n].state \in {"used", "deleted"}
  BY <1>4 DEF IssueSession, LoginInv, LoggingIn
<1>5. ASSUME code'[n].state \in {"none", "unused"} PROVE logins'[n] = 0
  <2>1. code[n].state \in {"none", "unused"}
    <3>1. CASE \E c \in Calls : n = saved + 1 /\ InsertCode(c)
      BY <1>0, <3>1 DEF InsertCode, TablesOK, CodeIds, CodeRows
    <3>2. CASE ~ \E c \in Calls : n = saved + 1 /\ InsertCode(c)
      BY <1>2, <1>5, <3>2 DEF CodeMoved
    <3> QED BY <3>1, <3>2
  <2>2. logins'[n] = logins[n]
    BY <1>2, <1>4, <2>1 DEF CodeMoved
  <2> QED BY <2>1, <2>2 DEF LoginInv
<1>6. ASSUME NEW c \in LoggingIn(n)', call'[c].step # "mark"
      PROVE  code'[n].state \in {"used", "deleted"}
  <2>1. c \in Calls /\ call'[c].step \in LoginSteps \ {"mark"} /\ call'[c].code = n
    BY <1>6 DEF LoggingIn, LoginSteps
  <2> QED BY <2>1, MarkedStep
<1>7. logins'[n] + Cardinality(Verifying(n)') <= Cardinality(Calls)
  <2>1. logins[n] + Cardinality(before) <= Cardinality(Calls)
    BY DEF LoginInv
  <2>2. CASE \E c \in Calls, g \in 0..saved : VerifyOtp(c, n, g)
    <3>1. code[n].state = "unused" /\ logins' = logins
      BY <2>2 DEF VerifyOtp, Newest, Unused
    <3>2. logins'[n] = 0
      BY <3>1 DEF LoginInv
    <3> QED BY <1>1, <3>2
  <2>3. CASE \E c \in Calls : IssueSession(c) /\ call[c].code = n
    <3>1. PICK c \in Calls : IssueSession(c) /\ call[c].code = n
      BY <2>3
    <3>2. c \in before
      BY <3>1 DEF IssueSession, Verifying, LoginSteps
    <3>3. after \in SUBSET (before \ {c})
      <4>1. c \notin after
        BY <1>0, <3>1, FreeType DEF IssueSession, End, Verifying, LoginSteps
      <4>2. \A d \in Calls \ {c} : call'[d] = call[d]
        BY <1>0, <3>1 DEF IssueSession, End
      <4> QED BY <4>1, <4>2 DEF Verifying
    <3>4. Cardinality(after) + 1 <= Cardinality(before)
      <4> HIDE DEF before, after
      <4> QED BY <1>1, <3>2, <3>3, OneCallLess
    <3>5. logins'[n] <= logins[n] + 1 /\ logins'[n] \in Nat
      BY <1>0, <1>2 DEF CodeMoved
    <3> QED BY <1>0, <1>1, <2>1, <3>4, <3>5
  <2>4. CASE /\ ~ \E c \in Calls, g \in 0..saved : VerifyOtp(c, n, g)
             /\ ~ \E c \in Calls : IssueSession(c) /\ call[c].code = n
    <3>1. logins'[n] = logins[n]
      BY <1>2, <2>4 DEF CodeMoved
    <3>2. after \in SUBSET before
      BY <1>3, <2>4 DEF CallMoved, Verifying, CodeSteps, LoginSteps
    <3>3. Cardinality(after) <= Cardinality(before)
      <4> HIDE DEF before, after
      <4> QED BY <1>1, <3>2, FewerCalls
    <3> QED BY <1>0, <1>1, <2>1, <3>1, <3>3
  <2> QED BY <2>2, <2>3, <2>4
<1> QED BY <1>5, <1>6, <1>7

\* A code gives no more logins than calls ran at a time, for any number of
\* verifications, and one where they do not overlap.
THEOREM LoginsStayBounded == Spec => []LoginsPerCode
<1>1. Init => LoginInv
  <2> SUFFICES ASSUME Init, NEW n \in CodeIds
               PROVE  /\ logins[n] = 0 /\ LoggingIn(n) = {} /\ Verifying(n) = {}
    BY CallsAreCounted, FS_EmptySet DEF LoginInv
  <2> QED BY FreeType DEF Init, LoggingIn, Verifying, LoginSteps
<1>2. TypeInv /\ TypeInv' /\ LoginInv /\ [Next]_vars => LoginInv'
  BY LoginStep
<1>3. TypeInv /\ LoginInv => LoginsPerCode
  <2> SUFFICES ASSUME TypeInv, LoginInv, NEW n \in CodeIds
               PROVE  logins[n] + Cardinality(LoggingIn(n)) <= Cardinality(Calls)
    BY DEF LoginsPerCode
  <2>1. Verifying(n) \in SUBSET Calls /\ LoggingIn(n) \in SUBSET Verifying(n)
    BY DEF Verifying, LoggingIn, LoginSteps
  <2>2. Cardinality(LoggingIn(n)) <= Cardinality(Verifying(n))
    BY <2>1, FewerCalls
  <2>3. /\ Cardinality(LoggingIn(n)) \in Nat /\ Cardinality(Verifying(n)) \in Nat
        /\ Cardinality(Calls) \in Nat /\ logins[n] \in Nat
    BY <2>1, CallsAreCounted DEF TypeInv, CustomersTypeOK
  <2> QED BY <2>2, <2>3 DEF LoginInv
<1> QED BY <1>1, <1>2, <1>3, InitType, TypeStep, PTL DEF Spec

-----------------------------------------------------------------------------
(* The row of who logged in.                                               *)

RowVerified == customer # NoRow /\ (customer.verified \/ restored)

VerifiedInv ==
    /\ LoggedInIsVerified
    /\ \A c \in Calls : call[c].step = "session" => RowVerified

\* No writer takes the verification off the row without noting it.
LEMMA RowStaysVerified ==
  ASSUME TypeInv, [Next]_vars, RowVerified
  PROVE  RowVerified'
<1>0. TablesOK /\ CallsOK /\ call \in [Calls -> CallRecords] /\ customer \in CustomerRows
  BY TypeParts DEF TablesOK, RowVerified
<1>1. CASE UNCHANGED rowVars
  BY <1>1 DEF RowVerified, rowVars
<1>2. ASSUME NEW c \in Calls,
             VerifyPhone(c) \/ InsertVerified(c) \/ IssueSession(c) \/ InsertCustomer(c)
      PROVE  RowVerified'
  <2>1. /\ restored' = restored
        /\ \/ customer' = customer
           \/ customer' = [customer EXCEPT !.verified = TRUE]
           \/ customer' = [customer EXCEPT !.session = call[c].code]
    BY <1>2 DEF VerifyPhone, InsertVerified, IssueSession, InsertCustomer, RowVerified
  <2>2. call[c].code \in 0..MaxCodes
    BY <1>0 DEF CallRecords
  <2>3. customer' \in CustomerRows
    BY <1>0, <2>1, <2>2 DEF CustomerRows
  <2>4. customer'.verified = TRUE \/ customer'.verified = customer.verified
    BY <1>0, <2>1 DEF CustomerRows
  <2> QED BY <2>1, <2>3, <2>4, NoRowAssumption DEF RowVerified
<1>3. ASSUME NEW c \in Calls, SaveCustomer(c) PROVE RowVerified'
  <2> DEFINE old == call[c].loaded
             seen == call[c].seen
  <2>1. old \in CustomerRows /\ seen \in CustomerRows
    BY <1>0, <1>3 DEF SaveCustomer, CallsOK, CallOK, CallRecords
  <2>2. /\ customer' = [verified |-> IF old.verified # seen.verified THEN old.verified
                                     ELSE customer.verified,
                        session |-> IF old.session # seen.session THEN old.session
                                    ELSE customer.session]
        /\ restored' = (restored \/ old # seen)
    BY <1>3 DEF SaveCustomer
  <2> HIDE DEF old, seen
  <2>3. customer' \in CustomerRows
    BY <1>0, <2>1, <2>2 DEF CustomerRows
  <2>4. CASE old = seen
    <3>1. customer'.verified = customer.verified
      BY <2>2, <2>4
    <3>2. restored => restored'
      BY <2>2
    <3> QED BY <2>3, <3>1, <3>2, NoRowAssumption DEF RowVerified
  <2>5. CASE old # seen
    BY <2>2, <2>3, <2>5, NoRowAssumption DEF RowVerified
  <2> QED BY <2>4, <2>5
<1>4. CASE Logout
  <2>1. customer' = [customer EXCEPT !.session = 0] /\ restored' = restored
    BY <1>4 DEF Logout
  <2>2. customer' \in CustomerRows /\ customer'.verified = customer.verified
    BY <1>0, <2>1, CustomersAssumption DEF CustomerRows
  <2> QED BY <2>1, <2>2, NoRowAssumption DEF RowVerified
<1>5. ASSUME NEW c \in Calls, CodeStep(c)
      PROVE  \/ UNCHANGED rowVars
             \/ VerifyPhone(c) \/ InsertVerified(c) \/ IssueSession(c)
  BY <1>5 DEF CodeStep, RequestOtp, DeleteUnused, InsertCode, VerifyOtp, CompareCode,
     CountAttempt, MarkUsed, FindByPhone, rowVars
<1>6. ASSUME NEW c \in Calls, RowStep(c)
      PROVE  UNCHANGED rowVars \/ InsertCustomer(c) \/ SaveCustomer(c)
  BY <1>6 DEF RowStep, CreateCustomer, LoadCustomer, DiffCustomer, UpsertPreference,
     AddFavorite, CreateReview, LookUpRow, InsertRow, rowVars
<1>7. ASSUME NEW c \in Calls, Abort(c) PROVE UNCHANGED rowVars
  BY <1>7 DEF Abort, rowVars
<1>8. CASE (\E n \in CodeIds : CodeExpires(n)) \/ RemoveFavorite \/ UNCHANGED vars
  BY <1>1, <1>8 DEF CodeExpires, RemoveFavorite, vars, rowVars
<1> QED BY <1>1, <1>2, <1>3, <1>4, <1>5, <1>6, <1>7, <1>8 DEF Next

\* A login stores its session in a row that is verified.
LEMMA VerifiedStep ==
  ASSUME TypeInv, VerifiedInv, [Next]_vars
  PROVE  VerifiedInv'
<1>0. TablesOK /\ CallsOK /\ call \in [Calls -> CallRecords]
  BY TypeParts
<1>1. ASSUME NEW c \in Calls, call'[c].step = "session" PROVE RowVerified'
  <2>1. CASE call[c].step = "session"
    BY <2>1, RowStaysVerified DEF VerifiedInv
  <2>2. CASE VerifyPhone(c)
    <3>1. /\ customer \in CustomerRows
          /\ customer' = [customer EXCEPT !.verified = TRUE]
      BY <1>0, <2>2 DEF VerifyPhone, CallsOK, CallOK, TablesOK
    <3>2. customer' \in CustomerRows /\ customer'.verified = TRUE
      BY <3>1 DEF CustomerRows
    <3> QED BY <3>2, NoRowAssumption DEF RowVerified
  <2>3. CASE InsertVerified(c)
    <3>1. customer = NoRow
      BY <1>0, <1>1, <2>3 DEF InsertVerified, End, Free
    <3>2. customer' = [verified |-> TRUE, session |-> 0]
      BY <2>3, <3>1 DEF InsertVerified
    <3>3. customer' \in CustomerRows /\ customer'.verified = TRUE
      BY <3>2, CustomersAssumption DEF CustomerRows
    <3> QED BY <3>3, NoRowAssumption DEF RowVerified
  <2>4. CASE ~(call[c].step = "session" \/ VerifyPhone(c) \/ InsertVerified(c))
    <3>1. ASSUME NEW d \in Calls, CodeStep(d) PROVE FALSE
      <4>1. CASE \/ RequestOtp(d) \/ DeleteUnused(d) \/ InsertCode(d)
                 \/ CompareCode(d) \/ CountAttempt(d)
        BY <1>0, <1>1, <2>4, <4>1 DEF RequestOtp, DeleteUnused, InsertCode, CompareCode,
           CountAttempt, Become, End, Free, CallRecords
      <4>2. CASE \E n \in CodeIds, g \in 0..saved : VerifyOtp(d, n, g)
        BY <1>0, <1>1, <2>4, <4>2 DEF VerifyOtp, CallRecords
      <4>3. CASE MarkUsed(d) \/ FindByPhone(d) \/ IssueSession(d)
        BY <1>0, <1>1, <2>4, <4>3 DEF MarkUsed, FindByPhone, IssueSession, Become, End,
           Free, CallRecords
      <4>4. CASE VerifyPhone(d) \/ InsertVerified(d)
        BY <1>0, <1>1, <2>4, <4>4 DEF VerifyPhone, InsertVerified, Become, End
      <4> QED BY <3>1, <4>1, <4>2, <4>3, <4>4 DEF CodeStep
    <3>2. ASSUME NEW d \in Calls, RowStep(d) PROVE FALSE
      BY <1>0, <1>1, <2>4, <3>2 DEF RowStep, CreateCustomer, InsertCustomer, InsertRow,
         LoadCustomer, DiffCustomer, SaveCustomer, UpsertPreference, AddFavorite,
         CreateReview, LookUpRow, Become, End, Free, CallRecords
    <3>3. ASSUME NEW d \in Calls, Abort(d) PROVE FALSE
      BY <1>0, <1>1, <2>4, <3>3 DEF Abort, End, Free
    <3>4. CASE (\E n \in CodeIds : CodeExpires(n)) \/ Logout \/ RemoveFavorite
               \/ UNCHANGED vars
      BY <1>1, <2>4, <3>4 DEF CodeExpires, Logout, RemoveFavorite, vars
    <3> QED BY <3>1, <3>2, <3>3, <3>4 DEF Next
  <2> QED BY <2>1, <2>2, <2>3, <2>4
<1>2. ASSUME NEW n \in CodeIds, logins'[n] > 0 PROVE RowVerified'
  <2>1. RowVerified
    <3>1. CASE logins[n] > 0
      BY <3>1 DEF VerifiedInv, LoggedInIsVerified, RowVerified
    <3>2. CASE \E c \in Calls : IssueSession(c)
      BY <3>2 DEF VerifiedInv, IssueSession
    <3>3. logins[n] > 0 \/ \E c \in Calls : IssueSession(c)
      BY <1>2, CodeMoves DEF CodeMoved
    <3> QED BY <3>1, <3>2, <3>3
  <2> QED BY <2>1, RowStaysVerified
<1>3. LoggedInIsVerified'
  BY <1>2 DEF LoggedInIsVerified, RowVerified
<1> QED BY <1>1, <1>3 DEF VerifiedInv

\* A login leaves a verified row, whoever inserted it, until an update writes an
\* older value back.
THEOREM LoginsAreVerified == Spec => []LoggedInIsVerified
<1>1. Init => VerifiedInv
  BY FreeType DEF Init, VerifiedInv, LoggedInIsVerified
<1>2. VerifiedInv => LoggedInIsVerified
  BY DEF VerifiedInv
<1> QED BY <1>1, <1>2, VerifiedStep, InitType, TypeStep, PTL DEF Spec

-----------------------------------------------------------------------------
(* The sessions, as LoginPromise has them.                                 *)

\* A session that there has been, or none.
Known(session, done) == session = 0 \/ (session \in CodeIds /\ done[session] > 0)

KnownRow(row, done) == row # NoRow => Known(row.session, done)

\* Updates carry sessions that the row has had.
SessionInv ==
    /\ Known(Session, logins)
    /\ \A c \in Calls : KnownRow(call[c].loaded, logins) /\ KnownRow(call[c].seen, logins)

\* A row with another session.
LEMMA RowWithSession ==
  ASSUME NEW row \in CustomerRows, NEW n \in 0..MaxCodes
  PROVE  /\ [row EXCEPT !.session = n] \in CustomerRows
         /\ [row EXCEPT !.session = n].session = n
BY DEF CustomerRows

\* The steps that leave the row, or only put it there or verify it.
LEMMA SessionStays ==
  ASSUME TypeInv, NEW c \in Calls,
         CodeStep(c) \/ RowStep(c) \/ Abort(c), ~IssueSession(c), ~SaveCustomer(c)
  PROVE  Session' = Session /\ UNCHANGED <<logins, restored>>
<1>0. TablesOK /\ CallOK(c)
  BY TypeParts DEF CallsOK
<1>1. CASE UNCHANGED <<logins, rowVars>>
  BY <1>1 DEF rowVars, Session
<1>2. CASE VerifyPhone(c)
  <2>1. customer \in CustomerRows /\ customer' = [customer EXCEPT !.verified = TRUE]
    BY <1>0, <1>2 DEF VerifyPhone, CallOK, TablesOK
  <2>2. customer' \in CustomerRows /\ customer'.session = customer.session
    BY <2>1 DEF CustomerRows
  <2>3. UNCHANGED <<logins, restored>>
    BY <1>2 DEF VerifyPhone
  <2> QED BY <2>1, <2>2, <2>3, NoRowAssumption DEF Session
<1>3. CASE InsertVerified(c) \/ InsertCustomer(c)
  <2>1. \/ customer' = customer
        \/ customer = NoRow /\ customer' = [verified |-> TRUE, session |-> 0]
        \/ customer = NoRow /\ customer' = [verified |-> FALSE, session |-> 0]
    BY <1>3 DEF InsertVerified, InsertCustomer
  <2>2. UNCHANGED <<logins, restored>>
    BY <1>3 DEF InsertVerified, InsertCustomer
  <2>3. CASE customer' = customer
    BY <2>2, <2>3 DEF Session
  <2>4. CASE customer' # customer
    <3>1. PICK b \in BOOLEAN : customer' = [verified |-> b, session |-> 0]
      BY <2>1, <2>4
    <3>2. customer = NoRow
      BY <2>1, <2>4
    <3>3. 0 \in 0..MaxCodes
      BY CustomersAssumption
    <3>4. customer' \in CustomerRows
      BY <3>1, <3>3 DEF CustomerRows
    <3>5. customer'.session = 0
      BY <3>1
    <3> QED BY <2>2, <3>2, <3>4, <3>5, NoRowAssumption DEF Session
  <2> QED BY <2>3, <2>4
<1>4. ASSUME CodeStep(c)
      PROVE  UNCHANGED <<logins, rowVars>> \/ VerifyPhone(c) \/ InsertVerified(c)
  BY <1>4 DEF CodeStep, RequestOtp, DeleteUnused, InsertCode, VerifyOtp, CompareCode,
     CountAttempt, MarkUsed, FindByPhone
<1>5. ASSUME RowStep(c) PROVE UNCHANGED <<logins, rowVars>> \/ InsertCustomer(c)
  BY <1>5 DEF RowStep, CreateCustomer, LoadCustomer, DiffCustomer, UpsertPreference,
     AddFavorite, CreateReview, LookUpRow, InsertRow
<1>6. ASSUME Abort(c) PROVE UNCHANGED <<logins, rowVars>>
  BY <1>6 DEF Abort
<1> QED BY <1>1, <1>2, <1>3, <1>4, <1>5, <1>6

\* A login is a login of the promise: its call counts as one that may log in.
LEMMA LoginIsPromised ==
  ASSUME TypeInv, LoginsPerCode, NEW c \in Calls, IssueSession(c)
  PROVE  Promise!Login(call[c].code)
<1> DEFINE n == call[c].code
<1>0. TablesOK /\ CallOK(c) /\ MaxCodes \in Nat
  BY TypeParts, CustomersAssumption DEF CallsOK
<1>1. n \in CodeIds /\ n \in 0..MaxCodes /\ customer \in CustomerRows
  BY <1>0 DEF IssueSession, CallOK, CodeSteps, TablesOK, CodeIds
<1>2. /\ customer' = [customer EXCEPT !.session = n] /\ restored' = restored
      /\ logins' = [logins EXCEPT ![n] = logins[n] + 1] /\ call[c].step = "session"
  BY DEF IssueSession
<1>3. Session' = n
  <2> HIDE DEF n
  <2> QED BY <1>1, <1>2, RowWithSession, NoRowAssumption DEF Session
<1>4. logins[n] < Cardinality(Calls)
  <2>1. LoggingIn(n) \in SUBSET Calls /\ c \in LoggingIn(n)
    BY <1>2 DEF LoggingIn
  <2>2. Cardinality(LoggingIn(n)) \in Nat /\ Cardinality(LoggingIn(n)) # 0
    BY <2>1, CallsAreCounted, FS_EmptySet
  <2>3. logins[n] \in Nat /\ Cardinality(Calls) \in Nat
    BY <1>0, <1>1, CallsAreCounted DEF TablesOK
  <2>4. logins[n] + Cardinality(LoggingIn(n)) <= Cardinality(Calls)
    BY <1>1 DEF LoginsPerCode
  <2> QED BY <2>2, <2>3, <2>4
<1> HIDE DEF n
<1> QED BY <1>2, <1>3, <1>4 DEF Promise!Login, n

\* An update leaves the session, or writes back one that it loaded.
LEMMA SaveIsPromised ==
  ASSUME TypeInv, SessionInv, NEW c \in Calls, SaveCustomer(c)
  PROVE  Promise!WriteBack \/ (Session' = Session /\ UNCHANGED <<logins, restored>>)
<1>0. TablesOK /\ CallOK(c) /\ call \in [Calls -> CallRecords]
  BY TypeParts DEF CallsOK
<1>1. PICK old, seen : old = call[c].loaded /\ seen = call[c].seen
  OBVIOUS
<1>2. old \in CustomerRows /\ seen \in CustomerRows /\ customer \in CustomerRows
  BY <1>0, <1>1 DEF SaveCustomer, CallOK, CallRecords, TablesOK
<1>3. /\ customer' = [verified |-> IF old.verified # seen.verified THEN old.verified
                                   ELSE customer.verified,
                      session |-> IF old.session # seen.session THEN old.session
                                  ELSE customer.session]
      /\ restored' = (restored \/ old # seen) /\ logins' = logins
  BY <1>1 DEF SaveCustomer
<1>4. customer' \in CustomerRows /\ customer'.session \in {old.session, customer.session}
  BY <1>2, <1>3 DEF CustomerRows
<1>5. /\ Session = customer.session /\ Session' = customer'.session
      /\ Session' \in {old.session, Session}
  BY <1>2, <1>4, NoRowAssumption DEF Session
<1>6. Known(old.session, logins)
  BY <1>1, <1>2, NoRowAssumption DEF SessionInv, KnownRow
<1>7. CASE old = seen
  <2>1. customer'.session = customer.session
    BY <1>3, <1>7
  <2>2. restored' = restored
    BY <1>0, <1>3, <1>7, Zenon DEF TablesOK
  <2> QED BY <1>3, <1>5, <2>1, <2>2
<1>8. CASE old # seen
  <2>1. restored' = TRUE
    BY <1>3, <1>8
  <2>2. Session' \in {Session, 0} \cup {n \in CodeIds : logins[n] > 0}
    BY <1>5, <1>6 DEF Known
  <2> QED BY <1>3, <2>1, <2>2 DEF Promise!WriteBack
<1> QED BY <1>7, <1>8

\* Every step is one of the promise, or changes nothing that it speaks of.
LEMMA PromiseStep ==
  ASSUME TypeInv, LoginsPerCode, SessionInv, [Next]_vars
  PROVE  Promise!Next \/ (Session' = Session /\ UNCHANGED <<logins, restored>>)
<1>0. TablesOK /\ CallsOK
  BY TypeParts
<1>1. ASSUME NEW c \in Calls, IssueSession(c) PROVE Promise!Next
  <2>1. call[c].code \in CodeIds
    BY <1>0, <1>1, CustomersAssumption
       DEF IssueSession, CallsOK, CallOK, CodeSteps, TablesOK, CodeIds
  <2> QED BY <1>1, <2>1, LoginIsPromised DEF Promise!Next
<1>2. ASSUME NEW c \in Calls, SaveCustomer(c)
      PROVE  Promise!Next \/ (Session' = Session /\ UNCHANGED <<logins, restored>>)
  BY <1>2, SaveIsPromised DEF Promise!Next
<1>3. CASE Logout
  <2>1. customer \in CustomerRows /\ customer' = [customer EXCEPT !.session = 0]
    BY <1>0, <1>3 DEF Logout, TablesOK
  <2>2. Session' = 0
    BY <2>1, RowWithSession, NoRowAssumption, CustomersAssumption DEF Session
  <2> QED BY <1>3, <2>2 DEF Logout, Promise!Next, Promise!Logout
<1>4. CASE (\E n \in CodeIds : CodeExpires(n)) \/ RemoveFavorite \/ UNCHANGED vars
  BY <1>4 DEF CodeExpires, RemoveFavorite, vars, rowVars, Session
<1> QED BY <1>1, <1>2, <1>3, <1>4, SessionStays DEF Next

\* What updates carry is the row they found, or what they carried.
LEMMA LoadedRows ==
  ASSUME TypeInv, [Next]_vars, NEW d \in Calls
  PROVE  /\ call'[d].loaded \in {call[d].loaded, customer, NoRow}
         /\ call'[d].seen \in {call[d].seen, customer, NoRow}
<1>0. call \in [Calls -> CallRecords]
  BY TypeParts
<1>1. ASSUME NEW c \in Calls, CodeStep(c)
      PROVE  /\ call'[d].loaded \in {call[d].loaded, NoRow}
             /\ call'[d].seen \in {call[d].seen, NoRow}
  <2>1. CASE RequestOtp(c) \/ DeleteUnused(c) \/ InsertCode(c) \/ CompareCode(c) \/ CountAttempt(c)
    BY <1>0, <2>1 DEF RequestOtp, DeleteUnused, InsertCode, CompareCode, CountAttempt,
       Become, End, Free, CallRecords
  <2>2. CASE \E n \in CodeIds, g \in 0..saved : VerifyOtp(c, n, g)
    BY <1>0, <2>2 DEF VerifyOtp, CallRecords
  <2>3. CASE MarkUsed(c) \/ FindByPhone(c) \/ VerifyPhone(c) \/ InsertVerified(c) \/ IssueSession(c)
    BY <1>0, <2>3 DEF MarkUsed, FindByPhone, VerifyPhone, InsertVerified, IssueSession,
       Become, End, Free, CallRecords
  <2> QED BY <1>1, <2>1, <2>2, <2>3 DEF CodeStep
<1>2. ASSUME NEW c \in Calls, RowStep(c) \/ Abort(c)
      PROVE  /\ call'[d].loaded \in {call[d].loaded, customer, NoRow}
             /\ call'[d].seen \in {call[d].seen, customer, NoRow}
  <2>1. CASE \/ CreateCustomer(c) \/ InsertCustomer(c) \/ InsertRow(c) \/ SaveCustomer(c)
             \/ Abort(c)
    BY <1>0, <2>1 DEF CreateCustomer, InsertCustomer, InsertRow, SaveCustomer, Abort,
       Become, End, Free, CallRecords
  <2>2. CASE LoadCustomer(c) \/ DiffCustomer(c)
    BY <1>0, <2>2 DEF LoadCustomer, DiffCustomer, CallRecords
  <2>3. CASE UpsertPreference(c) \/ AddFavorite(c) \/ CreateReview(c)
    BY <1>0, <2>3 DEF UpsertPreference, AddFavorite, CreateReview, LookUpRow, CallRecords
  <2> QED BY <1>2, <2>1, <2>2, <2>3 DEF RowStep
<1>3. CASE (\E n \in CodeIds : CodeExpires(n)) \/ Logout \/ RemoveFavorite \/ UNCHANGED vars
  BY <1>3 DEF CodeExpires, Logout, RemoveFavorite, vars
<1> QED BY <1>1, <1>2, <1>3 DEF Next

LEMMA SessionStep ==
  ASSUME TypeInv, LoginsPerCode, SessionInv, [Next]_vars
  PROVE  SessionInv'
<1>0. TablesOK
  BY TypeParts
<1>1. \A n \in CodeIds : logins[n] \in Nat /\ (logins[n] > 0 => logins'[n] > 0)
  BY <1>0, CodeMoves DEF CodeMoved, TablesOK
<1>2. \A s : Known(s, logins) => Known(s, logins')
  BY <1>1 DEF Known
<1>3. Known(Session', logins')
  <2>1. CASE Session' = Session
    BY <1>2, <2>1 DEF SessionInv
  <2>2. ASSUME NEW n \in CodeIds, Promise!Login(n) PROVE Known(Session', logins')
    <3>1. Session' = n /\ logins' = [logins EXCEPT ![n] = logins[n] + 1]
      BY <2>2 DEF Promise!Login
    <3> QED BY <1>0, <1>1, <3>1 DEF Known, TablesOK
  <2>3. CASE Promise!Logout
    BY <2>3 DEF Promise!Logout, Known
  <2>4. CASE Promise!WriteBack
    <3>1. Session' = Session \/ Known(Session', logins)
      BY <2>4 DEF Promise!WriteBack, Known
    <3> QED BY <1>2, <3>1 DEF SessionInv
  <2> QED BY <2>1, <2>2, <2>3, <2>4, PromiseStep DEF Promise!Next
<1>4. KnownRow(customer, logins)
  BY DEF KnownRow, SessionInv, Session
<1>5. ASSUME NEW d \in Calls
      PROVE  KnownRow(call'[d].loaded, logins') /\ KnownRow(call'[d].seen, logins')
  BY <1>2, <1>4, LoadedRows DEF KnownRow, SessionInv
<1> QED BY <1>3, <1>5 DEF SessionInv

\* The one-time codes implement LoginPromise, with the number of calls that may run
\* at a time as its limit (verifyOtp(), logout(), update()).
THEOREM SessionsKeepThePromise == Spec => SessionsAsPromised
<1>1. Init => Promise!Init /\ SessionInv
  BY FreeType DEF Init, Promise!Init, SessionInv, Known, KnownRow, Session, Free
<1>2. TypeInv /\ LoginsPerCode /\ SessionInv /\ [Next]_vars => SessionInv' /\ [Promise!Next]_(Promise!vars)
  BY SessionStep, PromiseStep DEF Promise!vars
<1> QED BY <1>1, <1>2, InitType, TypeStep, LoginsStayBounded, PTL
     DEF Spec, SessionsAsPromised, Promise!Safety
=============================================================================
