------------------------------ MODULE Customers ------------------------------
(***************************************************************************)
(* One customer of one tenant: the one-time codes sent to the phone and    *)
(* the logins they give (auth.service.ts), the customer's row              *)
(* (customers.service.ts), and the rows of other tables that may exist     *)
(* once for the customer: the preference, and for one listing a favorite   *)
(* and a review.  A call stops at every await, so calls overlap.           *)
(***************************************************************************)
EXTENDS Naturals, FiniteSets

CONSTANTS
    Calls,          \* calls in flight at a time
    MaxCodes,       \* bound on the codes ever saved
    MaxAttempts,    \* OTP_MAX_ATTEMPTS
    Tables,         \* tables with one row per customer (and listing)
    NoRow,          \* no row, no table
    Limit           \* bound on the failed attempts of one code

ASSUME CustomersAssumption ==
    /\ MaxCodes \in Nat /\ MaxAttempts \in Nat \ {0} /\ Limit \in Nat
    /\ NoRow \notin Tables
    /\ IsFiniteSet(Calls) /\ Calls # {}

VARIABLES
    code,           \* rows of phone_otp_codes, in the order of created_at
    saved,          \* codes saved so far
    customer,       \* the row of the phone in customers
    rows,           \* rows[t]: rows of table t with the customer's key
    call,           \* calls in flight
    logins,         \* history: logins[n]: sessions that code n has given
    restored        \* history: an update wrote an older value of a column back

vars == <<code, saved, customer, rows, call, logins, restored>>

CodeIds == 1..MaxCodes

CodeRows == [state : {"none", "unused", "used", "deleted"}, attempts : 0..Limit,
             expired : BOOLEAN]

\* session: the code whose login stored refresh_token_hash, 0 for null.
CustomerRows == [verified : BOOLEAN, session : 0..MaxCodes]

ASSUME NoRowAssumption == NoRow \notin CustomerRows

CallSteps == {"free", "delete", "insert_code", "compare", "count", "mark", "find",
              "verify", "insert_customer", "session", "create", "diff", "save", "insert_row"}

CallRecords == [step : CallSteps, code : 0..MaxCodes, guess : 0..MaxCodes,
                loaded : CustomerRows \cup {NoRow}, seen : CustomerRows \cup {NoRow},
                table : Tables \cup {NoRow}]

Free == [step |-> "free", code |-> 0, guess |-> 0, loaded |-> NoRow, seen |-> NoRow,
         table |-> NoRow]

Unused == {n \in CodeIds : code[n].state = "unused"}

\* A row that is gone keeps no attempts.
Deleted == [state |-> "deleted", attempts |-> 0, expired |-> FALSE]

CustomersTypeOK ==
    /\ code \in [CodeIds -> CodeRows]
    /\ saved \in 0..MaxCodes
    /\ \A n \in CodeIds : /\ code[n].state = "none" <=> n > saved
                          /\ code[n].state = "deleted" => code[n] = Deleted
    /\ customer \in CustomerRows \cup {NoRow}
    /\ rows \in [Tables -> 0..1]
    /\ call \in [Calls -> CallRecords]
    /\ logins \in [CodeIds -> Nat]
    /\ restored \in BOOLEAN

Become(c, step) == call' = [call EXCEPT ![c].step = step]

End(c) == call' = [call EXCEPT ![c] = Free]

codeVars == <<code, saved>>
rowVars == <<customer, restored>>

-----------------------------------------------------------------------------
(* requestOtp(): delete the unused codes, save a new one, send it.         *)

RequestOtp(c) ==
    /\ call[c] = Free
    /\ Become(c, "delete")
    /\ UNCHANGED <<codeVars, rowVars, rows, logins>>

\* Mutant: the codes that were not used stay.
DeleteNothing(c) ==
    /\ call[c].step = "delete"
    /\ Become(c, "insert_code")
    /\ UNCHANGED <<codeVars, rowVars, rows, logins>>

DeleteUnused(c) ==
    /\ call[c].step = "delete"
    /\ code' = [n \in CodeIds |-> IF n \in Unused THEN Deleted ELSE code[n]]
    /\ Become(c, "insert_code")
    /\ UNCHANGED <<saved, rowVars, rows, logins>>

\* The message may fail to be sent; the code is valid all the same.
InsertCode(c) ==
    /\ call[c].step = "insert_code"
    /\ saved < MaxCodes
    /\ saved' = saved + 1
    /\ code' = [code EXCEPT ![saved + 1].state = "unused"]
    /\ End(c)
    /\ UNCHANGED <<rowVars, rows, logins>>

CodeExpires(n) ==
    /\ n \in Unused /\ ~code[n].expired
    /\ code' = [code EXCEPT ![n].expired = TRUE]
    /\ UNCHANGED <<saved, rowVars, rows, call, logins>>

-----------------------------------------------------------------------------
(* verifyOtp(): the newest unused code decides.                            *)

\* Mutant: the code is looked up by phone alone.
NewestOfAll(n) ==
    /\ code[n].state \in {"unused", "used"}
    /\ \A m \in CodeIds : code[m].state \in {"unused", "used"} => m <= n

Newest(n) == n \in Unused /\ \A m \in Unused : m <= n

\* Mutant: the attempt after the last is still allowed.
MayGuessAgain(n) == ~code[n].expired /\ code[n].attempts <= MaxAttempts

MayGuess(n) == ~code[n].expired /\ code[n].attempts < MaxAttempts

\* The caller enters a code that was sent, or a wrong one (0).
VerifyOtp(c, n, g) ==
    /\ call[c] = Free
    /\ Newest(n) /\ MayGuess(n)
    /\ call' = [call EXCEPT ![c].step = "compare", ![c].code = n, ![c].guess = g]
    /\ UNCHANGED <<codeVars, rowVars, rows, logins>>

CompareCode(c) ==
    /\ call[c].step = "compare"
    /\ Become(c, IF call[c].guess = call[c].code THEN "mark" ELSE "count")
    /\ UNCHANGED <<codeVars, rowVars, rows, logins>>

\* Mutant: the attempt is counted on a row that is gone.
CountAnyAttempt(c) ==
    /\ call[c].step = "count"
    /\ code' = [code EXCEPT ![call[c].code].attempts = @ + 1]
    /\ End(c)
    /\ UNCHANGED <<saved, rowVars, rows, logins>>

\* increment(): one statement, on the row if it is still there.
CountAttempt(c) ==
    LET n == call[c].code
    IN  /\ call[c].step = "count"
        /\ code[n].attempts < Limit
        /\ code' = IF code[n].state = "deleted" THEN code
                   ELSE [code EXCEPT ![n].attempts = @ + 1]
        /\ End(c)
        /\ UNCHANGED <<saved, rowVars, rows, logins>>

MarkUsed(c) ==
    LET n == call[c].code
    IN  /\ call[c].step = "mark"
        /\ code' = IF code[n].state = "deleted" THEN code
                   ELSE [code EXCEPT ![n].state = "used"]
        /\ Become(c, "find")
        /\ UNCHANGED <<saved, rowVars, rows, logins>>

\* upsertByPhone(): the row is looked up, then verified or inserted.
FindByPhone(c) ==
    /\ call[c].step = "find"
    /\ Become(c, IF customer = NoRow THEN "insert_customer" ELSE "verify")
    /\ UNCHANGED <<codeVars, rowVars, rows, logins>>

VerifyPhone(c) ==
    /\ call[c].step = "verify"
    /\ customer' = [customer EXCEPT !.verified = TRUE]
    /\ Become(c, "session")
    /\ UNCHANGED <<codeVars, restored, rows, logins>>

\* Mutant: a conflict of the insert is taken for success.
InsertOrIgnore(c) ==
    /\ call[c].step = "insert_customer"
    /\ customer' = IF customer = NoRow THEN [verified |-> TRUE, session |-> 0] ELSE customer
    /\ Become(c, "session")
    /\ UNCHANGED <<codeVars, restored, rows, logins>>

\* The unique index refuses a second row of the phone: the login fails.
InsertVerified(c) ==
    /\ call[c].step = "insert_customer"
    /\ IF customer = NoRow
       THEN customer' = [verified |-> TRUE, session |-> 0] /\ Become(c, "session")
       ELSE End(c) /\ UNCHANGED customer
    /\ UNCHANGED <<codeVars, restored, rows, logins>>

\* _issueRefreshToken(): setRefreshTokenHash() and the answer.
IssueSession(c) ==
    /\ call[c].step = "session"
    /\ customer' = [customer EXCEPT !.session = call[c].code]
    /\ logins' = [logins EXCEPT ![call[c].code] = @ + 1]
    /\ End(c)
    /\ UNCHANGED <<codeVars, restored, rows>>

\* logout() with the refresh cookie.
Logout ==
    /\ customer # NoRow /\ customer.session # 0
    /\ customer' = [customer EXCEPT !.session = 0]
    /\ UNCHANGED <<codeVars, restored, rows, call, logins>>

-----------------------------------------------------------------------------
(* create() and update() by the tenant's staff.                            *)

CreateCustomer(c) ==
    /\ call[c] = Free
    /\ customer = NoRow
    /\ Become(c, "create")
    /\ UNCHANGED <<codeVars, rowVars, rows, logins>>

InsertCustomer(c) ==
    /\ call[c].step = "create"
    /\ customer' = IF customer = NoRow THEN [verified |-> FALSE, session |-> 0] ELSE customer
    /\ End(c)
    /\ UNCHANGED <<codeVars, restored, rows, logins>>

\* update(): none of the columns kept here is in the body, but save() writes
\* every column in which the loaded row and a fresh SELECT differ.
LoadCustomer(c) ==
    /\ call[c] = Free
    /\ customer # NoRow
    /\ call' = [call EXCEPT ![c].step = "diff", ![c].loaded = customer]
    /\ UNCHANGED <<codeVars, rowVars, rows, logins>>

DiffCustomer(c) ==
    /\ call[c].step = "diff"
    /\ call' = [call EXCEPT ![c].step = "save", ![c].seen = customer]
    /\ UNCHANGED <<codeVars, rowVars, rows, logins>>

SaveCustomer(c) ==
    LET old == call[c].loaded
        seen == call[c].seen
    IN  /\ call[c].step = "save"
        /\ customer' = [verified |-> IF old.verified # seen.verified THEN old.verified
                                     ELSE customer.verified,
                        session |-> IF old.session # seen.session THEN old.session
                                    ELSE customer.session]
        /\ restored' = (restored \/ old # seen)
        /\ End(c)
        /\ UNCHANGED <<codeVars, rows, logins>>

-----------------------------------------------------------------------------
(* upsertPreference(), favorites.add() and reviews.create(): look up the   *)
(* row; if there is one, the row stays (updated, kept, or a conflict).     *)

LookUpRow(c, t) ==
    /\ call[c] = Free
    /\ customer # NoRow
    /\ rows[t] = 0
    /\ call' = [call EXCEPT ![c].step = "insert_row", ![c].table = t]
    /\ UNCHANGED <<codeVars, rowVars, rows, logins>>

UpsertPreference(c) == "preference" \in Tables /\ LookUpRow(c, "preference")

AddFavorite(c) == "favorite" \in Tables /\ LookUpRow(c, "favorite")

CreateReview(c) == "review" \in Tables /\ LookUpRow(c, "review")

\* A second insert meets the unique index and fails.
InsertRow(c) ==
    LET t == call[c].table
    IN  /\ call[c].step = "insert_row"
        /\ rows' = IF rows[t] = 0 THEN [rows EXCEPT ![t] = 1] ELSE rows
        /\ End(c)
        /\ UNCHANGED <<codeVars, rowVars, logins>>

RemoveFavorite ==
    /\ "favorite" \in Tables
    /\ rows["favorite"] > 0
    /\ rows' = [rows EXCEPT !["favorite"] = 0]
    /\ UNCHANGED <<codeVars, rowVars, call, logins>>

\* A query throws or the process dies: the call stops where it is.
Abort(c) ==
    /\ call[c].step # "free"
    /\ End(c)
    /\ UNCHANGED <<codeVars, rowVars, rows, logins>>

-----------------------------------------------------------------------------
Init ==
    /\ code = [n \in CodeIds |-> [state |-> "none", attempts |-> 0, expired |-> FALSE]]
    /\ saved = 0
    /\ customer = NoRow
    /\ rows = [t \in Tables |-> 0]
    /\ call = [c \in Calls |-> Free]
    /\ logins = [n \in CodeIds |-> 0]
    /\ restored = FALSE

CodeStep(c) ==
    \/ RequestOtp(c) \/ DeleteUnused(c) \/ InsertCode(c)
    \/ \E n \in CodeIds, g \in 0..saved : VerifyOtp(c, n, g)
    \/ CompareCode(c) \/ CountAttempt(c) \/ MarkUsed(c)
    \/ FindByPhone(c) \/ VerifyPhone(c) \/ InsertVerified(c) \/ IssueSession(c)

RowStep(c) ==
    \/ CreateCustomer(c) \/ InsertCustomer(c)
    \/ LoadCustomer(c) \/ DiffCustomer(c) \/ SaveCustomer(c)
    \/ UpsertPreference(c) \/ AddFavorite(c) \/ CreateReview(c)
    \/ InsertRow(c)

Next ==
    \/ \E c \in Calls : CodeStep(c) \/ RowStep(c) \/ Abort(c)
    \/ \E n \in CodeIds : CodeExpires(n)
    \/ Logout
    \/ RemoveFavorite

Spec == Init /\ [][Next]_vars

-----------------------------------------------------------------------------
(* Properties.                                                             *)

\* Guesses at one code: the failed ones, and those between the check of the
\* count and its increment, which do not see one another.  Overlap gives at
\* most one guess more for every further call.
Guessing(n) == {c \in Calls : call[c].step \in {"compare", "count"} /\ call[c].code = n}

GuessesAreBounded ==
    \A n \in CodeIds :
        code[n].state # "deleted" =>
            code[n].attempts + Cardinality(Guessing(n))
                < MaxAttempts + Cardinality(Calls)

\* Requests overlap between the delete and the save, so several codes may be
\* unused at once, but never more than requests ran at a time.
Saving == {c \in Calls : call[c].step = "insert_code"}

UnusedCodesAreBounded ==
    Cardinality(Unused) + Cardinality(Saving) <= Cardinality(Calls)

\* Who logged in with a code has a row with a verified phone, whether staff or
\* the login created it; only an update that loaded the row earlier loses that.
LoggedInIsVerified ==
    (\E n \in CodeIds : logins[n] > 0) =>
        customer # NoRow /\ (customer.verified \/ restored)

\* The code whose login the row's session is from.
Session == IF customer = NoRow THEN 0 ELSE customer.session

Promise == INSTANCE LoginPromise WITH
    Codes <- CodeIds,
    Limit <- Cardinality(Calls),
    NoSession <- 0,
    session <- Session

\* The session in the row comes from a code that was entered, a code gives one at
\* most as often as calls overlap, and a session that was replaced or ended comes
\* back only by an update that loaded it before.
SessionsAsPromised == Promise!Safety
=============================================================================
