----------------------------- MODULE Shortcodes -----------------------------
(***************************************************************************)
(* Short links for scripts: POST /script-shortcodes answers the uid of a   *)
(* script, GET /script-shortcodes/{uid} the script of a uid                *)
(* (src/script_shortcodes.ts and the handlers).  findOrCreate() of         *)
(* Sequelize is a lookup and an insert that commits, each awaited, and no  *)
(* index of the table keeps a script from having several rows.             *)
(***************************************************************************)
EXTENDS Naturals, Sequences, FiniteSets

CONSTANTS Script,     \* scripts that are asked for
          Malformed,  \* those Script.fromHex() throws for
          Call,       \* requests that may run at once
          MaxFails    \* bound: operations of the database that fail, and stops

ASSUME ShortcodeAssumption ==
  Malformed \subseteq Script /\ IsFiniteSet(Call) /\ MaxFails \in Nat

VARIABLES
  rows,     \* ScriptShortcodes in the order of the commits; the uid of a row is its place
  call,     \* call[c]: where the request is, its script, the uid it holds (0 for
            \* none), and how many rows there were when it began, kept by no code
  answers,  \* the scripts and uids clients have been given
  fails

vars == <<rows, call, answers, fails>>

RowsOf(s) == {i \in DOMAIN rows : rows[i].script = s}

Idle == [at |-> "idle"]

Request == [at : {"find", "insert", "answer"}, script : Script \ Malformed, uid : Nat, since : Nat]

Init ==
  /\ rows = <<>>
  /\ call = [c \in Call |-> Idle]
  /\ answers = {} /\ fails = 0

(* create(): a script that is none is refused before the table is read.    *)
Create(c, s) ==
  /\ call[c] = Idle /\ s \notin Malformed
  /\ call' = [call EXCEPT ![c] =
                [at |-> "find", script |-> s, uid |-> 0, since |-> Len(rows)]]
  /\ UNCHANGED <<rows, answers, fails>>

(* Broken: the lookup is by the uid just drawn, which no row has.          *)
FindOwn(c) ==
  /\ call[c].at = "find"
  /\ call' = [call EXCEPT ![c].at = "insert"]
  /\ UNCHANGED <<rows, answers, fails>>

(* The lookup of findOrCreate(): some row of the script, in no order.      *)
Find(c) ==
  /\ call[c].at = "find"
  /\ \/ \E i \in RowsOf(call[c].script) :
          call' = [call EXCEPT ![c].at = "answer", ![c].uid = i]
     \/ /\ RowsOf(call[c].script) = {}
        /\ call' = [call EXCEPT ![c].at = "insert"]
  /\ UNCHANGED <<rows, answers, fails>>

(* The insert, which other requests see from its commit on.                *)
Insert(c) ==
  /\ call[c].at = "insert"
  /\ rows' = Append(rows, [script |-> call[c].script, since |-> call[c].since])
  /\ call' = [call EXCEPT ![c].at = "answer", ![c].uid = Len(rows) + 1]
  /\ UNCHANGED <<answers, fails>>

(* Broken: the uid answered is that of the newest row.                     *)
AnswerLast(c) ==
  /\ call[c].at = "answer"
  /\ answers' = answers \union {<<call[c].script, Len(rows)>>}
  /\ call' = [call EXCEPT ![c] = Idle]
  /\ UNCHANGED <<rows, fails>>

Answer(c) ==
  /\ call[c].at = "answer"
  /\ answers' = answers \union {<<call[c].script, call[c].uid>>}
  /\ call' = [call EXCEPT ![c] = Idle]
  /\ UNCHANGED <<rows, fails>>

(* An operation rejects, answered with badRequest, or the process stops;   *)
(* the row of a call that had committed stays.                             *)
FailCall(c) ==
  /\ call[c] # Idle /\ fails < MaxFails
  /\ fails' = fails + 1
  /\ call' = [call EXCEPT ![c] = Idle]
  /\ UNCHANGED <<rows, answers>>

Next ==
  \E c \in Call :
    \/ \E s \in Script : Create(c, s)
    \/ Find(c) \/ Insert(c) \/ Answer(c) \/ FailCall(c)

Spec == Init /\ [][Next]_vars

-----------------------------------------------------------------------------
(* Properties. *)

(* Rows and requests are of scripts that were parsed: what create() puts   *)
(* before the table is read (script_shortcodes.ts:15).                     *)
TypeOK ==
  /\ rows \in Seq([script : Script \ Malformed, since : Nat])
  /\ call \in [Call -> {Idle} \union Request]
  /\ answers \subseteq (Script \X Nat)
  /\ fails \in 0..MaxFails

(* Whatever ran beside a request or failed after it, a uid that was        *)
(* answered goes on leading show() to the script it was asked for.         *)
LinksResolve == \A a \in answers : a[2] \in RowsOf(a[1])

(* "Returns existing shortcode if already present" (server.ts:394): only a *)
(* request that began before a script had a row gives it another one, so   *)
(* there are never more than requests that run at once.                    *)
TwinsNeedOverlap ==
  \A s \in Script :
    /\ \A i, j \in RowsOf(s) : i < j => rows[j].since < i
    /\ Cardinality(RowsOf(s)) <= Cardinality(Call)
=============================================================================
