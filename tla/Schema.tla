-------------------------------- MODULE Schema --------------------------------
(***************************************************************************)
(* The Telegram schema of the repository (scripts/*telegram*.mjs): a       *)
(* snapshot of the methods the Bot API documents, three files generated    *)
(* from it, the commands a maintainer or the watchdog runs in a clone, and *)
(* the gates a release has to pass.                                        *)
(*                                                                         *)
(* A schema is a source ("doc" or "local") and a set of methods; update    *)
(* keys go the same way as methods and are left out.                       *)
(***************************************************************************)
EXTENDS Integers, FiniteSets

CONSTANTS Methods,     \* methods Telegram documents sooner or later
          Documented,  \* those it documents at first
          MinMethods   \* min_method_count of the baseline

ASSUME SchemaAssumption ==
  /\ IsFiniteSet(Methods)
  /\ Documented \in SUBSET Methods \ {{}}
  /\ MinMethods \in 0 .. Cardinality(Documented)

VARIABLES documented,  \* the methods on Telegram's page
          latest,      \* <<>> or the fetched schema, in the clone only
          snapshot,    \* the committed schema
          types,       \* methods named by telegram.schema.generated.ts
          payloads,    \* methods and exported types telegram.payloads.generated.ts was made of
          results,     \* methods of telegram.results.generated.ts
          byHand,      \* methods of the hand-written ApiMethods, src/types/telegram.ts
          followup     \* a changeset or the changelog mentions the API

schemaVars == <<documented, latest, snapshot, types, payloads, results, byHand, followup>>

SchemaInit ==
  /\ documented = Documented
  /\ latest = <<>>
  /\ \E source \in {"doc", "local"} : snapshot = <<source, Documented>>
  /\ types = Documented
  /\ byHand = Documented
  /\ payloads = <<Documented, byHand>>
  /\ results = Documented
  /\ followup = FALSE

-------------------------------------------------------------------------------
\* parseLocalTypes: the generated methods and the hand-written ones.
LocalSchema == <<"local", types \cup byHand>>

\* parseSnapshotFallback, or else the local types.
Fallback ==
  IF snapshot[1] = "doc" /\ snapshot[2] # {} THEN snapshot ELSE LocalSchema

\* parseDocForMethods: what the page documents.
DocSchema == <<"doc", documented>>

\* fetch --allow-network-failure: the page, or the fallback when it cannot be
\* fetched or nothing is found on it.
Fetched(online) == IF online THEN DocSchema ELSE Fallback

\* Telegram documents another method.
Document ==
  /\ \E m \in Methods \ documented : documented' = documented \cup {m}
  /\ UNCHANGED <<latest, snapshot, types, payloads, results, byHand, followup>>

\* telegram:schema:fetch, :fetch:ci, and :fetch:local.
Fetch ==
  /\ \/ \E online \in BOOLEAN : latest' = Fetched(online)
     \/ latest' = LocalSchema
  /\ UNCHANGED <<documented, snapshot, types, payloads, results, byHand, followup>>

\* telegram:schema:snapshot:update.
Promote ==
  /\ latest # <<>>
  /\ snapshot' = latest
  /\ UNCHANGED <<documented, latest, types, payloads, results, byHand, followup>>

\* telegram:schema:types:generate.
GenerateTypes ==
  /\ snapshot[2] # {}
  /\ types' = snapshot[2]
  /\ UNCHANGED <<documented, latest, snapshot, payloads, results, byHand, followup>>

\* What the generator of payloads writes.
PayloadsOf == <<snapshot[2], byHand>>

\* telegram:schema:payloads:generate.
GeneratePayloads ==
  /\ snapshot[2] # {}
  /\ payloads' = PayloadsOf
  /\ UNCHANGED <<documented, latest, snapshot, types, results, byHand, followup>>

\* telegram:schema:results:generate.
GenerateResults ==
  /\ snapshot[2] # {}
  /\ results' = snapshot[2]
  /\ UNCHANGED <<documented, latest, snapshot, types, payloads, byHand, followup>>

\* A maintainer declares a generated method by hand, with its payload.
Declare ==
  /\ \E m \in types \ byHand : byHand' = byHand \cup {m}
  /\ UNCHANGED <<documented, latest, snapshot, types, payloads, results, followup>>

\* A changeset for core mentions the API.  Its text moves to CHANGELOG.md when
\* versions are bumped, and stays there.
FollowUp ==
  /\ ~followup
  /\ followup' = TRUE
  /\ UNCHANGED <<documented, latest, snapshot, types, payloads, results, byHand>>

Maintain ==
  \/ Document \/ Fetch \/ Promote
  \/ GenerateTypes \/ GeneratePayloads \/ GenerateResults
  \/ Declare \/ FollowUp

-------------------------------------------------------------------------------
\* telegram:schema:types:check.
TypesCurrent == types = snapshot[2]

\* Defect: the payloads are compared by their methods only.
PayloadsNamed == payloads[1] = snapshot[2]

\* telegram:schema:payloads:check generates them again and compares the text.
PayloadsCurrent == payloads = PayloadsOf

\* telegram:schema:results:check.
ResultsCurrent == results = snapshot[2]

\* telegram:schema:completeness:check.
Complete(schema) == schema[1] = "doc" /\ Cardinality(schema[2]) >= MinMethods

\* diff-telegram-schema: methods added and removed.
Drift(schema) == (snapshot[2] \ schema[2]) \cup (schema[2] \ snapshot[2])

\* telegram:schema:release:gate.
DriftAllowed(schema) ==
  \/ snapshot[1] # "doc"
  \/ Drift(schema) = {}
  \/ followup

\* What a release checks of the schema.
SchemaGates(online) ==
  /\ TypesCurrent
  /\ PayloadsCurrent
  /\ ResultsCurrent
  /\ Complete(Fetched(online))
  /\ DriftAllowed(Fetched(online))

===============================================================================
