------------------------------ MODULE ListPage ------------------------------
(***************************************************************************)
(* What one request for a page of the catalogue comes to.  A get of        *)
(* RequestsHttpClient tries three times (infra/http/client.py); what it    *)
(* returns goes, whatever its status, to the list parser                   *)
(* (infra/parsers/list_parser.py), and the walk (services/                 *)
(* paginated_list_fetcher.py) tells rows, the end of the catalogue, a lost *)
(* session and a failure apart by what the two say.                        *)
(*                                                                         *)
(* A document is reduced to what the parser asks of it: which of the three *)
(* signs of a login page it carries, whether there is a tbody, and the     *)
(* shape of every row.  The parser's cap of 10,000 rows lies far above the *)
(* page sizes the callers ask for and is left out.                         *)
(***************************************************************************)
EXTENDS Naturals, FiniteSets

\* What one try gives: a 2xx, a 3xx that was not followed, a 4xx, a 5xx or a
\* 429, a connection that fails or times out, or any other RequestException.
Attempt == {"page", "redirect", "refused", "busy", "unreachable", "broken"}

RETRY_ATTEMPTS == 3

ShouldRetry(a) == a \in {"busy", "unreachable"}

\* The first try that is not worth another decides.  When none is left, any
\* response that came counts more than a later exception.
get(tries) ==
  LET final == {i \in 1..RETRY_ATTEMPTS : ~ShouldRetry(tries[i])}
  IN CASE final # {} -> tries[CHOOSE i \in final : \A j \in final : i <= j]
       [] final = {} /\ (\E i \in 1..RETRY_ATTEMPTS : tries[i] = "busy") -> "busy"
       [] OTHER -> "unreachable"

Answers == {get(tries) : tries \in [1..RETRY_ATTEMPTS -> Attempt]}

\* Only in the head is a script or a refresh to the login host a sign, and only
\* a form in the body: the site's own pages link to that host.
LoginSign == {"title", "head", "form"}
Document == [signs : SUBSET LoginSign, tbody : BOOLEAN]

\* An error page has no table; anything may come with a 200, the login page and
\* a page of the operator's among it.
Documents(answer) ==
  CASE answer = "page" -> Document
    [] answer \in {"busy", "refused"} -> {d \in Document : ~d.tbody}
    [] OTHER -> {[signs |-> {}, tbody |-> FALSE]}

Fetched == UNION {{<<a, d>> : d \in Documents(a)} : a \in Answers}

\* A row needs a numeric data-key, the cells up to the status, and its date of
\* creation; every other cell may be empty.
RowShape == [key : BOOLEAN, cells : 13..14, created : BOOLEAN]
Readable(row) == row.key /\ row.cells >= 14 /\ row.created

\* The rows of a page that the parser returns; it skips the others in silence.
ReadRows(shape) == {l \in DOMAIN shape : Readable(shape[l])}

\* Mutant: a document without a table is taken for one without rows.
parse_NoTableIsEmpty(doc, rows) ==
  CASE doc.signs # {} -> "expired"
    [] doc.signs = {} /\ (rows = {} \/ ~doc.tbody) -> "end"
    [] OTHER -> "rows"

\* A login page is told first, as it has no table either.
parse(doc, rows) ==
  CASE doc.signs # {} -> "expired"
    [] doc.signs = {} /\ ~doc.tbody -> "failed"
    [] doc.signs = {} /\ doc.tbody /\ rows = {} -> "end"
    [] OTHER -> "rows"

\* iterate, for one page; no status but a 3xx is looked at.
Verdict(answer, doc, rows) ==
  CASE answer \in {"unreachable", "broken"} -> "failed"
    [] answer = "redirect" -> "expired"
    [] OTHER -> parse(doc, rows)

\* What a request may come to when the page holds these readable rows.
Verdicts(rows) == {Verdict(f[1], f[2], rows) : f \in Fetched}
=============================================================================
