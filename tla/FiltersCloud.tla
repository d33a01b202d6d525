---------------------------- MODULE FiltersCloud ----------------------------
(***************************************************************************)
(* The filters of the tools that reach over the network (handlers/cloud).  *)
(***************************************************************************)
EXTENDS FilterText

\* What a listing of the cloud becomes: rich rows, rows by name, a count.
Rows(s) == Listing(Says("count", s), Count)

\* aws: the answers of seven commands, if they parse; all the rest is shown.
AwsRows(r) == LET rows == Out(r) \cap Of(r, {"row"})
              IN Budgeted(Says("count", rows \cup (Out(r) \cap Of(r, {"detail"}))),
                          Says("count", rows), Count)
Aws(r) == IF r.exit # 0 \/ r.ask = "other" \/ Has(r, {"text"}) THEN Whole(r) ELSE AwsRows(r)

\* docker is asked for a format of its own, unless a flag is unknown; a row with fewer
\* columns than that format is dropped and not counted.
DockerRows(r) == IF Out(r) = {} THEN Says("clean", {}) ELSE Rows(Out(r) \cap Of(r, {"row"}))
ComposeBuild(r) == IF Out(r) = {} THEN Says("clean", {}) ELSE Says("count", FirstOf(Of(r, {"step"}), 1))
Docker(r) ==
    CASE r.exit # 0 -> Whole(r)
      [] r.exit = 0 /\ r.ask \in {"ps", "compose ps", "images"} -> DockerRows(r)
      [] r.exit = 0 /\ r.ask = "compose build" -> ComposeBuild(r)
      [] OTHER -> IF Out(r) = {} /\ r.ask = "compose logs" THEN Says("clean", {}) ELSE Shows(Out(r))

\* kubectl get pods: counts, and the pods that have a problem.  An answer about one pod is
\* no list, and no list is no pods.
Pods(r) ==
    IF Has(r, {"one"}) \/ Of(r, {"good", "bad"}) = {} THEN Says("clean", {})
    ELSE Listing(Says("count", Out(r) \cap Of(r, {"bad"})), Count)
Services(r) == IF Of(r, {"row"}) = {} THEN Says("clean", {}) ELSE Rows(Out(r) \cap Of(r, {"row"}))
Kubectl(r) ==
    CASE r.exit # 0 \/ r.ask = "other" -> Whole(r)
      [] r.exit = 0 /\ r.ask = "logs" -> Shows(Out(r))
      [] OTHER -> IF Has(r, {"text"}) THEN Shows(Out(r))
                  ELSE IF r.ask = "services" THEN Services(r) ELSE Pods(r)

\* curl: a long answer that is no JSON is cut, and called a digest.
Curl(r) == IF r.exit # 0 \/ r.ask = "json" \/ Cardinality(All(r)) <= Cap THEN Whole(r)
           ELSE [Says("count", FirstOf(All(r), Cap)) EXCEPT !.omission = "digest"]

\* wget: a failure in a phrase, a download in a line, a body cut like that of curl but
\* not declared.
WgetFailure(r) == Shows(FirstOf(IF Has(r, {"err"}) THEN Of(r, {"err"}) ELSE All(r) \ Out(r), 1))
Wget(r) ==
    CASE r.exit # 0 -> WgetFailure(r)
      [] r.exit = 0 /\ r.ask = "body" /\ r.out # <<>> -> Says("count", FirstOf(Out(r), Cap))
      [] OTHER -> Says("ok", {})

\* psql: rows and messages, or the header and the number of rows.
PsqlTable(r) == Listing(Shows(All(r) \ Of(r, {"rule", "total", "blank"})),
                        Says("count", FirstOf(Of(r, {"row"}), 1)))
\* Nothing that follows the first record but the fields of records.
PsqlExpanded(r) ==
    LET late(i) == Lines(r)[i] = "other" /\ \E h \in 1 .. i : Lines(r)[h] = "row"
    IN Listing(Shows({i \in All(r) \ Of(r, {"rule", "total", "blank"}) : ~late(i)}), Count)
Psql(r) == CASE r.ask = "table" -> PsqlTable(r)
             [] r.ask = "expanded" -> PsqlExpanded(r)
             [] OTHER -> Listing(Whole(r), Count)
=============================================================================
