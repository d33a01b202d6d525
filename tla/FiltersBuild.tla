---------------------------- MODULE FiltersBuild ----------------------------
(***************************************************************************)
(* The filters of the tools that build, test and check a program           *)
(* (handlers/js, java, python, dotnet, iac).  In a report, "err" and       *)
(* "fail" are the head lines of what went wrong, "detail" the lines that   *)
(* belong to the head above them, "total" the line that counts.            *)
(***************************************************************************)
EXTENDS FilterText

After(r, i, kinds) == \E h \in 1 .. i - 1 : Lines(r)[h] \in kinds
\* A list of failures with their messages; the digest has the names alone.
Failures(r, heads, rest) ==
    Budgeted(Says("count", heads \cup rest), Says("count", heads), Count)

-----------------------------------------------------------------------------
(* Linters, compilers and type checkers *)

\* An issue counts only below the name of a file; without issues the text is shown.
Eslint(r) ==
    LET issues == {i \in Of(r, {"err", "warn"}) : After(r, i, {"file"})}
    IN IF issues # {} THEN Says("count", issues \cup Of(r, {"file"}))
       ELSE IF r.exit = 0 /\ All(r) = {} THEN Says("clean", {}) ELSE Whole(r)

\* Every diagnostic with its notes; "Found 0 errors" is the only clean verdict.
Tsc(r) ==
    LET issues == Of(r, {"err"})
        notes == {i \in Of(r, {"detail"}) : After(r, i, {"err"})}
    IN IF issues # {} THEN Says("count", issues \cup notes)
       ELSE IF Has(r, {"clean"}) THEN Says("clean", {}) ELSE Whole(r)

\* Whatever has no diagnostic in it is without issues; the exit code is not asked.
Mypy(r) ==
    LET own == {i \in Of(r, {"detail"}) : After(r, i, {"err"})}
        heads == Of(r, {"err"}) \cup (Of(r, {"detail"}) \ own)
    IN IF heads = {} THEN Says("clean", {}) ELSE Failures(r, heads, own)

\* Ruff is asked for JSON, if it checks; the text of the other commands is shown.
Ruff(r) ==
    LET issues == Of(r, {"err"})
    IN IF issues # {} THEN Listing(Says("count", issues), Count)
       ELSE IF All(r) = {} \/ (r.ask = "check" /\ Has(r, {"clean"})) THEN Says("clean", {})
       ELSE Whole(r)

\* The errors and warnings of javac, with the notes of the next five lines.
Javac(r) == Says("count", Of(r, {"err", "warn"})
                          \cup {i \in Of(r, {"detail"}) : After(r, i, {"err", "warn"})})

\* Files that need formatting; the verdict that there are none needs exit code 0.
Prettier(r) ==
    LET files == Of(r, {"file"})
    IN IF files # {}
       THEN IF r.ask = "write" THEN Count ELSE Listing(Says("count", files), Count)
       ELSE IF r.exit = 0 /\ All(r) # {} THEN Says("clean", {}) ELSE Whole(r)

-----------------------------------------------------------------------------
(* Tests *)

\* Vitest, jest, playwright: the totals must be there, or the text is shown.
TestReport(r) ==
    LET fails == Of(r, {"fail"})
        details == {i \in Of(r, {"detail"}) : After(r, i, {"fail"})}
    IN IF ~Has(r, {"total"}) THEN Whole(r)
       ELSE IF fails = {} THEN Count ELSE Failures(r, fails, details)
\* Playwright's report, as JSON or as text, is read the same way.
Playwright(r) == TestReport(r)

\* Pytest: failures are read in their sections, which a "section" line opens; the last
\* line decides, "total" if it counts failures, "pass" if it only counts what passed.
Pytest(r) ==
    LET fails == {i \in Of(r, {"fail"}) : After(r, i, {"section"})}
        details == {i \in Of(r, {"detail"}) : After(r, i, {"fail"}) /\ After(r, i, {"section"})}
    IN IF Has(r, {"total"})
       THEN IF fails = {} THEN Count ELSE Failures(r, fails, details)
       ELSE IF Has(r, {"pass"}) THEN Says("ok", {})
       ELSE IF r.exit \in {2, 4} THEN Whole(r) ELSE Says("clean", {})

\* dotnet: a test run as text or as a report, a build log, a formatter's report.
DotnetTests(r) ==
    LET fails == Of(r, {"fail"})
        details == {i \in Of(r, {"detail"}) : After(r, i, {"fail"})}
        totals == Of(r, {"total"})
    IN IF r.ask = "trx" THEN IF fails = {} THEN Count ELSE Failures(r, fails, details)
       ELSE IF fails # {}
            THEN Budgeted(Shows(fails \cup details \cup totals), Shows(fails \cup totals),
                          Says("count", totals))
            ELSE IF totals # {} THEN Shows(totals) ELSE Whole(r)
Dotnet(r) ==
    LET issues == Of(r, {"err", "warn"})
    IN CASE r.ask \in {"test", "trx"} -> DotnetTests(r)
         [] r.ask = "binlog" -> IF issues = {} THEN Whole(r) ELSE Shows(issues)
         [] r.ask = "format" ->
              IF Has(r, {"text"}) THEN Whole(r)
              ELSE IF Has(r, {"file"}) THEN Says("count", Of(r, {"file"})) ELSE Says("ok", {})
         [] OTHER -> Whole(r)

-----------------------------------------------------------------------------
(* Builds *)

\* The digest of the build tools is the first lines of what they keep.
Important(r, kept) ==
    IF kept = {} THEN Whole(r) ELSE Budgeted(Shows(kept), Shows(FirstOf(kept, Cap)), Count)
\* The lines of the plugins: dependencies, Spring, Checkstyle (any error in a .java file),
\* PMD, SpotBugs, JaCoCo.
JavaEcosystem(r) == Of(r, {"resolve", "javaErr"})
\* Frames of the framework and help are noise in every task; the tests that passed too.
Gradle(r) ==
    LET common == Of(r, {"verdict"}) \cup JavaEcosystem(r)
        kept == CASE r.ask = "test" -> common \cup Of(r, {"fail", "detail"})
                  [] r.ask = "build" -> common \cup Of(r, {"fail", "err", "warn"})
                  [] r.ask = "analysis" -> common \cup Of(r, {"warn"})
                  [] OTHER -> All(r)
    IN IF r.ask = "other" THEN Whole(r) ELSE Important(r, kept)
\* Maven is read only if its footer is there, or if it was asked to be quiet and failed.
\* A warning is kept once.
Maven(r) ==
    LET readable == Has(r, {"verdict"}) \/ (r.ask = "quiet" /\ r.exit # 0 /\ Has(r, {"err", "fail"}))
        kept == JavaEcosystem(r) \cup Of(r, {"verdict", "fail", "err", "detail"}) \cup FirstOf(Of(r, {"warn"}), 1)
    IN IF r.ask = "other" \/ ~readable THEN Whole(r) ELSE Important(r, kept)

\* next build: a failed build is shown; of the others the first routes and the counts.
\* The summary instead of a list that is too long is not declared.
NextBuild(r) ==
    LET routes == Says("count", FirstOf(Of(r, {"route"}), Cap))
    IN IF r.ask # "build" \/ r.exit # 0 THEN Whole(r) ELSE IF Fits(routes) THEN routes ELSE Count

\* npm: without its banners, notices and warnings about anything but peers.
Npm(r) == LET kept == All(r) \ Of(r, {"banner", "notice", "warn", "blank"})
          IN IF kept = {} THEN Says("ok", {}) ELSE Shows(kept)

\* prisma: a sentence for each command, if it worked; deploy looks for errors too.
Generated(r) == IF r.ask = "generate" THEN Says("ok", {}) ELSE Count
Prisma(r) ==
    CASE r.exit # 0 \/ r.ask = "other" -> Whole(r)
      [] r.exit = 0 /\ r.ask \in {"generate", "dev"} -> Generated(r)
      [] r.exit = 0 /\ r.ask = "status" -> Count
      [] r.exit = 0 /\ r.ask = "deploy" ->
             IF Has(r, {"err"}) THEN Shows(Of(r, {"err"})) ELSE Says("ok", {})
      [] OTHER -> Says("ok", {})

\* terraform plan, in which nothing after the closing rule is shown, and its tests.
Plan(r) ==
    LET closed(i) == \E t \in 1 .. i : /\ Lines(r)[t] = "rule" /\ After(r, t, {"actions"})
    IN IF ~Has(r, {"actions", "verdict"}) THEN Whole(r)
       ELSE Shows({i \in All(r) \ Of(r, {"noise"}) : ~closed(i)})
Terraform(r) ==
    CASE r.ask = "plan" -> Plan(r)
      [] r.ask = "test" -> IF Has(r, {"verdict"}) THEN Shows(All(r) \ Of(r, {"noise", "pass"}))
                           ELSE Whole(r)
      [] OTHER -> Whole(r)

-----------------------------------------------------------------------------
(* Packages *)

\* Problems are listed whatever becomes of the packages.
PackageList(r) ==
    LET deps == Of(r, {"dep"})
        problems == Of(r, {"problem"})
    IN IF deps # {} THEN Plus(Listing(Says("count", deps), Count), problems)
       ELSE IF problems # {} THEN Shows(problems) ELSE Whole(r)
Pip(r) ==
    LET deps == Of(r, {"dep"})
        listed == IF deps = {} THEN Says("clean", {})
                  ELSE Listing(Says("count", deps), Count)
    IN CASE r.ask = "freeze" -> Whole(r)
         [] r.ask = "outdated" -> IF All(r) = {} THEN Says("clean", {})
                                  ELSE IF deps = {} THEN Whole(r) ELSE listed
         [] OTHER -> IF deps \cup Of(r, {"problem"}) = {} THEN Whole(r)
                     ELSE Plus(listed, Of(r, {"problem"}))
=============================================================================
