------------------------------ MODULE UsageReport ------------------------------
(***************************************************************************)
(* The usage reports: the query over api_usage that ml_platform/           *)
(* usage_report/sql.py writes, by what PostgreSQL answers, and what        *)
(* scripts/reports/usage_report.py makes of the answer.  Times are         *)
(* seconds, in UTC, from a Monday midnight; a row has its id, timestamp,   *)
(* username, endpoint_type, status_code and url_path.  The text of a time  *)
(* limit is a record: nothing given, a word such as all or now, so many    *)
(* seconds, minutes, hours, days or weeks ago, or a time.                  *)
(***************************************************************************)
EXTENDS Integers, FiniteSets, SequencesExt

CONSTANTS
  TopLimit,  \* rows of a table of users or paths: 25
  Offset     \* --timezone, in seconds east of UTC

ASSUME ReportAssumption == TopLimit \in Nat /\ Offset \in Int

Nothing == [form |-> "nothing"]
Word == [form |-> "word"]
Ago(amount, unit) == [form |-> "ago", amount |-> amount, unit |-> unit]
Time(at) == [form |-> "time", at |-> at]

UnitSeconds == [s |-> 1, m |-> 60, h |-> 3600, d |-> 86400, w |-> 604800]
BucketSeconds == [minute |-> 60, hour |-> 3600, day |-> 86400]
Seconds(limit) == limit.amount * UnitSeconds[limit.unit]

-------------------------------------------------------------------------------
\* sql.py

\* time_expr; -1 is NULL.  `--since now` asks for everything.
TimeExpr(limit, defaultNow, now) ==
  CASE limit.form \in {"nothing", "word"} -> IF defaultNow THEN now ELSE -1
    [] limit.form = "ago" -> now - Seconds(limit)
    [] OTHER -> limit.at

\* Variant: minutes up to a day.
ChooseBucketFine(mode, since, bucket) ==
  IF bucket # "auto" THEN bucket
  ELSE IF mode = "report" /\ since = Nothing THEN "day"
  ELSE IF since.form = "ago" /\ Seconds(since) <= 24 * 3600 THEN "minute"
  ELSE IF since.form = "ago" /\ Seconds(since) <= 7 * 86400 THEN "hour"
  ELSE IF mode = "report" THEN "day" ELSE "hour"

ChooseBucket(mode, since, bucket) ==
  IF bucket # "auto" THEN bucket
  ELSE IF mode = "report" /\ since = Nothing THEN "day"
  ELSE IF since.form = "ago" /\ Seconds(since) <= 6 * 3600 THEN "minute"
  ELSE IF since.form = "ago" /\ Seconds(since) <= 7 * 86400 THEN "hour"
  ELSE IF mode = "report" THEN "day" ELSE "hour"

LocalTime(row) == row.timestamp + Offset
Trunc(bucket, row) == LocalTime(row) - (LocalTime(row) % BucketSeconds[bucket])

\* Variant: EXTRACT(DOW), where Sunday is 0.
DowFromSunday(row) == ((LocalTime(row) \div 86400) + 1) % 7

\* EXTRACT(ISODOW ...) and EXTRACT(HOUR ...): Monday is 1.
IsoDow(row) == ((LocalTime(row) \div 86400) % 7) + 1
Hour(row) == (LocalTime(row) % 86400) \div 3600

Errors(rows) == Cardinality({r \in rows : r.status_code >= 400})
Limited(seq, limit) == SubSeq(seq, 1, IF Len(seq) < limit THEN Len(seq) ELSE limit)

\* GROUP BY: key gives the group of each row.
Groups(key) ==
  LET Group(name) == {r \in DOMAIN key : key[r] = name}
  IN {[name |-> name, n |-> Cardinality(Group(name)), errors |-> Errors(Group(name))] :
      name \in Range(key)}

\* ORDER BY the rank of each; names, which have no order here, do not break ties.
Sorted(S, rank) ==
  CHOOSE seq \in SetToSeqs(S) :
    \A i, j \in DOMAIN seq : i < j => rank[seq[i]] <= rank[seq[j]]

BySize(groups) == Sorted(groups, [g \in groups |-> -g.n])
ByName(groups) == Sorted(groups, [g \in groups |-> g.name])
ByHour(groups) == Sorted(groups, [g \in groups |-> 24 * g.name[1] + g.name[2]])

\* Variant: the second of the query itself is left out.
BaseHalfOpen(api_usage, since, until, now) ==
  {r \in api_usage : /\ r.timestamp >= TimeExpr(since, FALSE, now)
                     /\ r.timestamp < TimeExpr(until, TRUE, now)}

\* Both limits of the window belong to it.
Base(api_usage, since, until, now) ==
  {r \in api_usage : /\ r.timestamp >= TimeExpr(since, FALSE, now)
                     /\ r.timestamp <= TimeExpr(until, TRUE, now)}

BuildSql(api_usage, since, until, bucket, recentLimit, now) ==
  LET base == Base(api_usage, since, until, now)
  IN [bucket |-> bucket, since |-> since, until |-> until,
      total |-> Cardinality(base), error_count |-> Errors(base),
      unique_users |-> Cardinality({r.username : r \in base}),
      endpoint_counts |-> BySize(Groups([r \in base |-> r.endpoint_type])),
      status_counts |-> ByName(Groups([r \in base |-> r.status_code])),
      user_counts |-> Limited(BySize(Groups([r \in base |-> r.username])), TopLimit),
      path_counts |-> Limited(BySize(Groups([r \in base |-> r.url_path])), TopLimit),
      time_buckets |-> ByName(Groups([r \in base |-> Trunc(bucket, r)])),
      hour_heatmap |-> ByHour(Groups([r \in base |-> <<IsoDow(r), Hour(r)>>])),
      recent |-> Limited(Sorted(base, [r \in base |-> -r.timestamp]), recentLimit)]

-------------------------------------------------------------------------------
\* usage_report.py

\* a / b to the nearest integer, halves to the even one.
Round(a, b) ==
  LET down == a \div b
      twice == 2 * (a % b)
  IN IF twice > b \/ (twice = b /\ down % 2 = 1) THEN down + 1 ELSE down

\* In tenths of a percent.
Pct(part, total) == IF total <= 0 THEN 0 ELSE Round(1000 * part, total)

\* Characters of a bar that are filled, of 28.
Bar(value, max) ==
  IF max <= 0 THEN 0
  ELSE LET filled == Round(28 * value, max) IN IF value > 0 /\ filled = 0 THEN 1 ELSE filled

Largest(rows) ==
  IF rows = <<>> THEN 1 ELSE CHOOSE n \in {rows[i].n : i \in DOMAIN rows} :
                               \A i \in DOMAIN rows : rows[i].n <= n

\* render_rows: bars are drawn to the largest of all rows, also those not shown.
RenderRows(rows, limit) ==
  [i \in 1..Len(Limited(rows, limit)) |->
     [name |-> rows[i].name, n |-> rows[i].n, bar |-> Bar(rows[i].n, Largest(rows))]]

RenderSummary(report) ==
  [total |-> report.total, users |-> report.unique_users, errors |-> report.error_count,
   rate |-> Pct(report.error_count, report.total),
   endpoints |-> RenderRows(report.endpoint_counts, 10),
   statuses |-> RenderRows(report.status_counts, 10),
   top_users |-> RenderRows(report.user_counts, 10),
   activity |-> RenderRows(report.time_buckets, 12),
   recent |-> Limited(report.recent, 8)]

ChartWidth == 832
ChartHeight == 164

\* One bar per bucket that has requests, red if one of them failed.  The bar
\* takes 72% of its slot and at least 2: here in hundredths.
TimelineSvg(rows) ==
  [i \in DOMAIN rows |->
     [slot |-> (100 * ChartWidth) \div Len(rows),
      width |-> IF 72 * ChartWidth < 200 * Len(rows) THEN 200
                ELSE (72 * ChartWidth) \div Len(rows),
      height |-> Round(ChartHeight * rows[i].n, Largest(rows)),
      red |-> rows[i].errors > 0, n |-> rows[i].n]]

HtmlBars(rows) ==
  [i \in 1..Len(Limited(rows, 12)) |->
     [name |-> rows[i].name, n |-> rows[i].n, width |-> Pct(rows[i].n, Largest(rows))]]

\* A cell for each hour of a week, Monday first; alpha in hundredths.
Heatmap(rows) ==
  LET At(cell) == {i \in DOMAIN rows : rows[i].name = cell}
      n(cell) == IF At(cell) = {} THEN 0 ELSE rows[CHOOSE i \in At(cell) : TRUE].n
  IN [cell \in (1..7) \X (0..23) |->
        [n |-> n(cell),
         alpha |-> IF rows = <<>> THEN 0 ELSE 12 + Round(78 * n(cell), Largest(rows))]]

RenderHtml(report) ==
  [total |-> report.total, users |-> report.unique_users, errors |-> report.error_count,
   rate |-> Pct(report.error_count, report.total),
   timeline |-> TimelineSvg(report.time_buckets),
   endpoints |-> HtmlBars(report.endpoint_counts),
   statuses |-> HtmlBars(report.status_counts),
   top_users |-> HtmlBars(report.user_counts), paths |-> HtmlBars(report.path_counts),
   heatmap |-> Heatmap(report.hour_heatmap),
   recent |-> report.recent]

\* Without --since, summary and json mean the last 24 hours, report everything.
Since(mode, since) ==
  IF since = Nothing /\ mode \in {"summary", "json"} THEN Ago(24, "h") ELSE since

Report(api_usage, mode, since, until, now) ==
  BuildSql(api_usage, Since(mode, since), until,
           ChooseBucket(mode, Since(mode, since), "auto"), 25, now)

-------------------------------------------------------------------------------
\* What a report that is drawn right says.

Sum(parts) == SumFunction([i \in DOMAIN parts |-> parts[i].n])

\* A list shows less than the total exactly if it does not show all the groups.
Shows(parts, groups, total) ==
  Sum(parts) <= total /\ (Sum(parts) = total <=> Len(parts) = groups)

PageAddsUp(report) ==
  LET page == RenderHtml(report)
      cells == {report.hour_heatmap[i].name : i \in DOMAIN report.hour_heatmap}
      drawn == cells \cap DOMAIN page.heatmap
  IN /\ Sum(page.timeline) = report.total
     /\ SumFunction([cell \in drawn |-> page.heatmap[cell].n]) = report.total
     /\ Shows(page.endpoints, Len(report.endpoint_counts), report.total)
     /\ Shows(page.statuses, Len(report.status_counts), report.total)
     /\ Shows(page.top_users, report.unique_users, report.total)
     /\ report.error_count > 0 <=> \E i \in DOMAIN page.timeline : page.timeline[i].red

Fits(parts) == \A i \in DOMAIN parts : parts[i].bar \in 1..28

TextAddsUp(report) ==
  LET text == RenderSummary(report)
  IN /\ Shows(text.endpoints, Len(report.endpoint_counts), report.total)
     /\ Shows(text.statuses, Len(report.status_counts), report.total)
     /\ Shows(text.top_users, report.unique_users, report.total)
     /\ Shows(text.activity, Len(report.time_buckets), report.total)
     /\ Fits(text.endpoints) /\ Fits(text.statuses)
     /\ Fits(text.top_users) /\ Fits(text.activity)
===============================================================================
