------------------------------- MODULE Forecast -------------------------------
(* getRevenueTrend and getFinancialForecast: the line of least squares through
   the monthly revenues, and the next month's revenue and the growth that the
   cards show.  Amounts are hundredths of the currency, to which every
   answer is rounded by toFixed(2). *)
EXTENDS Integers, Sequences

CONSTANTS
    MaxMonths,   \* bound: months of a trend
    MaxRevenue   \* bound: revenue of a month

ASSUME ForecastAssumption == MaxMonths \in Nat \ {0} /\ MaxRevenue \in Nat

VARIABLE chart   \* what the charts and cards show

Revenues == UNION {[1 .. n -> 0 .. MaxRevenue] : n \in 0 .. MaxMonths}

\* f[1] + ... + f[n]
Sum(f, n) ==
    LET upTo[i \in 0 .. n] == IF i = 0 THEN 0 ELSE upTo[i - 1] + f[i]
    IN  upTo[n]

-----------------------------------------------------------------------------
(* Means are not whole: n times a month's distance from the mean of the
   months, and n times its revenue's from the mean of the revenues. *)
Total(ys) == Sum(ys, Len(ys))

Months(n) == [i \in 1 .. n |-> i - 1]

MonthFromMean(n, i) == n * (i - 1) - Sum(Months(n), n)

RevenueFromMean(ys, i) == Len(ys) * ys[i] - Total(ys)

\* slope = num / den, both times n * n.
Num(ys) ==
    Sum([i \in 1 .. Len(ys) |-> MonthFromMean(Len(ys), i) * RevenueFromMean(ys, i)], Len(ys))
Den(n) == Sum([i \in 1 .. n |-> MonthFromMean(n, i) * MonthFromMean(n, i)], n)

\* toFixed: a / b to the nearest, away from zero if there are two.
ToFixed(a, b) == IF a >= 0 THEN (2 * a + b) \div (2 * b) ELSE - ((b - 2 * a) \div (2 * b))

\* Mutant: the intercept is taken for the mean.
Line_noIntercept(ys, i) ==
    LET n == Len(ys)
    IN  IF Den(n) = 0 THEN [num |-> Total(ys), den |-> n]
        ELSE [num |-> Total(ys) * Den(n) + Num(ys) * n * (i - 1), den |-> n * Den(n)]

\* intercept + slope * i, where intercept = meanY - slope * meanX.
Line(ys, i) ==
    LET n == Len(ys)
    IN  IF Den(n) = 0 THEN [num |-> Total(ys), den |-> n]
        ELSE [num |-> Total(ys) * Den(n) + Num(ys) * MonthFromMean(n, i), den |-> n * Den(n)]

forecastOf(ys) == [i \in 1 .. Len(ys) |-> ToFixed(Line(ys, i).num, Line(ys, i).den)]

\* One step further along the rounded line.
nextRevenue(ys) ==
    LET n == Len(ys)
    IN  CASE n >= 2 -> forecastOf(ys)[n] + (forecastOf(ys)[n] - forecastOf(ys)[n - 1])
          [] n = 1 -> ys[1]
          [] OTHER -> 0

\* The mean of the differences from month to month.
avgGrowth(ys) ==
    LET difference == [i \in 1 .. Len(ys) - 1 |-> ys[i + 1] - ys[i]]
    IN  IF Len(ys) > 1 THEN ToFixed(Sum(difference, Len(ys) - 1), Len(ys) - 1) ELSE 0

ChartOf(ys) == [revenue |-> ys, forecast |-> forecastOf(ys),
                next |-> nextRevenue(ys), growth |-> avgGrowth(ys)]

NoChart == [revenue |-> <<>>, forecast |-> <<>>, next |-> 0, growth |-> 0]

ForecastTypeOK ==
    /\ chart.revenue \in Revenues
    /\ chart.forecast \in Seq(Int) /\ Len(chart.forecast) = Len(chart.revenue)
    /\ chart.next \in Int /\ chart.growth \in Int

ForecastInit == chart = NoChart

\* The page is opened; a query that fails has no months.
ShowForecast(ys) ==
    /\ chart = NoChart
    /\ chart' = ChartOf(ys)

LeaveForecast == chart' = NoChart

ForecastNext == (\E ys \in Revenues : ShowForecast(ys)) \/ LeaveForecast

-----------------------------------------------------------------------------
Abs(a) == IF a < 0 THEN - a ELSE a

(* The forecast is the line of least squares: its errors, and its errors times
   the months, add up to zero, but for half a hundredth per month of
   rounding.  The next month's revenue is on that line: two roundings, one of
   them doubled, cost at most one hundredth and a half.  The growth is that from the
   first month to the last, spread over the months between. *)
ForecastFits ==
    LET n == Len(chart.revenue)
        error  == [i \in 1 .. n |-> chart.revenue[i] - chart.forecast[i]]
        moment == [i \in 1 .. n |-> (i - 1) * error[i]]
        \* The line of least squares one month on, times n * (n - 1).
        nextTimes == Sum([i \in 1 .. n |-> (6 * i - 2 * n - 4) * chart.revenue[i]], n)
    IN  /\ 2 * Abs(Sum(error, n)) <= n
        /\ 2 * Abs(Sum(moment, n)) <= Sum(Months(n), n)
        /\ n >= 2 => /\ 2 * Abs(chart.next * n * (n - 1) - nextTimes) <= 3 * n * (n - 1)
                     /\ 2 * Abs(chart.growth * (n - 1) - (chart.revenue[n] - chart.revenue[1])) <= n - 1
        /\ n = 1 => chart.next = chart.revenue[1] /\ chart.forecast = chart.revenue

=============================================================================
