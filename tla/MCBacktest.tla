------------------------------ MODULE MCBacktest ------------------------------
\* Two names over six closes; every registered strategy and three that are not.
EXTENDS Backtest

\* Both open at the lower price and move apart from the second close on.
OpeningValue == {[s \in Symbols |-> Min(Prices)]}

\* 0.8 of the limit: DEFAULT_GROSS.
DefaultGross == (8 * Unit) \div 10

By(lookback) == [lookback |-> lookback, gross |-> DefaultGross]
Of(strategy, grid, chosen, volume) ==
    [strategy |-> strategy, grid |-> grid, chosen |-> chosen, volume |-> volume]

PlansValue ==
    {Of("ts_momentum", <<By(1), By(2)>>, 2, TRUE),
     Of("xs_momentum", <<[lookback |-> 1, skip |-> 1, gross |-> DefaultGross],
                         [lookback |-> 2, skip |-> 1, gross |-> DefaultGross]>>, 1, TRUE),
     Of("short_term_reversal", <<By(1), By(2)>>, 1, FALSE),
     Of("betting_against_beta", <<By(2), By(3)>>, 1, TRUE),
     Of("trend_breakout", <<By(1), By(2)>>, 2, TRUE),
     Of("multi_signal", <<[trend_lookback |-> 2, xs_lookback |-> 1, xs_skip |-> 1,
                           reversal_lookback |-> 1, beta_lookback |-> 2, gross |-> DefaultGross],
                          [trend_lookback |-> 1, xs_lookback |-> 2, xs_skip |-> 1,
                           reversal_lookback |-> 1, beta_lookback |-> 2, gross |-> DefaultGross]>>,
        1, TRUE),
     Of("canary", <<[gross |-> Unit], [gross |-> DefaultGross]>>, 1, TRUE),
     Of("standardised", <<[gross |-> Unit], [gross |-> DefaultGross]>>, 1, TRUE),
     Of("warm_up", <<[gross |-> Unit], [gross |-> DefaultGross]>>, 1, TRUE)}
=============================================================================
