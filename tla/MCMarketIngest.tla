--------------------------- MODULE MCMarketIngest ---------------------------
(* Two jobs and three calls after an ingest of the first bar's window, over
   two bars, the first of which the provider corrects once: windows nest, and
   a replay locks the bars in another order than an ingest of both.           *)
EXTENDS MarketIngest

MCJobs    == {"j1", "j2"}
MCTimes   == {1, 2}
MCWindows == {{1}, {1, 2}}
MCStaged  == {1}
MCMaxRev  == <<2, 1>>
=============================================================================
