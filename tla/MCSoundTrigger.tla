---- MODULE MCSoundTrigger ----
EXTENDS StreamSoundTrigger, TLC
CONSTANTS Kwd, Uv

Plain(second, capture, requests) ==
  [second |-> second, capture |-> capture, notify |-> FALSE, failing |-> {}, requests |-> requests]

MCConfigs ==
  {Plain({}, FALSE, {"pause", "restart"}),
   Plain({}, TRUE, {"concurrent", "switch", "restart"}),
   Plain({Kwd}, TRUE, {"pause"}),
   Plain({Kwd}, TRUE, {"restart"}),
   Plain({Kwd}, FALSE, {"switch"}),
   Plain({Kwd, Uv}, FALSE, {}),
   [Plain({Kwd}, FALSE, {}) EXCEPT !.notify = TRUE],
   [Plain({Kwd}, FALSE, {}) EXCEPT !.failing = {"restart"}],
   [Plain({}, TRUE, {"concurrent"}) EXCEPT !.failing = {"load", "start"}]}

\* two second stage engines; a client that hears of rejections (see HandledAwake; no run)
TwoEngines == {Plain({Kwd, Uv}, FALSE, {})}
Rejections == {[Plain({Kwd}, FALSE, {}) EXCEPT !.notify = TRUE]}
====
