----------------------------- MODULE MCLogRecords -----------------------------
(* Values of LogRecords' constants for TLC.                                *)
EXTENDS LogRecords, TLC

\* A third unit may be past the leaves.
SmallLimits == [m \in Meters |-> IF m = "leaves" THEN 2 ELSE 3]

JsRecord(body, severityText, eventName, attribute) ==
  [body |-> body, severityText |-> severityText, eventName |-> eventName, attribute |-> attribute]

PyRecord(msg, args, info, text, stack, extra) ==
  [msg |-> msg, args |-> args, exc_info |-> info, exc_text |-> text, stack_info |-> stack, extra |-> extra]

\* Records within and past the leaves, unreadable and too long, with an exception
\* that is cached, about to be cached, or there only as a text.
SmallShapes ==
  [JavaScript |-> {JsRecord("secret", "plain", "absent", "secret"),
                   JsRecord("unreadable", "absent", "secret", "plain"),
                   JsRecord("secret", "secret", "secret", "secret"),
                   JsRecord("opaque", "absent", "long", "opaque")},
   Python |-> {PyRecord("plain", "secret", "secret", "absent", "absent", "plain"),
               PyRecord("plain", "unreadable", "absent", "secret", "absent", "absent"),
               PyRecord("secret", "plain", "plain", "secret", "secret", "secret"),
               PyRecord("long", "absent", "unreadable", "absent", "absent", "unreadable")}]

\* Threads and records are interchangeable.
LogSymmetry == Permutations(Threads) \cup Permutations(Records)
==============================================================================
