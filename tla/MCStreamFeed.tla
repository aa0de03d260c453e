---- MODULE MCStreamFeed ----
EXTENDS StreamFeed
MCRequests == {<<-1, 0>>, <<1, 9>>, <<3, 1>>}
====
