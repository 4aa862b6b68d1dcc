----------------------------- MODULE MCMailStore -----------------------------
(* Small instances of MailStore: the mutations clients ask for in each run. *)
EXTENDS MailStore

CONSTANTS p, q, general, dev, all, r1, r2, r3, r4, r5, r6

Call(r, op, who, dest, about) ==
    [rid |-> r, op |-> op, who |-> who, dest |-> dest, about |-> about]

\* Two participants; messages to everybody, to a channel and to one of them; p
\* leaves while q stays; ids r3 and r5 are used for two requests each.
MailCalls ==
    {Call(r1, "register", p, None, {}), Call(r2, "register", q, None, {}),
     Call(r3, "send", p, all, {}), Call(r3, "leave", p, None, {}),
     Call(r4, "send", q, dev, {1}), Call(r5, "send", p, q, {}),
     Call(r5, "acknowledge", q, None, {1}), Call(r6, "channel_create", None, dev, {})}

\* One participant, a channel, a message to it, and leaving and returning.
CrashCalls ==
    {Call(r1, "register", p, None, {}), Call(r2, "channel_create", None, dev, {}),
     Call(r3, "send", p, dev, {}), Call(r4, "leave", p, None, {}),
     Call(r5, "register", p, None, {})}
=============================================================================
