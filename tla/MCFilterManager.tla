-------------------------- MODULE MCFilterManager --------------------------
(* Small instances of FilterManager for TLC: chains of one to three        *)
(* plugins, with and without an authenticated consumer that adds its own.  *)
EXTENDS FilterManager

MCPlugins == {"auth", "a", "b", "c"}
MCOrder == [p \in MCPlugins |-> CASE p = "auth" -> 1 [] p = "a" -> 2
                                   [] p = "b" -> 3 [] p = "c" -> 4]
MCAuthn == {"auth"}

DecodeSide == {"DecodeHeaders", "DecodeData", "DecodeTrailers", "DecodeRequest"}
EncodeSide == {"EncodeHeaders", "EncodeData", "EncodeTrailers", "EncodeResponse"}

(* What one plugin may be: the methods it overrides and the phases it      *)
(* declares non-blocking.                                                  *)
Kind(d, nb) == [defines |-> d, nonblocking |-> nb]
KeyAuth == Kind({"DecodeHeaders"}, {})
InlineAuth == Kind({"DecodeHeaders"}, {"DecodeHeaders"})
Buffering == Kind(Methods \ {"OnLog"}, {})
Inline == Kind(Methods \ {"OnLog"}, Methods)
Streaming == Kind({"DecodeHeaders", "DecodeData", "DecodeTrailers",
                   "EncodeHeaders", "EncodeData", "EncodeTrailers", "OnLog"}, {})
HeadersOnly == Kind({"DecodeHeaders", "EncodeHeaders"}, {"EncodeHeaders"})
Access == Kind({"DecodeHeaders", "OnLog"}, {"DecodeHeaders"})
(* Hooks for the whole message only, and those block.                      *)
Judge == Kind({"DecodeHeaders", "DecodeRequest", "EncodeHeaders", "EncodeResponse"},
              {"DecodeHeaders", "EncodeHeaders"})
(* Everything of the request but DecodeData is declared non-blocking.      *)
BodyScan == Kind(DecodeSide, DecodeSide \ {"DecodeData"})

Plug(route, cons, auth, a, b, c) ==
  LET kind == [p \in MCPlugins |-> CASE p = "auth" -> auth [] p = "a" -> a
                                     [] p = "b" -> b [] p = "c" -> c]
  IN [route |-> route, consumer |-> cons,
      defines |-> [p \in MCPlugins |-> kind[p].defines],
      nonblocking |-> [p \in MCPlugins |-> kind[p].nonblocking]]

WithEnv(chain, init, requests, responses, replies, early, abort) ==
  [route |-> chain.route, consumer |-> chain.consumer, defines |-> chain.defines,
   nonblocking |-> chain.nonblocking, needInit |-> init # "none",
   initFailed |-> init = "fails", messages |-> [decode |-> requests, encode |-> responses],
   replies |-> replies, early |-> early, abort |-> abort]

Full == [body |-> TRUE, trailers |-> TRUE]
Body == [body |-> TRUE, trailers |-> FALSE]

MCSetups ==
  { \* two plugins, both may wait, every shape of message
    WithEnv(Plug({"a", "b"}, {}, KeyAuth, Buffering, Buffering, HeadersOnly), "none",
            Message, Message, {}, FALSE, FALSE),
    \* three plugins that may wait; one replies to a part of a later segment
    WithEnv(Plug({"a", "b", "c"}, {}, KeyAuth, Buffering, Inline, Buffering), "none",
            {Full}, {Body}, {"DecodeData", "EncodeData"}, FALSE, FALSE),
    WithEnv(Plug({"a", "b"}, {}, KeyAuth, Inline, Inline, HeadersOnly), "none",
            Message, {Body, Full}, {}, FALSE, FALSE),
    \* any hook of the decode path replies, or panics
    WithEnv(Plug({"a", "b"}, {}, KeyAuth, Buffering, Streaming, HeadersOnly), "none",
            {Body, Full}, {Body}, DecodeSide, FALSE, FALSE),
    \* a hook of the encode path replies
    WithEnv(Plug({"a"}, {}, KeyAuth, Streaming, HeadersOnly, HeadersOnly), "ok",
            {Body}, {Full}, EncodeSide, FALSE, FALSE),
    \* a plugin whose Init failed
    WithEnv(Plug({"a", "b"}, {}, KeyAuth, Inline, HeadersOnly, HeadersOnly), "fails",
            Message, {Body}, {}, FALSE, FALSE),
    \* a consumer adds a plugin, or replaces one of the route
    WithEnv(Plug({"auth", "b"}, {"a", "c"}, KeyAuth, Buffering, HeadersOnly, Streaming), "none",
            {Body}, {Body}, {"DecodeHeaders"}, FALSE, FALSE),
    WithEnv(Plug({"auth", "b"}, {"b", "c"}, KeyAuth, HeadersOnly, Buffering, Streaming), "ok",
            {Full}, {Full}, {}, FALSE, FALSE),
    WithEnv(Plug({"auth", "b"}, {"c"}, InlineAuth, HeadersOnly, HeadersOnly, Access), "none",
            Message, Message, {}, FALSE, FALSE),
    WithEnv(Plug({"auth", "b"}, {"c"}, KeyAuth, HeadersOnly, Access, Judge), "none",
            {Body}, {Body, Full}, {"DecodeRequest"}, FALSE, FALSE),
    WithEnv(Plug({"a", "b"}, {}, KeyAuth, Judge, HeadersOnly, Judge), "none",
            {Body, Full}, Message, {}, FALSE, FALSE),
    \* requests with trailers and a plugin whose DecodeData blocks
    WithEnv(Plug({"a", "b"}, {}, KeyAuth, BodyScan, BodyScan, HeadersOnly), "none",
            Message, {Body}, {}, FALSE, FALSE),
    \* streams destroyed at any time, early responses, local replies
    WithEnv(Plug({"a"}, {}, KeyAuth, Streaming, HeadersOnly, HeadersOnly), "none",
            {Body}, {Body}, {"DecodeData", "EncodeHeaders"}, TRUE, TRUE),
    WithEnv(Plug({"auth"}, {"a"}, KeyAuth, Access, HeadersOnly, HeadersOnly), "none",
            {Body}, {Body}, {}, TRUE, TRUE),
    WithEnv(Plug({"a", "b"}, {}, KeyAuth, Buffering, Inline, HeadersOnly), "none",
            {Full}, {Body}, {"DecodeRequest"}, FALSE, TRUE) }
=============================================================================
