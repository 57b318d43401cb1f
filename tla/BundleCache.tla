----------------------------- MODULE BundleCache -----------------------------
(***************************************************************************)
(* ibex_bundle_cache: W instruction banks read together at one word index, *)
(* the registered RAM outputs, the slot latch behind them and the          *)
(* fetch-valid pipeline, and the fill port of the loader.                  *)
(***************************************************************************)
EXTENDS VliwParams

CONSTANT BankDepth      \* instruction words per bank

ASSUME BankDepthAssumption == BankDepth \in Nat \ {0}

VARIABLES imem,          \* imem[i][b]: word i of bank b
          a_rdata,       \* output registers of the bank RAMs (port A)
          a_rdata_q,     \* the latched slots that feed the decoders
          fetch_req_q    \* drives fetch_valid_o

cacheVars == <<imem, a_rdata, a_rdata_q, fetch_req_q>>

\* fetch_pc_i[2 +: AddrW]: the word index is the low bits of the slot-counting PC.
bundle_word_idx(fetch_pc) == fetch_pc % BankDepth

fetch_valid == fetch_req_q

CacheInit(image, zero) == /\ imem = image
                          /\ a_rdata = [b \in Lanes |-> zero]
                          /\ a_rdata_q = [b \in Lanes |-> zero]
                          /\ fetch_req_q = FALSE

\* No write on the fill port.
NoFill == [req |-> FALSE]

\* One clock edge: a read returns the contents before a fill of the same edge.
CacheTick(fetch_req, fetch_pc, redirect, fill) ==
  /\ imem' = IF fill.req THEN [imem EXCEPT ![fill.addr][fill.bank] = fill.wdata] ELSE imem
  /\ a_rdata' = IF fetch_req THEN imem[bundle_word_idx(fetch_pc)] ELSE a_rdata
  /\ a_rdata_q' = IF fetch_req_q THEN a_rdata ELSE a_rdata_q
  /\ fetch_req_q' = (fetch_req /\ ~redirect)
=============================================================================
