------------------------------ MODULE Explorers ------------------------------
(***************************************************************************)
(* The networks (utils/types/enums.py, utils/constants/mappers.py), the    *)
(* URL the explorer of each is asked at (lib/clients/explorer.py) and what *)
(* is made of its answer (utils/helpers/code_parser.py).                   *)
(*                                                                         *)
(* Four networks share the host api.routescan.io: only the path tells them *)
(* apart, so the source code at an address depends on it.                  *)
(***************************************************************************)
EXTENDS Naturals, Sequences

\* The order is that in which networks are scanned.
networks_by_type ==
    [mainnet |-> <<"base", "bsc", "eth", "polygon", "avax", "mode", "arb">>,
     testnet |-> <<"base_sepolia", "bsc_test", "eth_sepolia", "polygon_amoy",
                   "avax_fuji", "mode_testnet", "arb_sepolia">>]

NetworkEnum == {"eth", "bsc", "polygon", "base", "avax", "mode", "arb",
                "eth_sepolia", "bsc_test", "polygon_amoy", "base_sepolia",
                "avax_fuji", "mode_testnet", "arb_sepolia"}

NetworksOf(type) == {networks_by_type[type][i] : i \in 1 .. 7}

network_explorer_mapper ==
    [arb     |-> "api.arbiscan.io",     arb_sepolia  |-> "api-sepolia.arbiscan.io",
     avax    |-> "api.routescan.io",    avax_fuji    |-> "api.routescan.io",
     base    |-> "api.basescan.org",    base_sepolia |-> "api-sepolia.basescan.org",
     bsc     |-> "api.bscscan.com",     bsc_test     |-> "api-testnet.bscscan.com",
     eth     |-> "api.etherscan.io",    eth_sepolia  |-> "api-sepolia.etherscan.io",
     mode    |-> "api.routescan.io",    mode_testnet |-> "api.routescan.io",
     polygon |-> "api.polygonscan.com", polygon_amoy |-> "api-amoy.polygonscan.com"]

network_chainid_mapper ==
    [arb     |-> 42161, arb_sepolia  |-> 421614,
     avax    |-> 43114, avax_fuji    |-> 43113,
     base    |-> 8453,  base_sepolia |-> 84532,
     bsc     |-> 56,    bsc_test     |-> 97,
     eth     |-> 1,     eth_sepolia  |-> 11155111,
     mode    |-> 34443, mode_testnet |-> 919,
     polygon |-> 137,   polygon_amoy |-> 80002]

\* Mutant of BaseUrl: the chain is not in the path.
BaseUrlOfType(n) ==
    LET route == network_explorer_mapper[n] IN
    [host |-> route,
     path |-> IF route # "api.routescan.io" THEN << >>
                ELSE <<IF n \in NetworksOf("testnet") THEN "testnet" ELSE "mainnet", 0>>]

\* _get_base_url.
BaseUrl(n) ==
    LET route == network_explorer_mapper[n] IN
    [host |-> route,
     path |-> IF route # "api.routescan.io" THEN << >>
                ELSE <<IF n \in NetworksOf("testnet") THEN "testnet" ELSE "mainnet",
                       network_chainid_mapper[n]>>]

\* The networks a request for n is answered about: its own, if URLs differ.
AskedAbout(n) == {m \in NetworkEnum : BaseUrl(m) = BaseUrl(n)}
-----------------------------------------------------------------------------
(***************************************************************************)
(* SourceCodeParser. The field SourceCode of an answer holds a file, or    *)
(* JSON with the files under "sources", which Etherscan wraps in a second  *)
(* pair of braces, or other JSON. Its code is what the files hold, one     *)
(* after the other; it is empty until the code is published.               *)
(***************************************************************************)
Forms == {"file", "sources", "wrapped", "other"}

Empty == [form |-> "file", code |-> ""]

Unreadable == "unreadable"

\* __init__: raw_content and is_object.
Unwrapped(field) ==
    [field EXCEPT !.form = IF field.form = "wrapped" THEN "sources" ELSE @]

is_object(field) == Unwrapped(field).form # "file"

\* extract_raw_code; "unreadable" where the code is empty, or where it raises
\* for want of "sources".
extract_raw_code(field) ==
    IF field = Empty \/ (is_object(field) /\ Unwrapped(field).form # "sources")
        THEN Unreadable
        ELSE field.code
=============================================================================
