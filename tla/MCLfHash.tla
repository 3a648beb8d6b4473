------------------------------ MODULE MCLfHash ------------------------------
EXTENDS LfHash

\* One thread removes an element, perhaps gives its pins back and so the node
\* to the allocator, and uses the node again, while another one is anywhere
\* inside a call.
RemoveAndReuse ==
  << << {<<"delete", 0>>}, {<<"insert", 3>>} >>,
     << {<<"insert", 0>>, <<"insert", 3>>, <<"delete", 0>>, <<"delete", 4>>, <<"search", 0>>} >> >>

\* One thread pops the only node of the allocator's stack, removes another node
\* and pushes both back, while the other one is anywhere inside _lf_alloc_new.
PopAndPushBack ==
  << << {<<"insert", 3>>}, {<<"delete", 4>>}, {<<"delete", 3>>} >>,
     << {<<"insert", 0>>} >> >>

AllPrograms == {RemoveAndReuse, PopAndPushBack}
=============================================================================
