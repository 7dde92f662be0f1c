-------------------------- MODULE MCCampaignVoucher --------------------------
(* Small instances of CampaignVoucher. *)
EXTENDS CampaignVoucher, TLC

VoucherSymmetry == Permutations(Voucher)
=============================================================================
